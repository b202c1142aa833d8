------------------------------ MODULE BtStates ------------------------------
(***************************************************************************)
(* The state names of the MT76x8 Bluetooth USB driver (btmtk_usb_main.h)   *)
(* and the pure state maps its handlers apply: what each callback makes of *)
(* the USB state it finds.  No variables; every module of the driver that  *)
(* needs the states extends this one.                                      *)
(***************************************************************************)

UsbStates ==
  { "UNKNOWN", "INIT", "DISCONNECT", "PROBE", "WORKING", "EARLY_SUSPEND",
    "SUSPEND", "RESUME", "LATE_RESUME", "FW_DUMP",
    "SUSPEND_DISCONNECT", "SUSPEND_PROBE", "SUSPEND_FW_DUMP",
    "RESUME_DISCONNECT", "RESUME_PROBE", "RESUME_FW_DUMP" }

FopsStates == { "UNKNOWN", "INIT", "OPENED", "CLOSING", "CLOSED" }

DongleStates ==
  { "UNKNOWN", "POWERING_ON", "POWER_ON", "WOBLE",
    "POWERING_OFF", "POWER_OFF", "ERROR" }

(* Causes of a hardware error reported to the stack (HW_ERR_CODE_xx).       *)
HwErrCodes == { "NONE", "BT_HOST", "USB_DISC", "WIFI", "BT_FW", "BT_DRIVER" }

DumpStates == { "FW_DUMP", "SUSPEND_FW_DUMP", "RESUME_FW_DUMP" }

Powering == { "POWERING_ON", "POWERING_OFF" }

(* send_hci_cmd talks to the chip only in these dongle states.             *)
HciReady == { "POWER_ON", "WOBLE" }

(***************************************************************************)
(* The state maps.                                                         *)
(***************************************************************************)

(* btmtk_usb_probe, on entry. *)
ProbeEntry(s) ==
  CASE s = "SUSPEND_DISCONNECT" -> "SUSPEND_PROBE"
    [] s = "RESUME_DISCONNECT"  -> "RESUME_PROBE"
    [] OTHER                    -> "PROBE"

(* btmtk_usb_probe, on success. *)
ProbeExit(s) ==
  IF s \in { "SUSPEND_FW_DUMP", "RESUME_FW_DUMP" } THEN s ELSE "WORKING"

(* btmtk_usb_disconnect; lateResume: the OS offers late-resume callbacks.  *)
DisconnectFrom(s, lateResume) ==
  CASE s \in { "SUSPEND", "SUSPEND_DISCONNECT" } /\ lateResume
         -> "SUSPEND_DISCONNECT"
    [] s \in { "RESUME", "RESUME_FW_DUMP", "RESUME_DISCONNECT" }
         -> "RESUME_DISCONNECT"
    [] OTHER -> "DISCONNECT"

(* btmtk_usb_bulk_in_complete, on the first packet of a firmware dump.     *)
DumpEntry(s) ==
  CASE s = "RESUME"  -> "RESUME_FW_DUMP"
    [] s = "SUSPEND" -> "SUSPEND_FW_DUMP"
    [] OTHER         -> "FW_DUMP"

(* btmtk_usb_bulk_in_complete asks this before it treats a dump packet as  *)
(* the first one; SUSPEND_FW_DUMP is not in the test.                      *)
DumpBegun(s) == s \in { "FW_DUMP", "RESUME_FW_DUMP" }

(* btmtk_usb_late_resume, when it returns without resuming the chip.       *)
LateResumeReturn(s) ==
  CASE s \in { "EARLY_SUSPEND", "WORKING" } -> "WORKING"
    [] s \in { "DISCONNECT", "SUSPEND_DISCONNECT", "RESUME_DISCONNECT" }
         -> "DISCONNECT"
    [] s \in { "FW_DUMP", "RESUME_FW_DUMP" } -> "FW_DUMP"
    [] s \in { "PROBE", "SUSPEND_PROBE", "RESUME_PROBE" } -> "PROBE"
    [] OTHER -> s

=============================================================================
