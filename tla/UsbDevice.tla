------------------------------ MODULE UsbDevice -------------------------------
(***************************************************************************)
(* The state of the USB connection, as LUFA keeps it for the 8/16/32u2:    *)
(* the USB_GEN interrupt changes it at any time, main() changes it while   *)
(* it serves SetAddress and SetConfiguration.  These chips have no VBUS    *)
(* sensing: a bus that goes idle is all they see of a pulled cable, so the *)
(* suspend interrupt reports Unattached.                                   *)
(*                                                                         *)
(* The actions below say what happens to the connection; MainLoop says     *)
(* what main() does meanwhile.                                             *)
(***************************************************************************)

CONSTANT LineCodings    \* what the host may ask for with SetLineEncoding

VARIABLES
  USB_DeviceState,
  USB_Device_ConfigurationNumber,
  addressSet,           \* USB_Device_IsAddressSet()
  UDIEN,                \* which of SUSPE and WAKEUPE is enabled: always one
  frozen,               \* USB_CLK_Freeze(): the endpoints are out of reach
  setup                 \* the request in the control endpoint, or NoRequest

devVars == <<USB_DeviceState, USB_Device_ConfigurationNumber, addressSet,
             UDIEN, frozen, setup>>

NoRequest    == [type |-> "none"]
ClassRequests ==
  [type : {"SetLineEncoding"}, coding : LineCodings]
    \cup [type : {"SetControlLineState"}, dtr : BOOLEAN]
    \cup {[type |-> "GetLineEncoding"]}

\* GetStatus stands for GetConfiguration too: both end in a status stage.  What the device
\* does not know, it stalls.
StandardRequests ==
  [type : {"SetAddress", "GetDescriptor", "GetStatus", "unknown"}]
    \cup [type : {"SetConfiguration"}, number : {0, 1, 2}]

DeviceTypeOK ==
  /\ USB_DeviceState \in {"Unattached", "Powered", "Default", "Addressed", "Configured"}
  /\ USB_Device_ConfigurationNumber \in {0, 1}
  /\ addressSet \in BOOLEAN
  /\ UDIEN \in {"SUSPE", "WAKEUPE"}
  /\ frozen \in BOOLEAN
  /\ setup \in {NoRequest} \cup ClassRequests \cup StandardRequests

\* USB_Init_Device()
DeviceInit ==
  /\ USB_DeviceState = "Unattached"
  /\ USB_Device_ConfigurationNumber = 0
  /\ addressSet = FALSE
  /\ UDIEN = "SUSPE" /\ frozen = FALSE
  /\ setup = NoRequest

\* The same after a reset of the chip.
DeviceReset ==
  /\ USB_DeviceState' = "Unattached"
  /\ USB_Device_ConfigurationNumber' = 0
  /\ addressSet' = FALSE
  /\ UDIEN' = "SUSPE" /\ frozen' = FALSE
  /\ setup' = NoRequest

-----------------------------------------------------------------------------
(* ISR(USB_GEN_vect) *)

Suspend ==
  /\ UDIEN = "SUSPE"
  /\ UDIEN' = "WAKEUPE" /\ frozen' = TRUE
  /\ USB_DeviceState' = "Unattached"
  /\ UNCHANGED <<USB_Device_ConfigurationNumber, addressSet, setup>>

WakeUp ==
  /\ UDIEN = "WAKEUPE"
  /\ UDIEN' = "SUSPE" /\ frozen' = FALSE
  /\ USB_DeviceState' = IF USB_Device_ConfigurationNumber # 0 THEN "Configured"
                        ELSE IF addressSet THEN "Addressed" ELSE "Powered"
  /\ UNCHANGED <<USB_Device_ConfigurationNumber, addressSet, setup>>

\* Reset signalling is activity, so a sleeping bus is woken up first.  The
\* hardware forgets the address and empties the control endpoint.
BusReset ==
  /\ ~frozen
  /\ USB_DeviceState' = "Default"
  /\ USB_Device_ConfigurationNumber' = 0
  /\ UDIEN' = "WAKEUPE"
  /\ addressSet' = FALSE /\ setup' = NoRequest
  /\ UNCHANGED frozen

\* The host follows the protocol: a reset, an address, a configuration, and
\* then class requests for the configured interface.  A new request replaces
\* one that was not served.
HostRequests(r) ==
  /\ ~frozen
  /\ r.type = "SetAddress" => USB_DeviceState \in {"Default", "Powered"} /\ ~addressSet
  /\ r.type = "SetConfiguration" => addressSet
  /\ r \in ClassRequests => USB_Device_ConfigurationNumber # 0
  /\ setup' = r
  /\ UNCHANGED <<USB_DeviceState, USB_Device_ConfigurationNumber, addressSet,
                 UDIEN, frozen>>

-----------------------------------------------------------------------------
(* Standard requests, each cut where it lets the interrupt in between two  *)
(* of its writes.                                                          *)

ClearSETUP == setup' = NoRequest

OnlyClearSETUP ==
  /\ ClearSETUP
  /\ UNCHANGED <<USB_DeviceState, USB_Device_ConfigurationNumber, addressSet,
                 UDIEN, frozen>>

EnableDeviceAddress ==
  /\ ~frozen
  /\ addressSet' = TRUE
  /\ USB_DeviceState' = "Addressed"
  /\ UNCHANGED <<USB_Device_ConfigurationNumber, UDIEN, frozen, setup>>

BeginSetConfiguration(number) ==
  /\ ClearSETUP
  /\ USB_Device_ConfigurationNumber' = number
  /\ UNCHANGED <<USB_DeviceState, addressSet, UDIEN, frozen>>

\* Number 0 leaves an addressed device Configured all the same.
EndSetConfiguration ==
  /\ USB_DeviceState' =
       IF USB_Device_ConfigurationNumber # 0 \/ addressSet THEN "Configured"
       ELSE "Powered"
  /\ UNCHANGED <<USB_Device_ConfigurationNumber, addressSet, UDIEN, frozen, setup>>
=============================================================================
