------------------------------- MODULE Sx1280 -------------------------------
(***************************************************************************)
(* The SX1280 as its driver leaves it (ports/speedybee/lib/SX1280): one    *)
(* operator per driver call that changes the chip, from chip to chip.      *)
(*                                                                         *)
(* Data abstraction: of the registers only the packet type, the ranging    *)
(* role and the two ranging addresses; SPI, modulation, power and buffer   *)
(* addresses are set by the calls in the order of the code but no property *)
(* tells them apart.  The chip itself answers freely: it may be absent,    *)
(* and any interrupt its mask allows may be raised.                        *)
(***************************************************************************)
EXTENDS Integers

NoAddress == -1

(* rangingAddressFor: an address is the id of the slave it belongs to.     *)
Address(id) == id

(* reset: every register back to its default.                              *)
ResetChip ==
  [type |-> "gfsk", state |-> "standby", role |-> "none",
   device |-> NoAddress, request |-> NoAddress]

SetStandby(chip) == [chip EXCEPT !.state = "standby"]

(* setRangingAddress: a master addresses a device, a slave is one.         *)
SetRangingAddress(chip, role, address) ==
  IF role = "master" THEN [chip EXCEPT !.request = address]
  ELSE [chip EXCEPT !.device = address]

(* Mutated form: the device address is set whatever the role.              *)
BeginRanging_DeviceOnly(role, address) ==
  SetRangingAddress([ResetChip EXCEPT !.type = "ranging", !.role = role], "slave", address)

(* beginRanging: everything from reset, ready for the role.                *)
BeginRanging(role, address) ==
  SetRangingAddress([ResetChip EXCEPT !.type = "ranging", !.role = role], role, address)

(* startMasterExchange, startSlaveListen                                   *)
StartMaster(chip) == [SetStandby(chip) EXCEPT !.state = "tx"]
StartSlave(chip) == [SetStandby(chip) EXCEPT !.state = "rx"]

(* transmitPacket and receivePacket return in standby, as packets, on      *)
(* every way out.                                                          *)
AfterPacket(chip) == [SetStandby(chip) EXCEPT !.type = "lora"]

(* The interrupts a role lets through that end its wait.                   *)
Terminal(role) ==
  IF role = "master" THEN {"result", "master_timeout", "rx_tx_timeout"}
  ELSE {"response_done", "request_discard", "rx_tx_timeout"}
=============================================================================
