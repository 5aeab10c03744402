--------------------------- MODULE MCBluetoothHci ---------------------------
(* The descriptors that the HAL's sessions can watch. *)
EXTENDS BluetoothHci

MCFds == {"tty", "hci"} \X (1 .. MaxSessions)
=============================================================================
