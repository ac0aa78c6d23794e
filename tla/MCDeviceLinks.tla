----------------------------- MODULE MCDeviceLinks -----------------------------
(* A robot with a TCP, a hub and a Bluetooth link. *)
EXTENDS DeviceLinks, TLC

MCTransport == 0 :> "Tcp" @@ 1 :> "HubChannel" @@ 2 :> "Ble"
================================================================================
