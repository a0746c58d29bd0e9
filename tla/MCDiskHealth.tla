---------------------------- MODULE MCDiskHealth ----------------------------
(* Small instances of DiskHealth. *)
EXTENDS DiskHealth, TLC

\* Two disks behind different addresses.
TwoAddresses == ("d1" :> "ata1") @@ ("d2" :> "ata2")
OneAddress == ("d1" :> "ata1")
=============================================================================
