-------------------------- MODULE MCDeliveryLedger --------------------------
(* Small instances of DeliveryLedger for TLC. *)
EXTENDS DeliveryLedgerPromise, TLC

CONSTANTS m1, m2, r1, r2, p1, p2

MCOneOwnerEach == (r1 :> p1) @@ (r2 :> p2)
MCOneRun == r1 :> p1
MCNoLegacy == <<>>
MCOneLegacy == <<m2>>
=============================================================================
