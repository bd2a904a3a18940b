----------------------------- MODULE MCSendRetry -----------------------------
(* One message, one consumer and one producer for SendRetry. *)
EXTENDS SendRetry, TLC

CONSTANTS r1, r2, p1, p2
MCOneOwnerEach == (r1 :> p1) @@ (r2 :> p2)
MCNoLegacy == <<>>
=============================================================================
