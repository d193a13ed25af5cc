----------------------------- MODULE MCSessions -----------------------------
EXTENDS Sessions, TLC

CONSTANTS c1, c2, c3, c4, phone, k1, k2, k3, r1

(* c1 and c2 are the same phone, c3 brings the key of c1, and c3 and c4 do  *)
(* not name a device.                                                       *)
MCGivenDevice == (c1 :> phone) @@ (c2 :> phone) @@ (c3 :> NoDevice) @@ (c4 :> NoDevice)
MCKey == (c1 :> k1) @@ (c2 :> k2) @@ (c3 :> k1) @@ (c4 :> k3)
(* One device, one key, no device, and a reader beside a connection. *)
MCGroups == {{c1, c2}, {c1, c3}, {c3, c4}, {c1, r1}}
=============================================================================
