--------------------------- MODULE MCCwmpSession ---------------------------
(* Constants of the TLC runs of CwmpSession: devices d1, d2 with session   *)
(* ids s1, s2, tasks t1 to t3, and the kinds of task each run looks at.    *)
EXTENDS CwmpSession, TLC

CONSTANTS d1, d2, s1, s2, t1, t2, t3

OneSid == d1 :> s1
OwnSids == d1 :> s1 @@ d2 :> s2

Owner3 == t1 :> d1 @@ t2 :> d1 @@ t3 :> d1
Owner2 == t1 :> d1 @@ t2 :> d1
OwnerOther == t1 :> d1 @@ t2 :> d2 @@ t3 :> d1

DelGetDiag == t1 :> "pfdel" @@ t2 :> "get" @@ t3 :> "diag"
WanMapFirmware == t1 :> "wan" @@ t2 :> "pfadd" @@ t3 :> "firmware"
WanSet == t1 :> "wan" @@ t2 :> "set"
WifiRebootGet == t1 :> "wifi" @@ t2 :> "reboot" @@ t3 :> "get"

AddSet == <<"AddObject", "SetParameterValues">>
DelAddSetSet == <<"DeleteObject", "AddObject", "SetParameterValues", "SetParameterValues">>
=============================================================================
