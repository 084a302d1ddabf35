---------------------------- MODULE MCSdkHandler ----------------------------
EXTENDS SdkHandler
CONSTANTS r1, r2
OneReq == {r1}
TwoReqs == {r1, r2}
=============================================================================
