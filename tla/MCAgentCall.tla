---------------------------- MODULE MCAgentCall ----------------------------
(* Constants of the runs of AgentCall.                                     *)
EXTENDS AgentCall

CONSTANTS c1, c2, alice

OneCall     == {c1}
TwoCalls    == {c1, c2}
NoCall      == {}
OneIdentity == {alice}

UniformV3 == {"all", "none"}
MixedV3   == {"mixed"}

SkewBehind      == {-3}
SkewBehindAhead == {-3, 0, 3}

SyncAny == {"ok", "none", "throw"}

KeySet   == {"set"}
KeyUnset == {"absent", "none"}
=============================================================================
