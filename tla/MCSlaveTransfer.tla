-------------------------- MODULE MCSlaveTransfer --------------------------
(* Two zones: one with two masters, of which one may lag behind the other, and *)
(* one that is not configured until its master announces it.                   *)
EXTENDS SlaveTransfer

CONSTANTS z1, z2, m1, m2, h1

TwoMasters == z1 :> <<m1, m2>> @@ z2 :> <<m1>>
Bodies == <<<<"in">>, <<"out">>>>
TwoAndOne == z1 :> 2 @@ z2 :> 1
=============================================================================
