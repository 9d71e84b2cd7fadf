----------------------------- MODULE MCCapture -----------------------------
EXTENDS Capture, TLC
CONSTANTS a1, a2, a3, d1, d2

MCAccounts == {a1, a2, a3}
MCKeys == {<<1, "x">>, <<2, "y">>}
MCKeyOf == a1 :> <<1, "x">> @@ a3 :> <<1, "x">> @@ a2 :> <<2, "y">>
TwoAccounts == {a1, a2}
TwoKeyOf == a1 :> <<1, "x">> @@ a2 :> <<2, "y">>
MCEpochs == {1, 2}
\* Two epochs that are over before the two of the observations: the first with its creation
\* in reach, the second without.
FourEpochs == 1..4
LateKeys == {<<3, "x">>, <<4, "y">>}
LateKeyOf == a1 :> <<3, "x">> @@ a2 :> <<4, "y">>
LateEpochOf == [k \in LateKeys |-> k[1]]
MCEpochOf == [k \in MCKeys |-> k[1]]
MCSecondOf == [s \in 1..MaxSlot |-> s \div 3]
MCUndecodable == {<<a2, 2>>}
MCOversized == {<<a2, 3>>}
=============================================================================
