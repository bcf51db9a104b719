---- MODULE MCDynHash ----
EXTENDS DynHash

CONSTANTS k1, k2, k3, v1, v2

MCKeys == {k1, k2, k3}
MCVals == {v1, v2}
\* Two keys of one hash and a third whose chain wraps into theirs.
MCHash == [k \in MCKeys |-> IF k = k3 THEN Cap - 1 ELSE Cap]

\* The probe sequence visits every slot, for every power of two up to 256
\* (the size of the table of local variables).
ASSUME ProbeCoversTable ==
    \A c \in {2 ^ n : n \in 0 .. 8} :
        {ProbeOffset(n) % c : n \in 0 .. 2 * c - 1} = 0 .. c - 1
====
