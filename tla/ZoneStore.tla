----------------------------- MODULE ZoneStore -----------------------------
(***************************************************************************)
(* What a slave promises about the zones it serves: a zone is empty or one  *)
(* whole version that one of its masters really had, it is replaced by      *)
(* another whole version in one step, and the copies that come from one     *)
(* master never go back to an older version of it.                          *)
(***************************************************************************)
EXTENDS Integers, SequencesExt

CONSTANTS
    Zones, Masters,
    MastersOf,         \* the sequence of masters of each zone
    MaxVersion,        \* bound: the last version the masters of a zone publish
    Content(_, _, _)   \* Content(m, z, v): the records of version v of z at m

VARIABLES
    zone,    \* the records the slave serves, per zone
    mver     \* the version each master has of each of its zones; 0: not its zone

storeVars == <<zone, mver>>

StoreInit ==
    /\ zone = [z \in Zones |-> {}]
    /\ mver = [m \in Masters |->
                [z \in Zones |-> IF m \in ToSet(MastersOf[z]) THEN 1 ELSE 0]]

Publish(m, z) ==
    /\ m \in ToSet(MastersOf[z])
    /\ mver[m][z] < MaxVersion[z]
    /\ mver' = [mver EXCEPT ![m][z] = @ + 1]
    /\ UNCHANGED zone

\* z is replaced by version v of master m, not older than a copy of m's it holds.
Replace(z, m, v) ==
    /\ v \in 1..mver[m][z]
    /\ \A old \in 1..MaxVersion[z] : zone[z] = Content(m, z, old) => old <= v
    /\ zone' = [zone EXCEPT ![z] = Content(m, z, v)]
    /\ UNCHANGED mver

StoreNext ==
    \/ \E m \in Masters, z \in Zones : Publish(m, z)
    \/ \E m \in Masters, z \in Zones : \E v \in 1..MaxVersion[z] : Replace(z, m, v)

StoreSpec == StoreInit /\ [][StoreNext]_storeVars
=============================================================================
