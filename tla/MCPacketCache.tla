--------------------------- MODULE MCPacketCache ---------------------------
(* Small instances of PacketCache for TLC.  Names are written from their last *)
(* character to their first: "a", "b.a" and "b-a".                            *)
EXTENDS PacketCache

CONSTANT h1

a == 97
b == 98
Hyphen == 45
Zone == <<a>>
Below == <<a, Dot, b>>
Hyphened == <<a, Hyphen, b>>

SomeNames == {Below, Hyphened}

AllPurges == {[kind |-> "all"], [kind |-> "exact", name |-> Below],
              [kind |-> "suffix", name |-> Zone]}
JustZone == {Zone}
=============================================================================
