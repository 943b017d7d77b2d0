----------------------------- MODULE MCDNSProxy -----------------------------
(* Small instances of DNSProxy for TLC: three allowed queries compete for two *)
(* IDs, a fourth is refused.                                                  *)
EXTENDS DNSProxy, TLC

CONSTANTS q1, q2, q3, q4

\* Two IDs and d_xor = 1.
FlipLowBit(i) == IF i % 2 = 0 THEN i + 1 ELSE i - 1

QuerySymmetry == Permutations(Allowed)
=============================================================================
