---------------------------- MODULE MCExpiration ----------------------------
(* Module Expiration for TLC. *)
EXTENDS Expiration

CONSTANTS k, c1, c2

MCBuckets == <<2, 2, 1>>
MCShift   == <<0, 1, 2>>

\* Between them every operation; the second client changes what the first has looked at.
MCOps == [c \in Clients |-> IF c = c1 THEN {"get", "setIfAbsent", "setExpiresAfter", "computeIfAbsent", "computeIfPresent"}
                                    ELSE {"get", "set", "compute", "invalidate"}]

=============================================================================
