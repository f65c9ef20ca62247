------------------------------ MODULE MCTraceDB ------------------------------
(* Two signal keys of one type, one path segment, paths up to depth 1.    *)
EXTENDS TraceDB

MCKeyType == [k \in Keys |-> "bool"]

\* An injective hash of the four (path, key) pairs.
MCKeyHash(p, k) == 2 * Len(p) + (IF k = "a" THEN 0 ELSE 1)

\* A truncated hash under which (<<>>, "b") and (<<"f1">>, "a") collide.
MCCollidingHash(p, k) == Len(p) + (IF k = "a" THEN 0 ELSE 1)
=============================================================================
