------------------------------- MODULE BitMap -------------------------------
(***************************************************************************)
(* userprog/bitmap.cc.  A bitmap of n bits is the set of the bits that are *)
(* marked; Mark and Clear are union and difference.                        *)
(***************************************************************************)
EXTENDS Integers, FiniteSetsExt

Bits(n) == 0 .. n - 1

\* The bit BitMap::Find allocates in map: the first clear one, -1 if none is.
Find(map, n) == IF Bits(n) \subseteq map THEN -1 ELSE Min(Bits(n) \ map)

\* The bit BitMap::FindStart allocates: the first clear one from start on,
\* going on from 0 at the end.
FindStart(map, n, start) ==
    LET clear == {i \in Bits(n) : (start + i) % n \notin map}
    IN  IF clear = {} THEN -1 ELSE (start + Min(clear)) % n

\* map after either of them returned bit.
Marked(map, bit) == IF bit = -1 THEN map ELSE map \cup {bit}
==============================================================================
