--------------------------- MODULE MCMetaApiClient ---------------------------
(***************************************************************************)
(* Instances of MetaApiClient for TLC: two lifecycle callers (the worker   *)
(* and whoever stops it), one reader, an account outside the default       *)
(* region.  A request refers to at most one handle and one more is open,   *)
(* so four identities never run out.  Where shutdown() does not overlap    *)
(* requests, none refers to a closed handle, and one identity is enough.   *)
(***************************************************************************)
EXTENDS MetaApiClient, TLC

CONSTANTS s1, s2, r1, h1, h2, h3, h4, london, newYork

TwoSessions == {s1, s2}
OneSession  == {s1}
OneReader   == {r1}
FourHandles == {h1, h2, h3, h4}
ThreeHandles == {h1, h2, h3}
OneHandle   == {h1}
Interchangeable == Permutations(TwoSessions) \cup Permutations(FourHandles)
MCRegions   == {london, newYork}
=============================================================================
