------------------------------ MODULE SecAlloc ------------------------------
(***************************************************************************)
(* What an allocator of secure memory promises, whatever its pools and     *)
(* lists: it hands out regions that overlap no region in use, it leaves    *)
(* the regions in use alone, and what was written to a region is gone when *)
(* the region is given back.                                               *)
(***************************************************************************)
EXTENDS Integers

VARIABLES
  live,   \* the regions in use: << pool, first byte, byte after the last >>
  secret  \* pool -> its bytes that hold what users wrote

Bytes(r) == r[2] .. (r[3] - 1)

Apart(r, s) == r[1] # s[1] \/ r[3] <= s[2] \/ s[3] <= r[2]

AllocInit == live = {} /\ \A p \in DOMAIN secret : secret[p] = {}

Allocate ==
  \E r \in live' \ live :
    /\ live' = live \union {r}
    /\ \A s \in live : Apart(r, s)
    /\ secret' = [ secret EXCEPT ![r[1]] = @ \union Bytes(r) ]

GiveBack ==
  \E r \in live :
    /\ live' = live \ {r}
    /\ secret' = [ secret EXCEPT ![r[1]] = @ \ Bytes(r) ]

GiveAllUp == live' = {} /\ secret' = [ p \in DOMAIN secret |-> {} ]

AllocSpec == AllocInit /\ [][Allocate \/ GiveBack \/ GiveAllUp]_<< live, secret >>
=============================================================================
