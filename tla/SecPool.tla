------------------------------ MODULE SecPool ------------------------------
(***************************************************************************)
(* One pool of libgcrypt's secure memory allocator                         *)
(* (src/_include/libgcrypt/secmem.c): a stretch of `limit' bytes, cut      *)
(* without a gap into blocks of a head and the memory the user gets.       *)
(*                                                                         *)
(* The blocks of a pool are a function from the offsets of their heads to  *)
(* what the heads record.  Walking the pool from its start, adding up      *)
(* sizes, visits exactly the domain of that function as long as the blocks *)
(* tile the pool; that they do is what this module is about.               *)
(***************************************************************************)
EXTENDS Integers

CONSTANTS
  HeadSize,    \* BLOCK_HEAD_SIZE
  Granule      \* what a request is rounded up to a multiple of: 32 in the code

ASSUME HeadAssumption == HeadSize \in Nat \ {0}

ASSUME GranuleAssumption == Granule \in Nat \ {0}

memblock == [ size : Nat, active : BOOLEAN ]

(* Where the block at o ends and the next one, if any, starts. *)
End(B, o) == o + HeadSize + B[o].size

(* The blocks in use. *)
InUse(B) == { o \in DOMAIN B : B[o].active }

(* The bytes of the block at o that are the user's. *)
Payload(B, o) == (o + HeadSize) .. (End(B, o) - 1)

(* The bytes of a pool that are some user's. *)
UsedBytes(B) == UNION { Payload(B, o) : o \in InUse(B) }

(* The block that ends where the one at o starts. *)
mb_get_prev(B, o) == CHOOSE p \in DOMAIN B : End(B, p) = o

FreePrev(B, o) == o # 0 /\ ~B[mb_get_prev(B, o)].active

FreeNext(B, limit, o) == End(B, o) < limit /\ ~B[End(B, o)].active

(* Mutant: the next block's head is not counted when it is swallowed. *)
mb_merge_short(B, limit, o) ==
  LET first == IF FreePrev(B, o) THEN mb_get_prev(B, o) ELSE o
      last  == IF FreeNext(B, limit, o) THEN End(B, o) ELSE o
  IN  [ b \in DOMAIN B \ ({o, last} \ {first}) |->
          IF b = first
          THEN [ size |-> End(B, last) - first - HeadSize - (IF last = o THEN 0 ELSE HeadSize),
                 active |-> B[b].active ]
          ELSE B[b] ]

(* The block at o together with the free neighbours it has. *)
mb_merge(B, limit, o) ==
  LET first == IF FreePrev(B, o) THEN mb_get_prev(B, o) ELSE o
      last  == IF FreeNext(B, limit, o) THEN End(B, o) ELSE o
  IN  [ b \in DOMAIN B \ ({o, last} \ {first}) |->
          IF b = first
          THEN [ size |-> End(B, last) - first - HeadSize, active |-> B[b].active ]
          ELSE B[b] ]

Fits(B, o, n) == ~B[o].active /\ B[o].size >= n

(* The search of mb_get_new from the start of the pool ends at o. *)
FirstFit(B, o, n) ==
  o \in DOMAIN B /\ Fits(B, o, n) /\ \A p \in DOMAIN B : Fits(B, p, n) => o <= p

(* What is left of the block is worth a block of its own. *)
Splits(B, o, n) == B[o].size - n > HeadSize

(* The free block at o cut after n bytes. *)
Cut(B, o, n) ==
  [ b \in DOMAIN B \union {o + HeadSize + n} |->
      IF b = o THEN [ size |-> n, active |-> TRUE ]
      ELSE IF b = o + HeadSize + n THEN [ size |-> B[o].size - n - HeadSize, active |-> FALSE ]
      ELSE B[b] ]

(* The block at o with its MB_FLAG_ACTIVE set, and cleared. *)
Use(B, o)   == [ B EXCEPT ![o].active = TRUE ]
Unuse(B, o) == [ B EXCEPT ![o].active = FALSE ]

(* The block at o handed out for n bytes. *)
mb_get_new(B, limit, o, n) ==
  IF Splits(B, o, n)
  THEN mb_merge(Cut(B, o, n), limit, o + HeadSize + n)
  ELSE Use(B, o)

(* The block at o given back. *)
Release(B, limit, o) == mb_merge(Unuse(B, o), limit, o)

(* A pool that has just been set up is one free block. *)
FreshPool(limit) == [ o \in {0} |-> [ size |-> limit - HeadSize, active |-> FALSE ] ]

(* Mutant: a request is rounded down. *)
RoundedDown(n) == (n \div Granule) * Granule

(* The size a request is served with.  Requests so large that the addition *)
(* overflows a size_t are left out.                                        *)
Rounded(n) == ((n + Granule - 1) \div Granule) * Granule
-----------------------------------------------------------------------------
(* The blocks lie in the pool, one after the other, without a gap: each    *)
(* ends where another one starts or where the pool ends, and the walk from *)
(* the start of the pool reaches every one of them.                        *)
Tiled(B, limit) ==
  /\ 0 \in DOMAIN B
  /\ \A o \in DOMAIN B : o \in Nat /\ o < limit /\ B[o] \in memblock
  /\ \A o \in DOMAIN B : End(B, o) \in DOMAIN B \union {limit}
  /\ \A o, p \in DOMAIN B : o < p => End(B, o) <= p
  /\ \A p \in DOMAIN B : p # 0 => \E o \in DOMAIN B : End(B, o) = p

(* No two neighbours are both free: freed memory is always joined. *)
Joined(B, limit) ==
  \A o \in DOMAIN B :
    ~B[o].active /\ End(B, o) < limit => B[End(B, o)].active
=============================================================================
