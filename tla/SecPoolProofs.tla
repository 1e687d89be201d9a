--------------------------- MODULE SecPoolProofs ---------------------------
(***************************************************************************)
(* Taking a block from a tiled pool and giving one back leave the pool     *)
(* tiled, without free neighbours, and every other block in use as it was. *)
(***************************************************************************)
EXTENDS SecPool, FiniteSets, FiniteSetTheorems, TLAPS

(* Walking back in a tiled pool, as mb_get_prev does, finds a block. *)
LEMMA PrevInPool ==
  ASSUME NEW B, NEW limit \in Nat, Tiled(B, limit), NEW o \in DOMAIN B, o # 0
  PROVE  /\ mb_get_prev(B, o) \in DOMAIN B
         /\ End(B, mb_get_prev(B, o)) = o
BY DEF Tiled, mb_get_prev

(* The next block of a tiled pool is a block, and the block before it is   *)
(* the one the walk comes from.                                            *)
LEMMA NextInPool ==
  ASSUME NEW B, NEW limit \in Nat, Tiled(B, limit), NEW o \in DOMAIN B
  PROVE  /\ o \in Nat /\ B[o].size \in Nat /\ B[o].active \in BOOLEAN
         /\ End(B, o) \in Nat /\ o + HeadSize <= End(B, o) /\ o < End(B, o) /\ End(B, o) <= limit
         /\ End(B, o) < limit => End(B, o) \in DOMAIN B
<1>1. B[o] \in memblock /\ o \in Nat /\ o < limit
  BY DEF Tiled
<1>2. End(B, o) \in DOMAIN B \union {limit}
  BY DEF Tiled
<1>3. \A p \in DOMAIN B : p < limit
  BY DEF Tiled
<1> QED
  BY <1>1, <1>2, <1>3, HeadAssumption DEF End, memblock

(* Joining a free block with its free neighbours: the result tiles the     *)
(* pool, and the blocks in use are the same as before.                     *)
LEMMA MergeTiled ==
  ASSUME NEW B, NEW limit \in Nat, Tiled(B, limit), NEW o \in DOMAIN B, ~B[o].active
  PROVE  Tiled(mb_merge(B, limit, o), limit)
<1> DEFINE first == IF FreePrev(B, o) THEN mb_get_prev(B, o) ELSE o
           last  == IF FreeNext(B, limit, o) THEN End(B, o) ELSE o
           M     == mb_merge(B, limit, o)
<1>1. first \in DOMAIN B /\ first <= o /\ (first # o => End(B, first) = o /\ first < o)
  BY PrevInPool, NextInPool DEF FreePrev
<1>2. last \in DOMAIN B /\ o <= last /\ (last # o => End(B, o) = last /\ o < last)
  BY NextInPool DEF FreeNext
<1>3. DOMAIN M = DOMAIN B \ ({o, last} \ {first})
  BY DEF mb_merge
<1>4. /\ first \in DOMAIN M
      /\ M[first] = [ size |-> End(B, last) - first - HeadSize, active |-> B[first].active ]
      /\ \A b \in DOMAIN M : b # first => M[b] = B[b]
  BY <1>1, <1>3 DEF mb_merge
<1>5. End(M, first) = End(B, last) /\ M[first].size \in Nat
  <2>1. End(B, last) - first - HeadSize \in Nat
    BY <1>1, <1>2, NextInPool, HeadAssumption
  <2> QED
    BY <2>1, <1>1, <1>2, <1>4, NextInPool, HeadAssumption DEF End
<1>6. \A b \in DOMAIN M : b # first => End(M, b) = End(B, b)
  BY <1>4 DEF End
<1>7. M[first] \in memblock
  BY <1>1, <1>4, <1>5, NextInPool DEF memblock
<1>8. 0 \in DOMAIN M /\ \A b \in DOMAIN M : b \in Nat /\ b < limit /\ M[b] \in memblock
  <2>1. 0 \in DOMAIN B /\ \A b \in DOMAIN B : b \in Nat /\ b < limit /\ B[b] \in memblock
    BY DEF Tiled
  <2>2. 0 \in DOMAIN M
    <3>1. o = 0 => first = o
      BY DEF FreePrev
    <3>2. last = 0 => last = o /\ o = 0
      BY <1>2, <2>1
    <3> QED
      BY <2>1, <1>3, <3>1, <3>2
  <2> QED
    BY <2>1, <2>2, <1>3, <1>4, <1>7
<1>9. \A b \in DOMAIN M : End(M, b) \in DOMAIN M \union {limit}
  <2> SUFFICES ASSUME NEW b \in DOMAIN M
               PROVE  End(M, b) \in DOMAIN M \union {limit}
    OBVIOUS
  <2>1. CASE b = first
    <3>1. End(B, last) \in DOMAIN B \union {limit} /\ End(B, last) > last
      BY <1>2, NextInPool DEF Tiled
    <3>2. o \in Nat /\ last \in Nat /\ End(B, last) \in Nat
      BY <1>2, NextInPool
    <3> QED
      BY <2>1, <3>1, <3>2, <1>2, <1>3, <1>5
  <2>2. CASE b # first
    <3>1. b \in DOMAIN B /\ b # o /\ b # last
      BY <2>2, <1>3
    <3>2. End(B, b) \in DOMAIN B \union {limit} /\ End(M, b) = End(B, b)
      BY <3>1, <2>2, <1>6 DEF Tiled
    <3>3. End(B, b) = o => first = o
      <4>1. ASSUME End(B, b) = o, first # o PROVE FALSE
        <5>1. End(B, first) = o /\ first \in DOMAIN B
          BY <4>1, <1>1
        <5>2. b < first => End(B, b) <= first
          BY <3>1, <5>1 DEF Tiled
        <5>3. first < b => End(B, first) <= b
          BY <3>1, <5>1 DEF Tiled
        <5> QED
          BY <4>1, <5>1, <5>2, <5>3, <3>1, <2>2, NextInPool
      <4> QED
        BY <4>1
    <3>4. End(B, b) = last => last = o
      <4>1. ASSUME End(B, b) = last, last # o PROVE FALSE
        <5>1. End(B, o) = last
          BY <4>1, <1>2
        <5>2. b < o => End(B, b) <= o
          BY <3>1 DEF Tiled
        <5>3. o < b => End(B, o) <= b
          BY <3>1 DEF Tiled
        <5> QED
          BY <4>1, <5>1, <5>2, <5>3, <3>1, NextInPool
      <4> QED
        BY <4>1
    <3> QED
      BY <3>2, <3>3, <3>4, <1>3
  <2> QED
    BY <2>1, <2>2
<1>10. \A b, c \in DOMAIN M : b < c => End(M, b) <= c
  <2> SUFFICES ASSUME NEW b \in DOMAIN M, NEW c \in DOMAIN M, b < c
               PROVE  End(M, b) <= c
    OBVIOUS
  <2>1. b \in DOMAIN B /\ c \in DOMAIN B
    BY <1>3
  <2>2. CASE b # first
    BY <2>1, <2>2, <1>6 DEF Tiled
  <2>3. CASE b = first
    <3>1. c # first /\ c # o /\ c # last
      BY <2>3, <1>3, <2>1, NextInPool
    <3>2. first < c => End(B, first) <= c
      BY <1>1, <2>1 DEF Tiled
    <3>3. o < c => End(B, o) <= c
      BY <2>1 DEF Tiled
    <3>4. last < c => End(B, last) <= c
      BY <1>2, <2>1 DEF Tiled
    <3> QED
      BY <2>3, <3>1, <3>2, <3>3, <3>4, <1>1, <1>2, <1>5, <2>1, NextInPool
  <2> QED
    BY <2>2, <2>3
<1>11. \A c \in DOMAIN M : c # 0 => \E b \in DOMAIN M : End(M, b) = c
  <2> SUFFICES ASSUME NEW c \in DOMAIN M, c # 0
               PROVE  \E b \in DOMAIN M : End(M, b) = c
    OBVIOUS
  <2>1. PICK b \in DOMAIN B : End(B, b) = c
    BY <1>3 DEF Tiled
  <2>2. CASE b = last
    BY <2>1, <2>2, <1>4, <1>5
  <2>3. CASE b # last /\ b \in DOMAIN M
    <3>1. CASE b # first
      BY <2>1, <2>3, <3>1, <1>6
    <3>2. CASE b = first
      <4>1. b = o \/ c = o
        BY <3>2, <2>1, <1>1
      <4>2. CASE b = o
        <5>1. last # o /\ c = last
          BY <4>2, <2>1, <2>3, <1>2
        <5>2. c \notin DOMAIN M \/ c = first
          BY <5>1, <1>3
        <5> QED
          BY <5>1, <5>2, <4>2, <3>2
      <4>3. CASE b # o /\ c = o
        <5>1. c = first
          BY <4>3, <1>3
        <5> QED
          BY <5>1, <3>2, <4>3
      <4> QED
        BY <4>1, <4>2, <4>3
    <3> QED
      BY <3>1, <3>2
  <2>4. CASE b # last /\ b \notin DOMAIN M
    <3>1. b = o /\ o # first
      BY <2>4, <1>3
    <3>2. last # o /\ c = last
      BY <3>1, <2>1, <2>4, <1>2
    <3>3. c = first
      BY <3>2, <1>3
    <3> QED
      BY <3>2, <3>3, <1>1, <1>2, NextInPool
  <2> QED
    BY <2>2, <2>3, <2>4
<1> QED
  BY <1>8, <1>9, <1>10, <1>11 DEF Tiled

(* Joining free blocks leaves a block in use as it is. *)
LEMMA ActiveSurvives ==
  ASSUME NEW B, NEW limit \in Nat, Tiled(B, limit), NEW o \in DOMAIN B, ~B[o].active,
         NEW b \in DOMAIN B, B[b].active
  PROVE  b \in DOMAIN mb_merge(B, limit, o) /\ mb_merge(B, limit, o)[b] = B[b]
<1> DEFINE first == IF FreePrev(B, o) THEN mb_get_prev(B, o) ELSE o
           last  == IF FreeNext(B, limit, o) THEN End(B, o) ELSE o
           M     == mb_merge(B, limit, o)
<1>1. ~B[first].active
  BY PrevInPool DEF FreePrev
<1>2. ~B[last].active
  BY NextInPool DEF FreeNext
<1> QED
  BY <1>1, <1>2 DEF mb_merge

(* After joining, the blocks in use are those that were in use before. *)
LEMMA MergeKeepsActive ==
  ASSUME NEW B, NEW limit \in Nat, Tiled(B, limit), NEW o \in DOMAIN B, ~B[o].active
  PROVE  LET M == mb_merge(B, limit, o)
         IN  InUse(M) = InUse(B)
<1> DEFINE first == IF FreePrev(B, o) THEN mb_get_prev(B, o) ELSE o
           last  == IF FreeNext(B, limit, o) THEN End(B, o) ELSE o
           M     == mb_merge(B, limit, o)
<1>1. first \in DOMAIN B /\ ~B[first].active
  BY PrevInPool DEF FreePrev
<1>2. DOMAIN M = DOMAIN B \ ({o, last} \ {first})
  BY DEF mb_merge
<1>3. ~M[first].active /\ \A c \in DOMAIN M : c # first => M[c] = B[c]
  BY <1>1, <1>2 DEF mb_merge
<1>4. ASSUME NEW b \in DOMAIN M, M[b].active PROVE b \in DOMAIN B /\ B[b].active
  BY <1>2, <1>3, <1>4
<1> QED
  BY <1>4, ActiveSurvives DEF InUse

(* If no two blocks but those around o were free neighbours, then after    *)
(* joining o with its neighbours none are.                                 *)
LEMMA MergeJoins ==
  ASSUME NEW B, NEW limit \in Nat, Tiled(B, limit), NEW o \in DOMAIN B, ~B[o].active,
         \A b \in DOMAIN B : b # o /\ End(B, b) # o /\ ~B[b].active /\ End(B, b) < limit
                             => B[End(B, b)].active
  PROVE  Joined(mb_merge(B, limit, o), limit)
<1> DEFINE first == IF FreePrev(B, o) THEN mb_get_prev(B, o) ELSE o
           last  == IF FreeNext(B, limit, o) THEN End(B, o) ELSE o
           M     == mb_merge(B, limit, o)
<1>1. first \in DOMAIN B /\ first <= o /\ (first # o => End(B, first) = o /\ first < o)
  BY PrevInPool, NextInPool DEF FreePrev
<1>2. last \in DOMAIN B /\ o <= last /\ (last # o => End(B, o) = last /\ o < last)
  BY NextInPool DEF FreeNext
<1>3. DOMAIN M = DOMAIN B \ ({o, last} \ {first}) /\ first \in DOMAIN M
  BY <1>1 DEF mb_merge
<1>4. /\ M[first].size = End(B, last) - first - HeadSize
      /\ \A b \in DOMAIN M : b # first => M[b] = B[b]
  BY <1>1, <1>3 DEF mb_merge
<1>5. End(M, first) = End(B, last)
  BY <1>1, <1>2, <1>4, NextInPool, HeadAssumption DEF End
<1>6. Tiled(M, limit)
  BY MergeTiled
<1>7. ASSUME NEW b \in DOMAIN M, ~M[b].active, End(M, b) < limit
      PROVE  M[End(M, b)].active
  <2>1. CASE b = first
    <3>1. End(B, last) < limit
      BY <1>5, <1>7, <2>1
    <3>2. End(B, last) \in DOMAIN B /\ End(B, last) > last
      BY <1>2, <3>1, NextInPool
    <3>3. B[End(B, last)].active
      <4>1. CASE last = o
        BY <4>1, <3>1, <3>2, NextInPool DEF FreeNext
      <4>2. CASE last # o
        <5>1. End(B, last) # o /\ ~B[last].active
          BY <4>2, <1>2, <3>2, NextInPool DEF FreeNext
        <5> QED
          BY <5>1, <4>2, <3>1, <1>2
      <4> QED
        BY <4>1, <4>2
    <3> QED
      BY <3>2, <3>3, <2>1, <1>5, ActiveSurvives
  <2>2. CASE b # first
    <3>1. b \in DOMAIN B /\ b # o /\ b # last /\ ~B[b].active /\ End(M, b) = End(B, b)
      BY <2>2, <1>3, <1>4, <1>7 DEF End
    <3>2. End(B, b) # o
      <4>1. ASSUME End(B, b) = o PROVE FALSE
        <5>1. o # 0
          BY <4>1, <3>1, NextInPool
        <5>2. mb_get_prev(B, o) \in DOMAIN B /\ End(B, mb_get_prev(B, o)) = o
          BY <5>1, PrevInPool
        <5>3. mb_get_prev(B, o) = b
          <6>1. b < mb_get_prev(B, o) => End(B, b) <= mb_get_prev(B, o)
            BY <5>2, <3>1 DEF Tiled
          <6>2. mb_get_prev(B, o) < b => End(B, mb_get_prev(B, o)) <= b
            BY <5>2, <3>1 DEF Tiled
          <6> QED
            BY <6>1, <6>2, <5>2, <4>1, <3>1, NextInPool
        <5>4. first = b
          BY <5>1, <5>3, <3>1 DEF FreePrev
        <5> QED
          BY <5>4, <2>2
      <4> QED
        BY <4>1
    <3>3. End(B, b) \in DOMAIN B /\ B[End(B, b)].active
      BY <3>1, <3>2, <1>7, NextInPool
    <3> QED
      BY <3>1, <3>3, ActiveSurvives
  <2> QED
    BY <2>1, <2>2
<1> QED
  BY <1>7 DEF Joined

(* Cutting a free block in two keeps the pool tiled. *)
LEMMA CutTiled ==
  ASSUME NEW B, NEW limit \in Nat, Tiled(B, limit), NEW o \in DOMAIN B, NEW n \in Nat,
         Fits(B, o, n), Splits(B, o, n)
  PROVE  /\ Tiled(Cut(B, o, n), limit)
         /\ o + HeadSize + n \notin DOMAIN B
         /\ End(Cut(B, o, n), o) = o + HeadSize + n
         /\ End(Cut(B, o, n), o + HeadSize + n) = End(B, o)
         /\ \A b \in DOMAIN B \ {o} : Cut(B, o, n)[b] = B[b]
<1> DEFINE C == Cut(B, o, n)
           s == o + HeadSize + n
<1>1. /\ o \in Nat /\ s \in Nat /\ o < s /\ s + HeadSize < End(B, o) /\ End(B, o) <= limit
      /\ B[o].size - n - HeadSize \in Nat
  BY NextInPool, HeadAssumption DEF Splits, Fits, End
<1>2. s \notin DOMAIN B
  <2>1. \A p \in DOMAIN B : o < p => End(B, o) <= p
    BY DEF Tiled
  <2> QED
    BY <2>1, <1>1, NextInPool, HeadAssumption
<1>3. DOMAIN C = DOMAIN B \union {s} /\ s # o
  BY <1>1 DEF Cut
<1>4. /\ C[o] = [ size |-> n, active |-> TRUE ]
      /\ C[s] = [ size |-> B[o].size - n - HeadSize, active |-> FALSE ]
      /\ \A b \in DOMAIN B \ {o} : C[b] = B[b]
  BY <1>2, <1>3 DEF Cut
<1>5. End(C, o) = s /\ End(C, s) = End(B, o) /\ \A b \in DOMAIN B \ {o} : End(C, b) = End(B, b)
  BY <1>1, <1>4, NextInPool, HeadAssumption DEF End
<1>6. 0 \in DOMAIN C /\ \A b \in DOMAIN C : b \in Nat /\ b < limit /\ C[b] \in memblock
  <2>1. 0 \in DOMAIN B /\ \A b \in DOMAIN B : b \in Nat /\ b < limit /\ B[b] \in memblock
    BY DEF Tiled
  <2>2. C[o] \in memblock /\ C[s] \in memblock
    BY <1>1, <1>4 DEF memblock
  <2>3. s \in Nat /\ s < limit
    BY <1>1, NextInPool, HeadAssumption
  <2> QED
    BY <2>1, <2>2, <2>3, <1>3, <1>4
<1>7. \A b \in DOMAIN C : End(C, b) \in DOMAIN C \union {limit}
  BY <1>3, <1>5 DEF Tiled
<1>8. \A b, c \in DOMAIN C : b < c => End(C, b) <= c
  <2> SUFFICES ASSUME NEW b \in DOMAIN C, NEW c \in DOMAIN C, b < c
               PROVE  End(C, b) <= c
    OBVIOUS
  <2>1. \A x, y \in DOMAIN B : x < y => End(B, x) <= y
    BY DEF Tiled
  <2>2. CASE b = s
    BY <2>1, <2>2, <1>1, <1>3, <1>5, NextInPool
  <2>3. CASE b = o
    BY <2>1, <2>3, <1>1, <1>3, <1>5, NextInPool, HeadAssumption
  <2>4. CASE b # s /\ b # o /\ c = s
    BY <2>1, <2>4, <1>1, <1>3, <1>5, NextInPool, HeadAssumption
  <2>5. CASE b # s /\ b # o /\ c # s
    BY <2>1, <2>5, <1>3, <1>5
  <2> QED
    BY <2>2, <2>3, <2>4, <2>5
<1>9. \A c \in DOMAIN C : c # 0 => \E b \in DOMAIN C : End(C, b) = c
  <2> SUFFICES ASSUME NEW c \in DOMAIN C, c # 0 PROVE \E b \in DOMAIN C : End(C, b) = c
    OBVIOUS
  <2>1. CASE c = s
    BY <2>1, <1>3, <1>5
  <2>2. CASE c # s
    <3>1. PICK b \in DOMAIN B : End(B, b) = c
      BY <2>2, <1>3 DEF Tiled
    <3> QED
      BY <3>1, <1>3, <1>5
  <2> QED
    BY <2>1, <2>2
<1>10. Tiled(C, limit)
  BY <1>6, <1>7, <1>8, <1>9 DEF Tiled
<1> QED
  BY <1>2, <1>4, <1>5, <1>10

(* Marking a block as used or free moves nothing. *)
LEMMA MarkTiled ==
  ASSUME NEW B, NEW limit \in Nat, Tiled(B, limit), NEW o \in DOMAIN B,
         NEW C, C = Use(B, o) \/ C = Unuse(B, o)
  PROVE  /\ Tiled(C, limit) /\ DOMAIN C = DOMAIN B
         /\ \A b \in DOMAIN B : End(C, b) = End(B, b) /\ C[b].size = B[b].size
         /\ C = Use(B, o) => C[o].active
         /\ C = Unuse(B, o) => ~C[o].active
         /\ \A b \in DOMAIN B \ {o} : C[b] = B[b]
<1>1. DOMAIN C = DOMAIN B /\ \A b \in DOMAIN B : B[b] \in memblock
  BY DEF Tiled, Use, Unuse
<1>2. \A b \in DOMAIN B : b # o => C[b] = B[b]
  BY <1>1 DEF Use, Unuse
<1>3. C[o] = [ B[o] EXCEPT !.active = TRUE ] \/ C[o] = [ B[o] EXCEPT !.active = FALSE ]
  BY <1>1 DEF Use, Unuse
<1>4. C[o].size = B[o].size /\ C[o] \in memblock
  BY <1>1, <1>3 DEF memblock
<1>5. \A b \in DOMAIN B : C[b] \in memblock /\ C[b].size = B[b].size
  BY <1>1, <1>2, <1>4
<1>6. \A b \in DOMAIN B : End(C, b) = End(B, b)
  BY <1>5 DEF End
<1>7. Tiled(C, limit)
  BY <1>1, <1>5, <1>6 DEF Tiled
<1>8. C = Use(B, o) => C[o].active
  BY <1>1 DEF Use, Unuse, memblock
<1>9. C = Unuse(B, o) => ~C[o].active
  BY <1>1 DEF Use, Unuse, memblock
<1> QED
  BY <1>1, <1>2, <1>5, <1>6, <1>7, <1>8, <1>9

(* mb_get_new on a free block that is large enough: the pool stays tiled   *)
(* and joined; the block is in use with at least the bytes asked for, in   *)
(* the place of the free block; nothing else that is in use has changed.   *)
LEMMA GetNewTiled ==
  ASSUME NEW B, NEW limit \in Nat, Tiled(B, limit), Joined(B, limit),
         NEW o \in DOMAIN B, NEW n \in Nat, Fits(B, o, n)
  PROVE  LET N == mb_get_new(B, limit, o, n)
         IN  /\ Tiled(N, limit) /\ Joined(N, limit)
             /\ InUse(N) = InUse(B) \union {o} /\ o \notin InUse(B)
             /\ n <= N[o].size /\ N[o].size \in Nat /\ End(N, o) <= End(B, o)
             /\ \A b \in InUse(B) : N[b] = B[b]
<1> DEFINE N == mb_get_new(B, limit, o, n)
           s == o + HeadSize + n
           C == Cut(B, o, n)
<1>1. o \notin InUse(B) /\ B[o].size \in Nat /\ n <= B[o].size /\ ~B[o].active
  BY NextInPool DEF InUse, Fits
<1>2. CASE Splits(B, o, n)
  <2>1. /\ Tiled(C, limit) /\ s \notin DOMAIN B /\ End(C, o) = s /\ End(C, s) = End(B, o)
        /\ \A b \in DOMAIN B \ {o} : C[b] = B[b]
    BY <1>2, CutTiled
  <2>2. s \in DOMAIN C /\ o \in DOMAIN C /\ s # o /\ DOMAIN C = DOMAIN B \union {s}
    BY <2>1 DEF Cut
  <2>3. ~C[s].active /\ C[o].active /\ C[o].size = n
    BY <2>1, <2>2 DEF Cut
  <2>4. N = mb_merge(C, limit, s)
    BY <1>2 DEF mb_get_new
  <2>5. \A b \in DOMAIN B \ {o} : End(C, b) = End(B, b)
    BY <2>1 DEF End
  <2>6. ASSUME NEW b \in DOMAIN C, b # s, End(C, b) # s, ~C[b].active, End(C, b) < limit
        PROVE  C[End(C, b)].active
    <3>1. b \in DOMAIN B /\ b # o /\ ~B[b].active /\ End(B, b) < limit
      BY <2>6, <2>1, <2>2, <2>3, <2>5
    <3>2. B[End(B, b)].active /\ End(B, b) \in DOMAIN B
      BY <3>1, NextInPool DEF Joined
    <3> QED
      BY <3>1, <3>2, <2>1, <2>5, <1>1
  <2>7. Tiled(N, limit) /\ Joined(N, limit) /\ InUse(N) = InUse(C)
    BY <2>1, <2>2, <2>3, <2>4, <2>6, MergeTiled, MergeJoins, MergeKeepsActive
  <2>8. InUse(C) = InUse(B) \union {o}
    BY <2>1, <2>2, <2>3, <1>1 DEF InUse
  <2>9. N[o] = C[o] /\ \A b \in InUse(B) : N[b] = B[b]
    <3>1. \A b \in DOMAIN C : C[b].active => N[b] = C[b]
      BY <2>1, <2>2, <2>3, <2>4, ActiveSurvives
    <3>2. N[o] = C[o]
      BY <3>1, <2>2, <2>3
    <3>3. ASSUME NEW b \in InUse(B) PROVE N[b] = B[b]
      <4>1. b \in DOMAIN B \ {o} /\ B[b].active
        BY <1>1 DEF InUse
      <4>2. C[b] = B[b] /\ b \in DOMAIN C
        BY <4>1, <2>1, <2>2
      <4> QED
        BY <4>1, <4>2, <3>1
    <3> QED
      BY <3>2, <3>3
  <2>10. End(N, o) = s /\ s <= End(B, o)
    <3>1. End(N, o) = End(C, o)
      BY <2>9 DEF End
    <3>2. s \in Nat /\ s <= End(B, o)
      BY <1>1, NextInPool, HeadAssumption DEF End
    <3> QED
      BY <3>1, <3>2, <2>1
  <2> QED
    BY <2>3, <2>7, <2>8, <2>9, <2>10, <1>1
<1>3. CASE ~Splits(B, o, n)
  <2>1. N = Use(B, o)
    BY <1>3 DEF mb_get_new
  <2> HIDE DEF N
  <2>2. /\ Tiled(N, limit) /\ DOMAIN N = DOMAIN B /\ N[o].active
        /\ \A b \in DOMAIN B : End(N, b) = End(B, b) /\ N[b].size = B[b].size
        /\ \A b \in DOMAIN B \ {o} : N[b] = B[b]
    BY <2>1, MarkTiled
  <2>3. InUse(N) = InUse(B) \union {o}
    BY <2>2 DEF InUse
  <2>4. Joined(N, limit)
    <3> SUFFICES ASSUME NEW b \in DOMAIN N, ~N[b].active, End(N, b) < limit
                 PROVE  N[End(N, b)].active
      BY DEF Joined
    <3>1. b # o /\ b \in DOMAIN B /\ ~B[b].active /\ End(N, b) = End(B, b)
      BY <2>2
    <3>2. B[End(B, b)].active /\ End(B, b) \in DOMAIN B
      BY <3>1, NextInPool DEF Joined
    <3> QED
      BY <3>1, <3>2, <2>2, <1>1
  <2>5. End(N, o) <= End(B, o)
    BY <2>2, NextInPool
  <2>6. o \in DOMAIN N /\ N[o].size = B[o].size /\ \A b \in InUse(B) : N[b] = B[b]
    BY <2>2, <1>1 DEF InUse
  <2> QED
    BY <2>2, <2>3, <2>4, <2>5, <2>6, <1>1 DEF N
<1> QED
  BY <1>2, <1>3

(* A block given back: the pool stays tiled and joined, and the other      *)
(* blocks in use have not changed.                                         *)
LEMMA ReleaseTiled ==
  ASSUME NEW B, NEW limit \in Nat, Tiled(B, limit), Joined(B, limit), NEW o \in InUse(B)
  PROVE  LET R == Release(B, limit, o)
         IN  /\ Tiled(R, limit) /\ Joined(R, limit)
             /\ InUse(R) = InUse(B) \ {o}
             /\ \A b \in InUse(B) \ {o} : R[b] = B[b]
<1> DEFINE F == Unuse(B, o)
           R == Release(B, limit, o)
<1>1. o \in DOMAIN B /\ B[o].active
  BY DEF InUse
<1> HIDE DEF F
<1>2. /\ Tiled(F, limit) /\ DOMAIN F = DOMAIN B /\ ~F[o].active
      /\ \A b \in DOMAIN B : End(F, b) = End(B, b)
      /\ \A b \in DOMAIN B \ {o} : F[b] = B[b]
  BY <1>1, MarkTiled DEF F
<1>3. R = mb_merge(F, limit, o)
  BY DEF Release, F
<1> HIDE DEF R
<1>4. ASSUME NEW b \in DOMAIN F, b # o, End(F, b) # o, ~F[b].active, End(F, b) < limit
      PROVE  F[End(F, b)].active
  <2>1. b \in DOMAIN B /\ ~B[b].active /\ End(B, b) < limit /\ End(B, b) # o
    BY <1>2, <1>4
  <2>2. B[End(B, b)].active /\ End(B, b) \in DOMAIN B
    BY <2>1, NextInPool DEF Joined
  <2> QED
    BY <2>1, <2>2, <1>2
<1>5. Tiled(R, limit) /\ Joined(R, limit) /\ InUse(R) = InUse(F)
  BY <1>1, <1>2, <1>3, <1>4, MergeTiled, MergeJoins, MergeKeepsActive
<1>6. InUse(F) = InUse(B) \ {o}
  BY <1>1, <1>2 DEF InUse
<1>7. ASSUME NEW b \in InUse(B) \ {o} PROVE R[b] = B[b]
  <2>1. b \in DOMAIN F /\ F[b] = B[b] /\ F[b].active
    BY <1>2 DEF InUse
  <2> QED
    BY <2>1, <1>1, <1>2, <1>3, ActiveSurvives
<1> QED
  BY <1>5, <1>6, <1>7 DEF R

(* A pool that has just been set up is tiled, joined and all free. *)
LEMMA FreshTiled ==
  ASSUME NEW limit \in Nat, HeadSize < limit
  PROVE  /\ Tiled(FreshPool(limit), limit) /\ Joined(FreshPool(limit), limit)
         /\ InUse(FreshPool(limit)) = {}
<1> DEFINE B == FreshPool(limit)
<1>1. DOMAIN B = {0} /\ B[0] = [ size |-> limit - HeadSize, active |-> FALSE ]
  BY DEF FreshPool
<1>2. limit - HeadSize \in Nat /\ 0 < limit
  BY HeadAssumption
<1> HIDE DEF B
<1>3. End(B, 0) = limit
  BY <1>1, <1>2, HeadAssumption DEF End
<1>4. Tiled(B, limit)
  <2>1. B[0] \in memblock
    BY <1>1, <1>2 DEF memblock
  <2>2. \A o \in DOMAIN B : o = 0
    BY <1>1
  <2>3. \A o, p \in DOMAIN B : ~(o < p)
    BY <2>2
  <2>4. \A o \in DOMAIN B : o \in Nat /\ o < limit /\ B[o] \in memblock /\ End(B, o) = limit
    BY <2>1, <2>2, <1>2, <1>3
  <2> QED
    BY <2>2, <2>3, <2>4, <1>1 DEF Tiled
<1>5. Joined(B, limit) /\ InUse(B) = {}
  BY <1>1, <1>3 DEF Joined, InUse
<1> QED
  BY <1>4, <1>5 DEF B

(* Two blocks of a tiled pool do not overlap. *)
LEMMA BlocksApart ==
  ASSUME NEW B, NEW limit \in Nat, Tiled(B, limit),
         NEW o \in DOMAIN B, NEW p \in DOMAIN B, o # p
  PROVE  End(B, o) <= p \/ End(B, p) <= o
<1>1. o \in Nat /\ p \in Nat
  BY NextInPool
<1>2. o < p \/ p < o
  BY <1>1
<1> QED
  BY <1>2 DEF Tiled
(* The bytes of a block are as many as its head says. *)
LEMMA PayloadSize ==
  ASSUME NEW B, NEW limit \in Nat, Tiled(B, limit), NEW o \in DOMAIN B
  PROVE  /\ IsFiniteSet(Payload(B, o)) /\ Cardinality(Payload(B, o)) = B[o].size
         /\ \A x \in Payload(B, o) : x \in Nat /\ o + HeadSize <= x /\ x < End(B, o) /\ x < limit
<1>1. /\ o \in Nat /\ B[o].size \in Nat /\ End(B, o) \in Nat /\ End(B, o) <= limit
      /\ End(B, o) = o + HeadSize + B[o].size
  BY NextInPool DEF End
<1>2. o + HeadSize \in Int /\ End(B, o) - 1 \in Int
  BY <1>1, HeadAssumption
<1>3. IsFiniteSet(Payload(B, o)) /\ Cardinality(Payload(B, o)) = B[o].size
  <2>1. /\ IsFiniteSet((o + HeadSize)..(End(B, o) - 1))
        /\ Cardinality((o + HeadSize)..(End(B, o) - 1))
             = IF o + HeadSize > End(B, o) - 1 THEN 0 ELSE (End(B, o) - 1) - (o + HeadSize) + 1
    BY <1>2, FS_Interval
  <2>2. (IF o + HeadSize > End(B, o) - 1 THEN 0 ELSE (End(B, o) - 1) - (o + HeadSize) + 1) = B[o].size
    BY <1>1, HeadAssumption
  <2>3. Payload(B, o) = (o + HeadSize)..(End(B, o) - 1)
    BY DEF Payload
  <2> QED
    BY <2>1, <2>2, <2>3
<1> QED
  BY <1>1, <1>2, <1>3, HeadAssumption DEF Payload

(* A pool has finitely many blocks in use, and they have finitely many     *)
(* bytes.                                                                  *)
LEMMA UsedFinite ==
  ASSUME NEW B, NEW limit \in Nat, Tiled(B, limit)
  PROVE  IsFiniteSet(InUse(B)) /\ IsFiniteSet(UsedBytes(B))
<1>1. InUse(B) \in SUBSET Nat /\ \A o \in InUse(B) : o <= limit
  BY DEF InUse, Tiled
<1>2. UsedBytes(B) \in SUBSET Nat /\ \A x \in UsedBytes(B) : x <= limit
  BY PayloadSize DEF UsedBytes, InUse
<1> QED
  BY <1>1, <1>2, FS_BoundedSetOfNaturals

(* The bytes of two blocks are apart. *)
LEMMA PayloadsApart ==
  ASSUME NEW B, NEW limit \in Nat, Tiled(B, limit),
         NEW o \in DOMAIN B, NEW p \in DOMAIN B, o # p
  PROVE  Payload(B, o) \cap Payload(B, p) = {}
<1>1. End(B, o) <= p \/ End(B, p) <= o
  BY BlocksApart
<1> QED
  BY <1>1, PayloadSize, NextInPool, HeadAssumption

(* A pool that differs from B by a block taken at o has that block's bytes *)
(* in use on top of those of B.                                            *)
LEMMA BytesTaken ==
  ASSUME NEW B, NEW N, NEW limit \in Nat, Tiled(B, limit), Tiled(N, limit), NEW o,
         InUse(N) = InUse(B) \union {o}, o \notin InUse(B), \A b \in InUse(B) : N[b] = B[b]
  PROVE  /\ Cardinality(InUse(N)) = Cardinality(InUse(B)) + 1
         /\ Cardinality(UsedBytes(N)) = Cardinality(UsedBytes(B)) + N[o].size
<1>1. Cardinality(InUse(N)) = Cardinality(InUse(B)) + 1
  BY UsedFinite, FS_AddElement
<1>2. o \in DOMAIN N /\ \A b \in InUse(B) : b \in DOMAIN N /\ b # o
  BY DEF InUse
<1>3. \A b \in InUse(B) : Payload(N, b) = Payload(B, b)
  BY DEF Payload, End
<1>4. UsedBytes(N) = UsedBytes(B) \union Payload(N, o)
  BY <1>3 DEF UsedBytes
<1>5. UsedBytes(B) \cap Payload(N, o) = {}
  <2> SUFFICES ASSUME NEW b \in InUse(B) PROVE Payload(B, b) \cap Payload(N, o) = {}
    BY DEF UsedBytes
  <2> QED
    BY <1>2, <1>3, PayloadsApart
<1>6. /\ IsFiniteSet(UsedBytes(B)) /\ IsFiniteSet(Payload(N, o))
      /\ Cardinality(Payload(N, o)) = N[o].size
  BY <1>2, UsedFinite, PayloadSize
<1>7. Cardinality(UsedBytes(B) \union Payload(N, o))
        = Cardinality(UsedBytes(B)) + Cardinality(Payload(N, o))
          - Cardinality(UsedBytes(B) \cap Payload(N, o))
  BY <1>6, FS_Union
<1>8. Cardinality(UsedBytes(B)) \in Nat /\ N[o].size \in Nat
  BY <1>2, <1>6, FS_CardinalityType, NextInPool
<1>9. Cardinality(UsedBytes(B) \cap Payload(N, o)) = 0
  BY <1>5, FS_EmptySet
<1>10. Cardinality(UsedBytes(N)) = Cardinality(UsedBytes(B)) + N[o].size - 0
  BY <1>4, <1>6, <1>7, <1>9
<1> QED
  BY <1>1, <1>8, <1>10
=============================================================================
