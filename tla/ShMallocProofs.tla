--------------------------- MODULE ShMallocProofs ---------------------------
(***************************************************************************)
(* What sh_malloc's body guarantees for every size, every policy row,      *)
(* every width of int, every heap and every set of allocations that fail.  *)
(***************************************************************************)
EXTENDS ShMalloc, TLAPS

(* The size difference is the same for every cipher: the lookup of         *)
(* sh_crypto.c lines 13-20 returns its first row.                          *)
LEMMA CipherChanges == cipher_changes = 16
BY DEF cipher_changes, sh_get_cipher_outsize_diff, sh_ciphertext_sz_diff_table

(* realloc keeps the slots there are and leaves the others unwritten.      *)
LEMMA ResizedType ==
  ASSUME NEW S, NEW old \in Seq(S \union {Wild}), NEW n \in Nat
  PROVE  /\ Resized(old, n) \in Seq(S \union {Wild})
         /\ Len(Resized(old, n)) = n
         /\ \A i \in 1 .. n : i <= Len(old) => Resized(old, n)[i] = old[i]
BY DEF Resized

(* A store into one slot of a table leaves its length and the other slots. *)
LEMMA SlotStored ==
  ASSUME NEW S, NEW s \in Seq(S), NEW k \in 1 .. Len(s), NEW d \in S
  PROVE  /\ [ s EXCEPT ![k] = d ] \in Seq(S)
         /\ Len([ s EXCEPT ![k] = d ]) = Len(s)
         /\ \A i \in 1 .. Len(s) : [ s EXCEPT ![k] = d ][i] = IF i = k THEN d ELSE s[i]
<1>1. s \in [ 1 .. Len(s) -> S ] /\ Len(s) \in Nat
  OBVIOUS
<1>2. [ s EXCEPT ![k] = d ] \in [ 1 .. Len(s) -> S ]
  BY <1>1
<1>3. QED
  BY <1>1, <1>2

(* Conversion to int is the identity on the values that int can hold.      *)
LEMMA ToIntRepresentable ==
  ASSUME NEW v \in Int, -IntMax - 1 <= v, v <= IntMax
  PROVE  ToInt(v) = v
BY DEF ToInt

(* Conversion to int yields an int, whatever is converted.                 *)
LEMMA ToIntType == ASSUME NEW v \in Int PROVE ToInt(v) \in -IntMax - 1 .. IntMax
<1> DEFINE w == 2 * IntMax + 2
           u == v + IntMax + 1
<1>1. IntMax \in Nat /\ w \in Nat /\ w > 0 /\ u \in Int
  BY IntMaxAssumption
<1>2. u % w \in 0 .. w - 1
  BY <1>1
<1>3. QED
  BY <1>1, <1>2 DEF ToInt
-----------------------------------------------------------------------------
(* The heap after a successful realloc is a heap of segment tables; the    *)
(* table is where realloc put it, one slot longer than the segments built. *)
LEMMA MovedTable ==
  ASSUME TypeOK, segments_table # Wild, NEW a \in TabAddr
  PROVE  LET old == IF segments_table = Null THEN << >> ELSE tabs[segments_table]
         IN  /\ TableMovedTo(a) \in [ TabAddr -> Seq(sh_segment_descriptor \union {Wild}) ]
             /\ Len(TableMovedTo(a)[a]) = segment_index + 1
             /\ \A i \in 1 .. segment_index + 1 : i <= Len(old) => TableMovedTo(a)[a][i] = old[i]
<1> DEFINE S == sh_segment_descriptor
           old == IF segments_table = Null THEN << >> ELSE tabs[segments_table]
<1>1. old \in Seq(S \union {Wild}) /\ segment_index + 1 \in Nat
  BY PointersAssumption DEF TypeOK
<1>2. /\ Resized(old, segment_index + 1) \in Seq(S \union {Wild})
      /\ Len(Resized(old, segment_index + 1)) = segment_index + 1
      /\ \A i \in 1 .. segment_index + 1 : i <= Len(old) => Resized(old, segment_index + 1)[i] = old[i]
  <2> HIDE DEF S, old
  <2> QED BY <1>1, ResizedType
<1>3. << >> \in Seq(S \union {Wild}) /\ \A b \in TabAddr : tabs[b] \in Seq(S \union {Wild})
  BY DEF TypeOK
<1> HIDE DEF S
<1>4. TableMovedTo(a) \in [ TabAddr -> Seq(S \union {Wild}) ]
  <2> HIDE DEF old
  <2>1. TableMovedTo(a) = [ b \in TabAddr |-> IF b = a THEN Resized(old, segment_index + 1)
                                ELSE IF b = segments_table THEN << >> ELSE tabs[b] ]
    BY DEF TableMovedTo, old
  <2>2. QED BY <2>1, <1>2, <1>3
<1>5. TableMovedTo(a)[a] = Resized(old, segment_index + 1)
  BY DEF TableMovedTo
<1>6. QED
  BY <1>2, <1>4, <1>5 DEF S

(* Whatever is taken from an int by a segment's length is an int again.    *)
LEMMA CountdownType ==
  ASSUME TypeOK PROVE ToInt(remaining - policy.segment_size) \in -IntMax - 1 .. IntMax
<1>1. remaining \in Int /\ policy.segment_size \in Int
  BY PoliciesAssumption, IntMaxAssumption DEF TypeOK
<1>2. remaining - policy.segment_size \in Int
  BY <1>1
<1>3. QED
  BY <1>2, ToIntType

(* A descriptor filled in by the code is one, and is no unwritten memory.  *)
LEMMA DescriptorType ==
  ASSUME NEW n \in Nat, NEW fails
  PROVE  /\ Descriptor(n, fails) \in sh_segment_descriptor
         /\ Descriptor(n, fails) # Wild
BY PointersAssumption DEF Descriptor, sh_segment_descriptor

(* The sum that the branch without segmentation records: a size_t, and the *)
(* sum itself where it does not wrap round.                                *)
LEMMA SizeWithTagType ==
  ASSUME TypeOK
  PROVE  /\ SizeWithTag \in Nat
         /\ size + cipher_changes <= SizeMax => SizeWithTag = size + cipher_changes
<1>1. size + cipher_changes \in Nat /\ SizeMax \in Nat
  BY CipherChanges, SizesAssumption DEF TypeOK
<1>2. QED
  BY <1>1 DEF SizeWithTag

(* Every step of sh_malloc keeps the types. *)
LEMMA TypeStep == TypeOK /\ [MallocNext]_mallocVars => TypeOK'
<1> SUFFICES ASSUME TypeOK, [MallocNext]_mallocVars PROVE TypeOK'
  OBVIOUS
<1>1. CASE \E sz \in Sizes, row \in Policies : Malloc(sz, row)
  <2>1. PICK sz \in Sizes, row \in Policies : Malloc(sz, row)
    BY <1>1
  <2>2. sz \in Nat /\ ToInt(sz) \in -IntMax - 1 .. IntMax
    BY SizesAssumption, ToIntType
  <2>3. Branch(row) \in {"grow", "single"}
    BY DEF Branch
  <2>4. QED
    BY <2>1, <2>2, <2>3 DEF Malloc, TypeOK
<1>2. CASE GrowTable
  <2>1. CASE Stop("invalid_pointer") /\ UNCHANGED failed
    BY <2>1 DEF Stop, TypeOK
  <2>2. ASSUME NEW a \in TabAddr, Reallocatable, Reallocate(a), pc' = "fill",
               UNCHANGED << status, size, policy, remaining, segment_index, orphans, failed >>
        PROVE  TypeOK'
    <3>1. TableMovedTo(a) \in [ TabAddr -> Seq(sh_segment_descriptor \union {Wild}) ]
      BY <2>2, MovedTable, PointersAssumption DEF Reallocatable
    <3>2. QED
      BY <2>2, <3>1 DEF Reallocate, TypeOK
  <2>3. CASE /\ "table" \in MayFail /\ pc' = "fill" /\ failed' = failed \union {"table"}
             /\ UNCHANGED << status, size, policy, remaining, segment_index, segments_table, tabs, orphans >>
    BY <2>3 DEF TypeOK
  <2>4. QED
    BY <1>2, <2>1, <2>2, <2>3 DEF GrowTable
<1>3. CASE FillSegment
  <2>1. PICK fails \in SUBSET (MayFail \intersect Attempted) :
           /\ failed' = failed \union fails
           /\ \/ Stop("null_deref") \/ Stop("overrun")
              \/ /\ segments_table # Null /\ segment_index < Len(tabs[segments_table])
                 /\ tabs' = [ tabs EXCEPT ![segments_table][segment_index + 1] =
                                Descriptor(policy.segment_size + cipher_changes, fails) ]
                 /\ NextSegment(fails) /\ pc' = "grow"
                 /\ UNCHANGED << status, size, policy, segments_table >>
    BY <1>3 DEF FillSegment
  <2>2. CASE Stop("null_deref") \/ Stop("overrun")
    BY <2>1, <2>2 DEF Stop, TypeOK
  <2>3. CASE /\ segment_index < Len(tabs[segments_table])
             /\ tabs' = [ tabs EXCEPT ![segments_table][segment_index + 1] =
                            Descriptor(policy.segment_size + cipher_changes, fails) ]
             /\ NextSegment(fails) /\ pc' = "grow"
             /\ UNCHANGED << status, size, policy, segments_table >>
    <3> DEFINE d == Descriptor(policy.segment_size + cipher_changes, fails)
    <3>1. policy.segment_size + cipher_changes \in Nat
      BY PoliciesAssumption, CipherChanges, IntMaxAssumption DEF TypeOK
    <3>2. d \in sh_segment_descriptor \union {Wild}
      BY <3>1, DescriptorType
    <3> HIDE DEF d
    <3>3. tabs' \in [ TabAddr -> Seq(sh_segment_descriptor \union {Wild}) ]
      <4>1. tabs' = [ tabs EXCEPT ![segments_table] = [ tabs[segments_table] EXCEPT ![segment_index + 1] = d ] ]
        BY <2>3 DEF d
      <4>2. CASE segments_table \in TabAddr
        <5>1. tabs[segments_table] \in Seq(sh_segment_descriptor \union {Wild})
          BY <4>2 DEF TypeOK
        <5>2. segment_index + 1 \in 1 .. Len(tabs[segments_table])
          BY <2>1, <2>3, <5>1 DEF TypeOK
        <5>3. [ tabs[segments_table] EXCEPT ![segment_index + 1] = d ]
                \in Seq(sh_segment_descriptor \union {Wild})
          BY <3>2, <5>1, <5>2, SlotStored
        <5>4. QED
          BY <4>1, <5>3 DEF TypeOK
      <4>3. CASE segments_table \notin TabAddr
        BY <4>1, <4>3 DEF TypeOK
      <4>4. QED
        BY <4>2, <4>3
    <3>4. remaining' \in -IntMax - 1 .. IntMax
      BY <2>3, CountdownType DEF NextSegment
    <3>5. segment_index' \in Nat /\ orphans' \in Nat
      BY <2>3 DEF NextSegment, TypeOK
    <3>6. QED
      BY <2>1, <2>3, <3>3, <3>4, <3>5 DEF TypeOK
  <2>4. QED
    BY <2>1, <2>2, <2>3
<1>4. CASE LeaveLoop
  BY <1>4 DEF LeaveLoop, TypeOK
<1>5. CASE SingleBlock
  <2>1. PICK fails \in SUBSET (MayFail \intersect {"table", "desc", "full"}) :
           /\ failed' = failed \union fails
           /\ \/ Stop("null_deref")
              \/ /\ \E a \in TabAddr :
                      /\ segments_table' = a
                      /\ tabs' = [ tabs EXCEPT ![a] = << Descriptor(SizeWithTag, fails) >> ]
                 /\ segment_index' = 1 /\ pc' = "done"
                 /\ UNCHANGED << status, size, policy, remaining, orphans >>
    BY <1>5 DEF SingleBlock
  <2>2. CASE Stop("null_deref")
    BY <2>1, <2>2 DEF Stop, TypeOK
  <2>3. ASSUME NEW a \in TabAddr, segments_table' = a,
               tabs' = [ tabs EXCEPT ![a] = << Descriptor(SizeWithTag, fails) >> ],
               segment_index' = 1, pc' = "done",
               UNCHANGED << status, size, policy, remaining, orphans >>
        PROVE  TypeOK'
    <3>1. SizeWithTag \in Nat
      BY SizeWithTagType
    <3>2. Descriptor(SizeWithTag, fails) \in sh_segment_descriptor \union {Wild}
      BY <3>1, DescriptorType
    <3>3. tabs' \in [ TabAddr -> Seq(sh_segment_descriptor \union {Wild}) ]
      BY <2>3, <3>2 DEF TypeOK
    <3>4. QED
      BY <2>1, <2>3, <3>3 DEF TypeOK
  <2>4. QED
    BY <2>1, <2>2, <2>3
<1>6. CASE Return
  BY <1>6 DEF Return, TypeOK
<1>7. CASE UNCHANGED mallocVars
  BY <1>7 DEF mallocVars, TypeOK
<1>8. QED
  BY <1>1, <1>2, <1>3, <1>4, <1>5, <1>6, <1>7 DEF MallocNext, MallocStep

LEMMA TypeInit == MallocInit => TypeOK
<1> SUFFICES ASSUME MallocInit PROVE TypeOK
  OBVIOUS
<1>1. 0 \in -IntMax - 1 .. IntMax
  BY IntMaxAssumption
<1>2. tabs \in [ TabAddr -> Seq(sh_segment_descriptor \union {Wild}) ]
  BY DEF MallocInit
<1>3. QED
  BY <1>1, <1>2 DEF MallocInit, TypeOK

(* Every value stays in the range of its C type, in every call.            *)
THEOREM TypeCorrect == MallocSpec => []TypeOK
BY TypeInit, TypeStep, PTL DEF MallocSpec
-----------------------------------------------------------------------------
(* The loop's arithmetic.  While a request that int can hold is cut up,    *)
(* what has been cut and what remains add up to it, and the segment cut    *)
(* last was needed.                                                        *)
CountInv ==
  /\ pc \in {"grow", "fill"} => Segmented
  /\ pc = "single" => ~Segmented
  /\ pc = "fill" => remaining > 0
  /\ pc \in {"grow", "fill"} /\ size <= IntMax =>
       /\ segment_index * policy.segment_size + remaining = size
       /\ segment_index > 0 => (segment_index - 1) * policy.segment_size < size

LEMMA NextProduct ==
  ASSUME NEW k \in Int, NEW g \in Int
  PROVE  (k + 1) * g = k * g + g /\ k + 1 - 1 = k
OBVIOUS

(* One more segment keeps the count.                                       *)
LEMMA CountKept ==
  ASSUME TypeOK, CountInv, pc = "fill", size <= IntMax, NEW fails, NextSegment(fails)
  PROVE  /\ segment_index' * policy.segment_size + remaining' = size
         /\ (segment_index' - 1) * policy.segment_size < size
<1> DEFINE g == policy.segment_size
<1>1. g \in Nat /\ g <= IntMax /\ IntMax \in Nat
  BY PoliciesAssumption, IntMaxAssumption DEF TypeOK
<1>2. remaining \in Int /\ remaining > 0 /\ segment_index \in Nat /\ size \in Nat
  BY IntMaxAssumption DEF TypeOK, CountInv
<1>3. segment_index * g + remaining = size /\ segment_index * g \in Nat
  BY <1>1, <1>2 DEF CountInv
<1>4. remaining <= IntMax
  BY IntMaxAssumption DEF TypeOK
<1>5. remaining' = remaining - g
  <2>1. remaining - g \in Int /\ -IntMax - 1 <= remaining - g /\ remaining - g <= IntMax
    BY <1>1, <1>2, <1>4
  <2>2. QED
    BY <2>1, ToIntRepresentable DEF NextSegment
<1>6. segment_index' = segment_index + 1
  BY DEF NextSegment
<1>7. segment_index' * g = segment_index * g + g /\ segment_index' - 1 = segment_index
  BY <1>1, <1>2, <1>6, NextProduct
<1> HIDE DEF g
<1>8. segment_index' * g + remaining' = size /\ (segment_index' - 1) * g < size
  BY <1>1, <1>2, <1>3, <1>5, <1>7
<1>9. QED
  BY <1>8 DEF g

LEMMA CountInit == MallocInit => CountInv /\ SegmentsCoverRequest
BY DEF MallocInit, CountInv, SegmentsCoverRequest

(* Every step keeps the count right, and what it ends with. *)
LEMMA CountStep ==
  ASSUME TypeOK, TypeOK', CountInv, SegmentsCoverRequest, [MallocNext]_mallocVars
  PROVE  CountInv' /\ SegmentsCoverRequest'
<1>1. CASE \E sz \in Sizes, row \in Policies : Malloc(sz, row)
  <2>1. PICK sz \in Sizes, row \in Policies : Malloc(sz, row)
    BY <1>1
  <2>2. /\ size' = sz /\ policy' = row /\ remaining' = ToInt(sz) /\ segment_index' = 0
        /\ pc' = IF row.segmentation_enabled THEN "grow" ELSE "single"
    BY <2>1 DEF Malloc, Branch
  <2>3. sz \in Nat /\ row.segment_size \in Nat
    BY SizesAssumption, PoliciesAssumption, IntMaxAssumption
  <2>4. sz <= IntMax => ToInt(sz) = sz
    BY <2>3, IntMaxAssumption, ToIntRepresentable
  <2>5. 0 * row.segment_size = 0
    BY <2>3
  <2>6. QED
    BY <2>2, <2>3, <2>4, <2>5 DEF CountInv, SegmentsCoverRequest, Segmented
<1>2. CASE GrowTable
  <2>1. /\ UNCHANGED << size, policy, remaining, segment_index >>
        /\ pc = "grow" /\ remaining > 0 /\ pc' \in {"grow", "fill"}
    BY <1>2 DEF GrowTable, Stop
  <2>2. QED
    BY <2>1 DEF CountInv, SegmentsCoverRequest, Segmented
<1>3. CASE FillSegment
  <2>1. CASE UNCHANGED << pc, size, policy, remaining, segment_index >>
    BY <1>3, <2>1 DEF CountInv, SegmentsCoverRequest, Segmented, FillSegment
  <2>2. ASSUME NEW fails, NextSegment(fails), pc = "fill", pc' = "grow", UNCHANGED << size, policy >>
        PROVE  CountInv' /\ SegmentsCoverRequest'
    <3>1. size <= IntMax => /\ segment_index' * policy.segment_size + remaining' = size
                            /\ (segment_index' - 1) * policy.segment_size < size
      BY <2>2, CountKept
    <3>2. QED
      BY <2>2, <3>1 DEF CountInv, SegmentsCoverRequest, Segmented
  <2>3. QED
    BY <1>3, <2>1, <2>2 DEF FillSegment, Stop
<1>4. CASE LeaveLoop
  <2>1. segment_index * policy.segment_size \in Int /\ size \in Nat /\ remaining \in Int
    BY PoliciesAssumption, IntMaxAssumption DEF TypeOK
  <2>2. /\ UNCHANGED << size, policy, segment_index >>
        /\ pc = "grow" /\ pc' = "done" /\ remaining <= 0
    BY <1>4 DEF LeaveLoop
  <2>3. QED
    BY <2>1, <2>2 DEF CountInv, SegmentsCoverRequest, Segmented
<1>5. CASE SingleBlock
  <2>1. pc = "single" /\ pc' \in {"single", "done"} /\ policy' = policy
    BY <1>5 DEF SingleBlock, Stop
  <2>2. QED
    BY <2>1 DEF CountInv, SegmentsCoverRequest, Segmented
<1>6. CASE Return
  BY <1>6 DEF Return, CountInv, SegmentsCoverRequest
<1>7. CASE UNCHANGED mallocVars
  BY <1>7 DEF mallocVars, CountInv, SegmentsCoverRequest, Segmented
<1>8. QED
  BY <1>1, <1>2, <1>3, <1>4, <1>5, <1>6, <1>7 DEF MallocNext, MallocStep

(* The count is right in every call, and so is what it ends with.          *)
LEMMA CountInvariant == MallocSpec => [](CountInv /\ SegmentsCoverRequest)
<1>1. TypeOK /\ TypeOK' /\ CountInv /\ SegmentsCoverRequest /\ [MallocNext]_mallocVars
        => CountInv' /\ SegmentsCoverRequest'
  BY CountStep
<1>2. QED
  BY <1>1, CountInit, TypeCorrect, PTL DEF MallocSpec

(* Lines 40-62, for every size, policy and int width: a finished call has  *)
(* enough segments for its request and no segment too many.                *)
THEOREM RequestCovered == MallocSpec => []SegmentsCoverRequest
BY CountInvariant, PTL
-----------------------------------------------------------------------------
(* Slot i of the table is the descriptor of a segment: it has been         *)
(* written, records the capacity of its block unless that malloc failed,   *)
(* and every segment has the full length, the last one included.           *)
SlotBacked(i) ==
  LET d == tabs[segments_table][i]
  IN  /\ d # Wild
      /\ d.size = IF Segmented THEN policy.segment_size + cipher_changes ELSE SizeWithTag
      /\ d.block = d.size \/ (d.block = Null /\ "full" \in failed)

(* Between two allocations of a call: the segments built so far are in the *)
(* table, and the table has a slot for the next one when it is to be       *)
(* stored, unless realloc failed.                                          *)
TableInv ==
  /\ pc \in {"grow", "fill"} => Segmented
  /\ pc = "single" => ~Segmented
  /\ pc \in {"grow", "fill", "done"} /\ segment_index > 0 =>
       /\ segments_table \in TabAddr
       /\ segment_index <= Len(tabs[segments_table])
       /\ \A i \in 1 .. segment_index : SlotBacked(i)
  /\ pc = "done" /\ ~Segmented => segment_index = 1
  /\ pc = "fill" =>
       /\ segments_table # Wild
       /\ "table" \notin failed =>
            segments_table \in TabAddr /\ segment_index < Len(tabs[segments_table])

(* The invariant of a call's memory: what the table holds, and why a call  *)
(* may have stopped.                                                       *)
MemoryInv == TableInv /\ StopHasCause

(* The memory invariant survives a stop that has its cause.                *)
LEMMA StopKeeps ==
  ASSUME MemoryInv, NEW reason, Stop(reason), failed \subseteq failed', StopHasCause'
  PROVE  MemoryInv'
BY DEF MemoryInv, TableInv, StopHasCause, SlotBacked, Segmented, Stop,
       Reallocatable, Allocated, cipher_changes, SizeWithTag

(* A realloc, failed or not, keeps the segments built so far.              *)
LEMMA GrowKeeps == TypeOK /\ MemoryInv /\ GrowTable => MemoryInv'
<1> SUFFICES ASSUME TypeOK, MemoryInv, GrowTable PROVE MemoryInv'
  OBVIOUS
<1>1. CASE ~Reallocatable /\ Stop("invalid_pointer") /\ UNCHANGED failed
  <2>1. segment_index = 0
    BY <1>1 DEF GrowTable, MemoryInv, TableInv, TypeOK, Reallocatable, Allocated
  <2>2. StopHasCause'
    BY <1>1, <2>1 DEF Stop, StopHasCause, Reallocatable, Allocated
  <2>3. QED
    BY <1>1, <2>2, StopKeeps
<1>2. ASSUME NEW a \in TabAddr, Reallocatable, Reallocate(a), pc' = "fill",
             UNCHANGED << status, size, policy, remaining, segment_index, orphans, failed >>
      PROVE  MemoryInv'
  <2> DEFINE old == IF segments_table = Null THEN << >> ELSE tabs[segments_table]
  <2>1. /\ Len(tabs'[a]) = segment_index + 1
        /\ \A i \in 1 .. segment_index + 1 : i <= Len(old) => tabs'[a][i] = old[i]
    BY <1>2, MovedTable, PointersAssumption DEF Reallocate, Reallocatable
  <2>2. segments_table' = a /\ a # Wild /\ pc = "grow" /\ status = "ok" /\ segment_index \in Nat
    BY <1>2, PointersAssumption DEF Reallocate, GrowTable, TypeOK
  <2>3. ASSUME segment_index > 0, NEW i \in 1 .. segment_index PROVE SlotBacked(i)'
    <3>1. segments_table \in TabAddr /\ segment_index <= Len(tabs[segments_table]) /\ SlotBacked(i)
      BY <2>2, <2>3 DEF MemoryInv, TableInv
    <3>2. old = tabs[segments_table] /\ i <= Len(old) /\ i \in 1 .. segment_index + 1
      BY <2>2, <2>3, <3>1, PointersAssumption DEF TypeOK
    <3>3. tabs'[segments_table'][i] = tabs[segments_table][i]
      BY <2>1, <2>2, <3>2
    <3>4. QED
      BY <1>2, <3>1, <3>3 DEF SlotBacked, Segmented, cipher_changes, SizeWithTag
  <2>4. TableInv'
    <3> HIDE DEF old
    <3> QED BY <1>2, <2>1, <2>2, <2>3 DEF MemoryInv, TableInv, Segmented
  <2>5. StopHasCause'
    BY <1>2, <2>2 DEF MemoryInv, StopHasCause
  <2>6. QED
    BY <2>4, <2>5 DEF MemoryInv
<1>3. CASE /\ Reallocatable /\ pc' = "fill" /\ failed' = failed \union {"table"}
           /\ UNCHANGED << status, size, policy, remaining, segment_index, segments_table, tabs, orphans >>
  <2>1. pc = "grow" /\ status = "ok"
    BY DEF GrowTable
  <2>2. \A i : SlotBacked(i) => SlotBacked(i)'
    BY <1>3 DEF SlotBacked, Segmented, cipher_changes, SizeWithTag
  <2>3. segments_table # Wild
    BY <1>3, PointersAssumption DEF Reallocatable
  <2>4. TableInv'
    BY <1>3, <2>1, <2>2, <2>3 DEF MemoryInv, TableInv, Segmented
  <2>5. StopHasCause'
    BY <1>3, <2>1 DEF MemoryInv, StopHasCause
  <2>6. QED
    BY <2>4, <2>5 DEF MemoryInv
<1>4. QED
  BY <1>1, <1>2, <1>3 DEF GrowTable

(* A store into the next slot adds one backed segment.                     *)
LEMMA FillKeeps == TypeOK /\ MemoryInv /\ FillSegment => MemoryInv'
<1> SUFFICES ASSUME TypeOK, MemoryInv, FillSegment PROVE MemoryInv'
  OBVIOUS
<1> DEFINE t == segments_table
           Store(fails) ==
             /\ t # Null /\ segment_index < Len(tabs[t])
             /\ tabs' = [ tabs EXCEPT ![t][segment_index + 1] =
                            Descriptor(policy.segment_size + cipher_changes, fails) ]
             /\ NextSegment(fails) /\ pc' = "grow"
             /\ UNCHANGED << status, size, policy, segments_table >>
<1>1. /\ pc = "fill" /\ status = "ok" /\ Segmented /\ t # Wild
      /\ "table" \notin failed => t \in TabAddr /\ segment_index < Len(tabs[t])
      /\ t \in TabAddr \union {Null} /\ segment_index \in Nat
  BY DEF FillSegment, MemoryInv, TableInv, TypeOK
<1>2. PICK fails \in SUBSET (MayFail \intersect Attempted) :
         /\ failed' = failed \union fails
         /\ \/ t = Null /\ Stop("null_deref")
            \/ t # Null /\ segment_index >= Len(tabs[t]) /\ Stop("overrun")
            \/ t # Null /\ "desc" \in fails /\ Stop("null_deref")
            \/ Store(fails)
  BY DEF FillSegment
<1>3. CASE t = Null /\ Stop("null_deref")
  <2>1. "table" \in failed /\ status' = "null_deref"
    BY <1>1, <1>3, PointersAssumption DEF Stop
  <2>2. StopHasCause'
    BY <1>2, <2>1 DEF StopHasCause
  <2>3. QED
    BY <1>2, <1>3, <2>2, StopKeeps
<1>4. CASE t # Null /\ segment_index >= Len(tabs[t]) /\ Stop("overrun")
  <2>1. "table" \in failed /\ status' = "overrun"
    <3>1. tabs[t] \in Seq(sh_segment_descriptor \union {Wild})
      BY <1>1, <1>4 DEF TypeOK
    <3>2. QED
      BY <1>1, <1>4, <3>1 DEF Stop
  <2>2. StopHasCause'
    BY <1>2, <2>1 DEF StopHasCause
  <2>3. QED
    BY <1>2, <1>4, <2>2, StopKeeps
<1>5. CASE "desc" \in fails /\ Stop("null_deref")
  <2>1. StopHasCause'
    BY <1>2, <1>5 DEF StopHasCause, Stop
  <2>2. QED
    BY <1>2, <1>5, <2>1, StopKeeps
<1>6. CASE Store(fails)
  <2> DEFINE k == segment_index + 1
             d == Descriptor(policy.segment_size + cipher_changes, fails)
  <2>1. /\ tabs[t] \in Seq(sh_segment_descriptor \union {Wild})
        /\ t \in TabAddr /\ DOMAIN tabs = TabAddr
    BY <1>1, <1>6 DEF TypeOK
  <2>2. k \in 1 .. Len(tabs[t])
    BY <1>1, <1>6, <2>1
  <2>3. d \in sh_segment_descriptor \union {Wild} /\ d # Wild
    <3>1. policy.segment_size + cipher_changes \in Nat
      BY PoliciesAssumption, CipherChanges, IntMaxAssumption DEF TypeOK
    <3>2. QED
      BY <3>1, DescriptorType
  <2>4. /\ tabs'[t] = [ tabs[t] EXCEPT ![k] = d ]
        /\ \A a \in TabAddr : a # t => tabs'[a] = tabs[a]
    BY <1>6, <2>1
  <2>5. /\ Len(tabs'[t]) = Len(tabs[t])
        /\ \A i \in 1 .. Len(tabs[t]) : tabs'[t][i] = IF i = k THEN d ELSE tabs[t][i]
    <3> HIDE DEF d, k
    <3> QED BY <2>1, <2>2, <2>3, <2>4, SlotStored
  <2>6. /\ segment_index' = k /\ pc' = "grow" /\ status' = "ok" /\ segments_table' = t
        /\ UNCHANGED << size, policy >> /\ failed \subseteq failed'
    BY <1>1, <1>2, <1>6 DEF NextSegment
  <2>7. ASSUME NEW i \in 1 .. k PROVE SlotBacked(i)'
    <3>1. CASE i = k
      <4>1. tabs'[t][i] = d
        BY <2>2, <2>5, <3>1
      <4>2. /\ d.size = policy.segment_size + cipher_changes
            /\ d.block = d.size \/ (d.block = Null /\ "full" \in failed')
        BY <1>2 DEF Descriptor
      <4> HIDE DEF d
      <4>3. QED
        BY <1>1, <2>3, <2>6, <4>1, <4>2 DEF SlotBacked, Segmented, cipher_changes, SizeWithTag
    <3>2. CASE i # k
      <4>1. i \in 1 .. segment_index /\ segment_index > 0
        BY <1>1, <3>2
      <4>2. SlotBacked(i)
        BY <1>1, <4>1 DEF MemoryInv, TableInv
      <4>3. tabs'[t][i] = tabs[t][i]
        BY <2>2, <2>5, <3>2
      <4>4. QED
        BY <2>6, <4>2, <4>3 DEF SlotBacked, Segmented, cipher_changes, SizeWithTag
    <3>3. QED
      BY <3>1, <3>2
  <2>8. TableInv'
    BY <1>1, <2>1, <2>2, <2>5, <2>6, <2>7 DEF TableInv, Segmented
  <2>9. StopHasCause'
    BY <2>6 DEF StopHasCause
  <2>10. QED
    BY <2>8, <2>9 DEF MemoryInv
<1>7. QED
  BY <1>2, <1>3, <1>4, <1>5, <1>6

(* The branch without segmentation builds one backed segment.              *)
LEMMA SingleKeeps == TypeOK /\ MemoryInv /\ SingleBlock => MemoryInv'
<1> SUFFICES ASSUME TypeOK, MemoryInv, SingleBlock PROVE MemoryInv'
  OBVIOUS
<1>1. PICK fails \in SUBSET (MayFail \intersect {"table", "desc", "full"}) :
         /\ failed' = failed \union fails
         /\ \/ ("table" \in fails \/ "desc" \in fails) /\ Stop("null_deref")
            \/ /\ \E a \in TabAddr :
                    /\ segments_table' = a
                    /\ tabs' = [ tabs EXCEPT ![a] = << Descriptor(SizeWithTag, fails) >> ]
               /\ segment_index' = 1 /\ pc' = "done"
               /\ UNCHANGED << status, size, policy, remaining, orphans >>
  BY DEF SingleBlock
<1>2. CASE ("table" \in fails \/ "desc" \in fails) /\ Stop("null_deref")
  <2>1. StopHasCause'
    BY <1>1, <1>2 DEF Stop, StopHasCause
  <2>2. QED
    BY <1>1, <1>2, <2>1, StopKeeps
<1>3. ASSUME NEW a \in TabAddr, segments_table' = a,
             tabs' = [ tabs EXCEPT ![a] = << Descriptor(SizeWithTag, fails) >> ],
             segment_index' = 1, pc' = "done",
             UNCHANGED << status, size, policy, remaining, orphans >>
      PROVE  MemoryInv'
  <2> DEFINE d == Descriptor(SizeWithTag, fails)
  <2>1. d # Wild
    <3>1. SizeWithTag \in Nat
      BY SizeWithTagType
    <3>2. QED
      BY <3>1, DescriptorType
  <2>2. tabs'[segments_table'] = << d >>
    BY <1>3 DEF TypeOK
  <2>3. /\ d.size = SizeWithTag
        /\ d.block = d.size \/ (d.block = Null /\ "full" \in failed')
    BY <1>1 DEF Descriptor
  <2> HIDE DEF d
  <2>4. ~Segmented' /\ SizeWithTag' = SizeWithTag /\ status' = "ok"
    BY <1>3 DEF MemoryInv, TableInv, SingleBlock, Segmented, cipher_changes, SizeWithTag
  <2>5. SlotBacked(1)'
    BY <1>3, <2>1, <2>2, <2>3, <2>4 DEF SlotBacked
  <2>6. Len(tabs'[segments_table']) = 1 /\ 1 .. segment_index' = {1}
    BY <1>3, <2>2
  <2>7. TableInv'
    BY <1>3, <2>4, <2>5, <2>6 DEF TableInv
  <2>8. StopHasCause'
    BY <2>4 DEF StopHasCause
  <2>9. QED
    BY <2>7, <2>8 DEF MemoryInv
<1>4. QED
  BY <1>1, <1>2, <1>3

(* The memory invariant is inductive. *)
LEMMA MemoryInit == MallocInit => MemoryInv
BY PointersAssumption DEF MallocInit, MemoryInv, TableInv, StopHasCause

LEMMA MemoryStep == TypeOK /\ MemoryInv /\ [MallocNext]_mallocVars => MemoryInv'
<1> SUFFICES ASSUME TypeOK, MemoryInv, [MallocNext]_mallocVars PROVE MemoryInv'
  OBVIOUS
<1>1. CASE \E sz \in Sizes, row \in Policies : Malloc(sz, row)
  <2>1. /\ pc' = Branch(policy') /\ segment_index' = 0 /\ status = "ok" /\ status' = "ok"
        /\ policy' \in Policies
    BY <1>1 DEF Malloc
  <2>2. TableInv'
    BY <2>1, PoliciesAssumption DEF TableInv, Branch, Segmented
  <2>3. StopHasCause'
    BY <2>1 DEF StopHasCause
  <2>4. QED
    BY <2>2, <2>3 DEF MemoryInv
<1>2. CASE GrowTable
  BY <1>2, GrowKeeps
<1>3. CASE FillSegment
  BY <1>3, FillKeeps
<1>4. CASE LeaveLoop
  BY <1>4 DEF LeaveLoop, MemoryInv, TableInv, StopHasCause, SlotBacked,
              Segmented, Reallocatable, Allocated, cipher_changes, SizeWithTag
<1>5. CASE SingleBlock
  BY <1>5, SingleKeeps
<1>6. CASE Return
  BY <1>6 DEF Return, MemoryInv, TableInv, StopHasCause, Reallocatable, Allocated
<1>7. CASE UNCHANGED mallocVars
  BY <1>7 DEF mallocVars, MemoryInv, TableInv, StopHasCause, SlotBacked,
              Segmented, Reallocatable, Allocated, cipher_changes, SizeWithTag
<1>8. QED
  BY <1>1, <1>2, <1>3, <1>4, <1>5, <1>6, <1>7 DEF MallocNext, MallocStep

LEMMA MemoryInvariant == MallocSpec => []MemoryInv
BY MemoryInit, MemoryStep, TypeCorrect, PTL DEF MallocSpec

(* Every segment is long enough for the bytes that fall to it. *)
LEMMA SlotHoldsShare ==
  ASSUME TypeOK, NEW i \in 1 .. segment_index, SlotBacked(i), Segmented \/ i = 1,
         size + cipher_changes <= SizeMax
  PROVE  tabs[segments_table][i].size >= Share(i) + cipher_changes
<1> DEFINE g == policy.segment_size
           rest == size - (i - 1) * g
<1>1. size \in Nat /\ g \in Nat /\ i - 1 \in Nat /\ cipher_changes \in Nat
  BY PoliciesAssumption, IntMaxAssumption, CipherChanges DEF TypeOK
<1>2. (i - 1) * g \in Nat /\ (i = 1 => (i - 1) * g = 0)
  BY <1>1
<1>3. rest \in Int /\ Share(i) = IF Segmented /\ rest > g THEN g ELSE rest
  BY <1>1, <1>2 DEF Share
<1>4. CASE Segmented
  <2>1. tabs[segments_table][i].size = g + cipher_changes
    BY <1>4 DEF SlotBacked
  <2> HIDE DEF g, rest
  <2>2. QED
    BY <1>1, <1>3, <1>4, <2>1
<1>5. CASE ~Segmented
  <2>1. tabs[segments_table][i].size = size + cipher_changes
    BY <1>5, SizeWithTagType DEF SlotBacked
  <2>2. rest = size
    BY <1>1, <1>2, <1>5
  <2> HIDE DEF g, rest
  <2>3. QED
    BY <1>1, <1>3, <1>5, <2>1, <2>2
<1>6. QED
  BY <1>4, <1>5

(* Lines 43-76: when a call is done, each of its segments has a descriptor *)
(* inside the table, which records the capacity of the block behind it     *)
(* unless that block could not be allocated, and has room for its part of  *)
(* the request, for every size whose sum with the tag does not wrap round. *)
THEOREM SegmentsAreBacked == MallocSpec => []SegmentsBacked
<1>1. TypeOK /\ TableInv => SegmentsBacked
  <2> SUFFICES ASSUME TypeOK, TableInv, pc = "done", segment_index > 0
               PROVE  SegmentsBacked
    BY DEF SegmentsBacked
  <2>1. /\ segments_table \in TabAddr
        /\ segment_index <= Len(tabs[segments_table])
        /\ \A i \in 1 .. segment_index : SlotBacked(i)
        /\ ~Segmented => segment_index = 1
    BY DEF TableInv
  <2>2. \A i \in 1 .. segment_index :
          size + cipher_changes <= SizeMax =>
            tabs[segments_table][i].size >= Share(i) + cipher_changes
    BY <2>1, SlotHoldsShare
  <2>3. QED
    BY <2>1, <2>2 DEF SegmentsBacked, SlotBacked
<1>2. QED
  BY <1>1, TypeCorrect, MemoryInvariant, PTL DEF MemoryInv

(* Lines 43-57 and 67-74: a call stops only after a failed allocation or   *)
(* on a garbage pointer in its first round.                                *)
THEOREM StopsAreCaused == MallocSpec => []StopHasCause
BY MemoryInvariant, PTL DEF MemoryInv
-----------------------------------------------------------------------------
(* What is left of a call, at most: two steps for every byte still to be   *)
(* cut off, and one to leave the loop.                                     *)
StepsLeft ==
  CASE status = "ok" /\ pc = "grow" -> 1 + (IF remaining > 0 THEN 2 * remaining ELSE 0)
    [] status = "ok" /\ pc = "fill" -> 2 * remaining
    [] status = "ok" /\ pc = "single" -> 1
    [] OTHER -> 0

(* sh_malloc.c lines 40-57: every step of a call brings its end nearer,    *)
(* whichever allocations fail and whatever the conversion to int makes of  *)
(* the size.                                                               *)
CallsWindDown == [][ MallocStep => StepsLeft' \in 0 .. StepsLeft - 1 ]_mallocVars

(* The steps of a call that are left, by where the call is. *)
LEMMA StepsLeftAt ==
  ASSUME TypeOK
  PROVE  /\ status # "ok" => StepsLeft = 0
         /\ status = "ok" /\ pc = "grow" /\ remaining > 0 => StepsLeft = 1 + 2 * remaining
         /\ status = "ok" /\ pc = "grow" /\ ~(remaining > 0) => StepsLeft = 1
         /\ status = "ok" /\ pc = "fill" => StepsLeft = 2 * remaining
         /\ status = "ok" /\ pc = "single" => StepsLeft = 1
         /\ status = "ok" /\ pc = "done" => StepsLeft = 0
BY IntMaxAssumption DEF StepsLeft, TypeOK

(* A round that stores a segment cuts off at least a byte, and nothing     *)
(* wraps round, because what remained was positive.                        *)
LEMMA CutShortens ==
  ASSUME TypeOK, CountInv, pc = "fill", NEW fails, NextSegment(fails)
  PROVE  remaining \in Nat /\ remaining > 0 /\ remaining' \in Int /\ remaining' < remaining
<1>1. /\ policy.segment_size \in 1 .. IntMax /\ IntMax \in Nat
      /\ remaining \in 1 .. IntMax
  BY PoliciesAssumption, IntMaxAssumption DEF TypeOK, CountInv, Segmented
<1>2. /\ remaining - policy.segment_size \in Int
      /\ -IntMax - 1 <= remaining - policy.segment_size
      /\ remaining - policy.segment_size <= IntMax
  BY <1>1
<1>3. remaining' = remaining - policy.segment_size
  BY <1>2, ToIntRepresentable DEF NextSegment
<1>4. QED
  BY <1>1, <1>3

LEMMA StepShortens ==
  ASSUME TypeOK, TypeOK', CountInv, MallocStep PROVE StepsLeft' \in 0 .. StepsLeft - 1
<1>1. status = "ok" /\ pc \in {"grow", "fill", "single"}
  BY DEF MallocStep, GrowTable, FillSegment, LeaveLoop, SingleBlock
<1>2. StepsLeft \in Nat /\ StepsLeft > 0
  <2>1. remaining \in Int /\ (pc = "fill" => remaining > 0)
    BY IntMaxAssumption DEF TypeOK, CountInv
  <2>2. QED
    BY <1>1, <2>1, StepsLeftAt
<1>3. CASE status' # "ok"
  <2>1. StepsLeft' = 0
    BY <1>3, StepsLeftAt DEF TypeOK, StepsLeft
  <2>2. QED
    BY <1>2, <2>1
<1>4. CASE GrowTable /\ status' = "ok"
  <2>1. pc = "grow" /\ pc' = "fill" /\ remaining > 0 /\ remaining' = remaining /\ remaining \in Int
    BY <1>4, IntMaxAssumption DEF GrowTable, Stop, TypeOK
  <2>2. StepsLeft = 1 + 2 * remaining /\ StepsLeft' = 2 * remaining
    BY <1>1, <1>4, <2>1, StepsLeftAt DEF StepsLeft
  <2>3. QED
    BY <2>1, <2>2
<1>5. CASE FillSegment /\ status' = "ok"
  <2>1. PICK fails : NextSegment(fails) /\ pc = "fill" /\ pc' = "grow"
    BY <1>5 DEF FillSegment, Stop
  <2>2. remaining \in Nat /\ remaining > 0 /\ remaining' \in Int /\ remaining' < remaining
    BY <2>1, CutShortens
  <2>3. StepsLeft = 2 * remaining /\ StepsLeft' = 1 + (IF remaining' > 0 THEN 2 * remaining' ELSE 0)
    BY <1>1, <1>5, <2>1, StepsLeftAt DEF StepsLeft
  <2>4. ASSUME NEW r \in Nat, r > 0, NEW q \in Int, q < r
        PROVE  1 + (IF q > 0 THEN 2 * q ELSE 0) \in 0 .. 2 * r - 1
    BY <2>4
  <2>5. QED
    BY <2>2, <2>3, <2>4
<1>6. CASE (LeaveLoop \/ SingleBlock) /\ status' = "ok"
  <2>1. pc' = "done"
    BY <1>6 DEF LeaveLoop, SingleBlock, Stop
  <2>2. StepsLeft' = 0
    BY <1>6, <2>1 DEF StepsLeft
  <2>3. QED
    BY <1>2, <2>2
<1>7. QED
  BY <1>3, <1>4, <1>5, <1>6 DEF MallocStep

(* Lines 40-57: for every size, every width of int and whatever fails,     *)
(* every step of a call brings its end nearer: no call takes more than two *)
(* steps for each byte asked for, and one.                                 *)
THEOREM CallsShorten == MallocSpec => CallsWindDown
<1>1. TypeOK /\ TypeOK' /\ CountInv /\ [MallocNext]_mallocVars
        => [ MallocStep => StepsLeft' \in 0 .. StepsLeft - 1 ]_mallocVars
  BY StepShortens
<1>2. QED
  BY <1>1, TypeCorrect, CountInvariant, PTL DEF MallocSpec, CallsWindDown
=============================================================================
