------------------------------ MODULE ShMalloc ------------------------------
(***************************************************************************)
(* The body of sh_malloc (src/sh_malloc.c): how a request is cut into      *)
(* segments, one heap allocation after the other, any of which may fail.   *)
(*                                                                         *)
(* A segment table is a heap block; a block is the sequence of its slots,  *)
(* and << >> stands for an address that is not allocated (the code never   *)
(* allocates a table of no slots).  A descriptor and the data block it     *)
(* points at have no identity of their own here: a descriptor is the       *)
(* capacity of the data block behind its address (Null after a failed      *)
(* malloc) and the size it records.                                        *)
(***************************************************************************)
EXTENDS ShCore

CONSTANTS
  Sizes,     \* the sizes callers ask for
  Policies,  \* the rows of the policy table the calls are made under
  IntMax,    \* INT_MAX: a C int ranges over -IntMax-1 .. IntMax
  SizeMax,   \* SIZE_MAX: sums of sizes are taken modulo SizeMax + 1
  TabAddr,   \* heap addresses a segment table can be placed at (a bound)
  MayFail,   \* the allocations that may fail: "table", "desc", "rest", "full", ...
  Null,      \* the null pointer
  Wild       \* an indeterminate pointer that is not the address of any block

ASSUME SizesAssumption == SizeMax \in Nat /\ Sizes \subseteq 0 .. SizeMax

ASSUME IntMaxAssumption == IntMax \in Nat \ {0}

ASSUME PoliciesAssumption ==
  \A p \in Policies :
    /\ p.segmentation_enabled \in BOOLEAN
    /\ p.segment_size \in 0 .. IntMax
    /\ p.segmentation_enabled => p.segment_size > 0

(* struct sh_segment_descriptor: the capacity of the block its address     *)
(* points at, and the size it records.                                     *)
sh_segment_descriptor == [ block : Nat \union {Null}, size : Nat ]

ASSUME PointersAssumption ==
  /\ Null \notin TabAddr /\ Wild \notin TabAddr /\ Null # Wild
  /\ Null \notin Nat /\ Wild \notin sh_segment_descriptor

VARIABLES
  pc,             \* "idle", "grow", "fill", "single" or "done"
  status,         \* "ok", or how the process was stopped
  size, policy,   \* the request being served and the row it is served under
  remaining,      \* the int the loop counts down
  segment_index,  \* segments built so far; the amount once the loop is left
  segments_table, \* the local pointer, which no call initialises
  tabs,           \* the heap: address -> slots of the segment table there
  orphans,        \* data blocks of this call that no pointer reaches any more
  failed          \* history: the allocations that failed during this call

mallocVars == << pc, status, size, policy, remaining, segment_index,
                 segments_table, tabs, orphans, failed >>

cipher_changes == sh_get_cipher_outsize_diff(policy.algorithm, policy.mode)

(* Mutant: remaining declared wide enough for every size_t. *)
WideToInt(v) == v

(* Conversion to int: the value itself where int can represent it, its     *)
(* residue modulo 2^w otherwise.                                           *)
ToInt(v) ==
  IF -IntMax - 1 <= v /\ v <= IntMax
  THEN v
  ELSE ((v + IntMax + 1) % (2 * IntMax + 2)) - IntMax - 1

Allocated(a) == tabs[a] # << >>

(* A block of n slots that starts with the slots of the block old. *)
Resized(old, n) == [ i \in 1 .. n |-> IF i <= Len(old) THEN old[i] ELSE Wild ]

(* What realloc may be given: a null pointer or a block that is allocated. *)
Reallocatable ==
  segments_table = Null \/ (segments_table \in TabAddr /\ Allocated(segments_table))

(* The process ends here: a null pointer is dereferenced, the allocator is *)
(* given an address that is not allocated, or a store leaves its block.    *)
(* The model follows the program no further.                               *)
Stop(reason) ==
  /\ status' = reason
  /\ UNCHANGED << pc, size, policy, remaining, segment_index, segments_table, tabs, orphans >>

MallocInit ==
  /\ pc = "idle" /\ status = "ok"
  /\ size = 0 /\ policy \in Policies /\ remaining = 0 /\ segment_index = 0
  /\ segments_table = Null
  /\ tabs = [ a \in TabAddr |-> << >> ]
  /\ orphans = 0 /\ failed = {}

(* Mutant: the loop body starts with the store into the table. *)
FillFirst(row) == IF row.segmentation_enabled THEN "fill" ELSE "single"

(* The two branches of sh_malloc. *)
Branch(row) == IF row.segmentation_enabled THEN "grow" ELSE "single"

(* Mutant: the local is cleared at entry by freeing what it points at. *)
FreeAtEntry(sz, row) ==
  /\ pc = "idle" /\ status = "ok"
  /\ size' = sz /\ policy' = row /\ segments_table' = Null
  /\ tabs' = [ a \in TabAddr |-> IF a = segments_table THEN << >> ELSE tabs[a] ]
  /\ remaining' = ToInt(sz) /\ segment_index' = 0 /\ orphans' = 0 /\ failed' = {}
  /\ pc' = Branch(row)
  /\ UNCHANGED status

(* Entry up to the loop.  segments_table is not initialised: it reads as   *)
(* null, as garbage, or as an address that an earlier call left on the     *)
(* stack, of a table that is still there or of one that has moved since.   *)
Malloc(sz, row) ==
  /\ pc = "idle" /\ status = "ok"
  /\ \E a \in TabAddr : ~Allocated(a)
  /\ size' = sz /\ policy' = row
  /\ segments_table' \in { Null, Wild } \union TabAddr
  /\ remaining' = ToInt(sz) /\ segment_index' = 0 /\ orphans' = 0 /\ failed' = {}
  /\ pc' = Branch(row)
  /\ UNCHANGED << status, tabs >>

(* The heap once the table has been resized and placed at a. *)
TableMovedTo(a) ==
  LET old == IF segments_table = Null THEN << >> ELSE tabs[segments_table]
  IN  [ b \in TabAddr |-> IF b = a THEN Resized(old, segment_index + 1)
                          ELSE IF b = segments_table THEN << >> ELSE tabs[b] ]

(* Mutant: the table is allocated afresh for each segment, not resized. *)
AllocateAfresh(a) ==
  /\ tabs' = [ TableMovedTo(a) EXCEPT ![a] = [ i \in 1 .. segment_index + 1 |-> Wild ] ]
  /\ segments_table' = a

(* A realloc that succeeds: the block stays at its address or moves to a.  *)
Reallocate(a) == tabs' = TableMovedTo(a) /\ segments_table' = a

(* sh_internal_realloc of the table to one slot more.  When realloc fails  *)
(* the old address comes back.                                             *)
GrowTable ==
  /\ pc = "grow" /\ status = "ok" /\ remaining > 0
  /\ \/ /\ ~Reallocatable
        /\ Stop("invalid_pointer") /\ UNCHANGED failed
     \/ /\ Reallocatable
        /\ \E a \in TabAddr : (a = segments_table \/ ~Allocated(a)) /\ Reallocate(a)
        /\ pc' = "fill"
        /\ UNCHANGED << status, size, policy, remaining, segment_index, orphans, failed >>
     \/ /\ Reallocatable /\ "table" \in MayFail
        /\ pc' = "fill"
        /\ failed' = failed \union {"table"}
        /\ UNCHANGED << status, size, policy, remaining, segment_index, segments_table, tabs, orphans >>

(* The test of line 49: what remains does not fill a segment. *)
IsRemainder == remaining < policy.segment_size

(* The allocations of the rest of a round; only a remainder needs its own. *)
Attempted == {"desc", "full"} \union (IF IsRemainder THEN {"rest"} ELSE {})

(* Mutant: the recorded size counts the authentication tag, the block does not. *)
BlockWithoutTag(n, fails) ==
  [ block |-> IF "full" \in fails THEN Null ELSE n - cipher_changes, size |-> n ]

(* The descriptor a segment of n bytes ends up with. *)
Descriptor(n, fails) ==
  [ block |-> IF "full" \in fails THEN Null ELSE n, size |-> n ]

(* Mutant: a segment whose block cannot be allocated is tried again, for ever. *)
RetrySegment(fails) ==
  IF "full" \in fails
  THEN UNCHANGED << orphans, segment_index, remaining >>
  ELSE /\ orphans' = IF IsRemainder /\ "rest" \notin fails THEN orphans + 1 ELSE orphans
       /\ segment_index' = segment_index + 1
       /\ remaining' = ToInt(remaining - policy.segment_size)

(* To the next segment.  The block a remainder was given is lost, because  *)
(* its address has just been overwritten by a full block's.                *)
NextSegment(fails) ==
  /\ orphans' = IF IsRemainder /\ "rest" \notin fails THEN orphans + 1 ELSE orphans
  /\ segment_index' = segment_index + 1
  /\ remaining' = ToInt(remaining - policy.segment_size)

(* The rest of the loop body: a descriptor and its blocks are allocated    *)
(* and stored in the slot that the table was grown by.                     *)
FillSegment ==
  /\ pc = "fill" /\ status = "ok"
  /\ \E fails \in SUBSET (MayFail \intersect Attempted) :
       /\ failed' = failed \union fails
       /\ \/ /\ segments_table = Null
             /\ Stop("null_deref")
          \/ /\ segments_table # Null /\ segment_index >= Len(tabs[segments_table])
             /\ Stop("overrun")
          \/ /\ segments_table # Null /\ segment_index < Len(tabs[segments_table])
             /\ "desc" \in fails
             /\ Stop("null_deref")
          \/ /\ segments_table # Null /\ segment_index < Len(tabs[segments_table])
             /\ "desc" \notin fails
             /\ tabs' = [ tabs EXCEPT ![segments_table][segment_index + 1] =
                            Descriptor(policy.segment_size + cipher_changes, fails) ]
             /\ NextSegment(fails)
             /\ pc' = "grow"
             /\ UNCHANGED << status, size, policy, segments_table >>

(* Mutant: a rest shorter than a segment is not worth a round. *)
LeaveLoopEarly ==
  /\ pc = "grow" /\ status = "ok" /\ remaining < policy.segment_size
  /\ pc' = "done"
  /\ UNCHANGED << status, size, policy, remaining, segment_index, segments_table, tabs, orphans, failed >>

(* The loop is left; amount is segment_index. *)
LeaveLoop ==
  /\ pc = "grow" /\ status = "ok" /\ remaining <= 0
  /\ pc' = "done"
  /\ UNCHANGED << status, size, policy, remaining, segment_index, segments_table, tabs, orphans, failed >>

(* size += cipher_changes, which wraps round. *)
SizeWithTag == (size + cipher_changes) % (SizeMax + 1)

(* The branch without segmentation: one table, one descriptor, one block.  *)
SingleBlock ==
  /\ pc = "single" /\ status = "ok"
  /\ \E fails \in SUBSET (MayFail \intersect {"table", "desc", "full"}) :
       /\ failed' = failed \union fails
       /\ \/ /\ "table" \in fails \/ "desc" \in fails
             /\ Stop("null_deref")
          \/ /\ "table" \notin fails /\ "desc" \notin fails
             /\ \E a \in TabAddr :
                  /\ ~Allocated(a)
                  /\ segments_table' = a
                  /\ tabs' = [ tabs EXCEPT ![a] = << Descriptor(SizeWithTag, fails) >> ]
             /\ segment_index' = 1
             /\ pc' = "done"
             /\ UNCHANGED << status, size, policy, remaining, orphans >>

Return ==
  /\ pc = "done" /\ status = "ok"
  /\ pc' = "idle"
  /\ UNCHANGED << status, size, policy, remaining, segment_index, segments_table, tabs, orphans, failed >>

MallocStep == GrowTable \/ FillSegment \/ LeaveLoop \/ SingleBlock

MallocNext == (\E sz \in Sizes, row \in Policies : Malloc(sz, row)) \/ MallocStep \/ Return

MallocSpec == MallocInit /\ [][MallocNext]_mallocVars

(* One thread runs the library: a call that has begun keeps taking steps.  *)
FairMallocSpec == MallocSpec /\ WF_mallocVars(MallocStep)
-----------------------------------------------------------------------------
(* Values of the C types behind the variables: remaining stays an int, the *)
(* amount a size_t, a table slot a descriptor pointer or unwritten memory. *)
TypeOK ==
  /\ pc \in {"idle", "grow", "fill", "single", "done"}
  /\ status \in {"ok", "invalid_pointer", "null_deref", "overrun"}
  /\ size \in Nat /\ policy \in Policies
  /\ remaining \in -IntMax - 1 .. IntMax
  /\ segment_index \in Nat /\ orphans \in Nat
  /\ segments_table \in TabAddr \union {Null, Wild}
  /\ tabs \in [ TabAddr -> Seq(sh_segment_descriptor \union {Wild}) ]
  /\ failed \subseteq MayFail

Segmented == policy.segmentation_enabled

(* Lines 40-62: the segments of a finished call hold the request, and no   *)
(* segment is there in vain, for every size an int can represent.          *)
SegmentsCoverRequest ==
  pc = "done" /\ Segmented /\ size <= IntMax =>
    /\ segment_index * policy.segment_size >= size
    /\ segment_index > 0 => (segment_index - 1) * policy.segment_size < size

(* The bytes of the request that fall to segment i. *)
Share(i) ==
  LET rest == size - (i - 1) * policy.segment_size
  IN  IF Segmented /\ rest > policy.segment_size THEN policy.segment_size ELSE rest

(* Lines 43-76: when a call is done each of its segments has a descriptor  *)
(* inside the table block.  The size recorded there is the capacity of the *)
(* memory its address points at, unless that very malloc failed, and has   *)
(* room for the segment's bytes and the tag, if their sum is a size_t.     *)
SegmentsBacked ==
  pc = "done" /\ segment_index > 0 =>
    /\ segments_table \in TabAddr
    /\ segment_index <= Len(tabs[segments_table])
    /\ \A i \in 1 .. segment_index :
         LET d == tabs[segments_table][i]
         IN  /\ d # Wild
             /\ d.block = d.size \/ (d.block = Null /\ "full" \in failed)
             /\ size + cipher_changes <= SizeMax => d.size >= Share(i) + cipher_changes

(* Lines 43-57: nothing but a failed allocation or a bad initial value of  *)
(* the local, given to realloc in the first round, stops a call, and a     *)
(* store leaves the table only after a failed realloc.                     *)
StopHasCause ==
  /\ status = "overrun" => "table" \in failed
  /\ status = "null_deref" => failed \intersect {"table", "desc"} # {}
  /\ status = "invalid_pointer" => ~Reallocatable /\ segment_index = 0

(* Line 40: every call finishes or stops; the countdown cannot go on.      *)
CallsEnd == (pc \in {"grow", "fill", "single"}) ~> (pc = "done" \/ status # "ok")
=============================================================================
