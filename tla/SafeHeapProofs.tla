--------------------------- MODULE SafeHeapProofs ---------------------------
(***************************************************************************)
(* What the user of the library can rely on, for every set of sizes and    *)
(* grades, every number of variables and addresses, every content of the   *)
(* uninitialised table and every set of allocations that fail.             *)
(***************************************************************************)
EXTENDS SafeHeap, ShMallocProofs, ShCoreProofs, WellFoundedInduction

(* A variable of the user. *)
Variable ==
  [ id : EntryAddr, grade : Grades, size : Nat, amount : Nat,
    table : TabAddr \union {Null, Wild}, used : {"no", "read", "reset"} ]

(* The segments of variable r are all in the heap of tables. *)
HasSegments(r, heap) ==
  r.amount > 0 =>
    /\ r.table \in TabAddr
    /\ r.amount <= Len(heap[r.table])
    /\ \A i \in 1 .. r.amount : heap[r.table][i] # Wild /\ heap[r.table][i].size = 10 + 16

(* The two ways to say so agree. *)
LEMMA IntactIffHas ==
  ASSUME NEW v, HasSegments(issued[v], tabs)
  PROVE  SegmentsIntact(v)
BY LookupReturnsMedium, MediumRow, CipherChanges DEF SegmentsIntact, HasSegments

(* The protected table is not there, or holds as many slots as its amount. *)
TableType ==
  \/ sh_protected_table = Null
  \/ \E n \in 0 .. MaxGarbage : \E p \in {Null, Wild} \union [ 1 .. n -> Pointers ] :
       sh_protected_table = [ amount |-> n, entries |-> p ]

(* The parts of the state that calls add to what sh_malloc's body has.     *)
UserType ==
  /\ TPM_ENABLED \in BOOLEAN /\ errno \in {"none", "EINVAL"} /\ grade \in Grades
  /\ entLive \subseteq EntryAddr /\ DOMAIN ents = EntryAddr
  /\ leftover \in BOOLEAN /\ reused \in BOOLEAN /\ TableType
  /\ issued \in Seq(Variable) /\ Len(issued) <= MaxVariables
  /\ pc # "idle" => Len(issued) < MaxVariables
  /\ reading # Null => reading.variable \in 1 .. Len(issued)

(* A call in progress works under the row that the lookup returns.         *)
CallInv ==
  /\ status = "ok" => MemoryInv
  /\ pc # "idle" => policy = sh_protection_policies[2]

(* The latest variable has its segments when no call is in progress; if no *)
(* call took over a table, all variables have theirs, no two share a table *)
(* and the call in progress works on none of theirs.                       *)
SegmentInv ==
  /\ pc = "idle" /\ issued # << >> => HasSegments(issued[Len(issued)], tabs)
  /\ ~leftover =>
       \A v \in 1 .. Len(issued) :
         /\ HasSegments(issued[v], tabs)
         /\ pc # "idle" /\ issued[v].amount > 0 => issued[v].table # segments_table
         /\ \A w \in 1 .. Len(issued) :
              v # w /\ issued[v].amount > 0 /\ issued[w].amount > 0 => issued[v].table # issued[w].table

(* The inductive invariant. *)
HeapInv == TypeOK /\ UserType /\ CallInv /\ SegmentInv /\ IdentifiersNameEntries

(* Changing how a variable has been used, or where the user has it, keeps  *)
(* what its call asked for and built.                                      *)
LEMMA UsedChanged ==
  ASSUME NEW s \in Seq(Variable), NEW v \in 1 .. Len(s), NEW r \in Variable,
         r.grade = s[v].grade, r.amount = s[v].amount, r.table = s[v].table,
         NEW t, t = [ s EXCEPT ![v] = r ]
  PROVE  /\ t \in Seq(Variable) /\ Len(t) = Len(s) /\ t[v] = r
         /\ \A w \in 1 .. Len(s) :
              /\ w # v => t[w] = s[w]
              /\ t[w].grade = s[w].grade /\ t[w].amount = s[w].amount /\ t[w].table = s[w].table
<1>3. /\ t \in Seq(Variable) /\ Len(t) = Len(s)
      /\ \A w \in 1 .. Len(s) : t[w] = IF w = v THEN r ELSE s[w]
  <2>. HIDE DEF Variable
  <2>. QED
    BY SlotStored
<1>. QED
  BY <1>3

(* The segments of variables depend on what their calls built only.        *)
LEMMA SegmentsOfFields ==
  ASSUME SegmentInv, UNCHANGED << pc, tabs, segments_table, leftover >>,
         issued \in Seq(Variable), issued # << >>, Len(issued') = Len(issued),
         \A w \in 1 .. Len(issued) :
           issued'[w].amount = issued[w].amount /\ issued'[w].table = issued[w].table
  PROVE  SegmentInv'
<1>1. \A w \in 1 .. Len(issued) : HasSegments(issued[w], tabs) => HasSegments(issued'[w], tabs)
  BY DEF HasSegments
<1>2. Len(issued) \in 1 .. Len(issued)
  OBVIOUS
<1>. QED
  BY <1>1, <1>2 DEF SegmentInv

(* Segments and identifiers as the variables' other fields record them.    *)
LEMMA SegmentsOfUsed ==
  ASSUME UserType, SegmentInv, UNCHANGED << mallocVars, leftover >>,
         NEW v \in 1 .. Len(issued), NEW u \in {"no", "read", "reset"}, NEW a \in EntryAddr,
         \/ issued' = [ issued EXCEPT ![v] = [ @ EXCEPT !.id = a, !.used = u ] ]
         \/ issued' = [ issued EXCEPT ![v].used = u ]
  PROVE  /\ SegmentInv' /\ issued' \in Seq(Variable) /\ Len(issued') = Len(issued)
         /\ issued'[v].used = u
         /\ \A w \in 1 .. Len(issued) : w # v => issued'[w] = issued[w]
<1>1. issued \in Seq(Variable) /\ Len(issued) \in Nat
  BY DEF UserType
<1>2. PICK r \in Variable :
        /\ issued' = [ issued EXCEPT ![v] = r ] /\ r.used = u
        /\ r.grade = issued[v].grade /\ r.amount = issued[v].amount /\ r.table = issued[v].table
  <2>1. issued[v] \in Variable
    BY <1>1
  <2>2. ASSUME issued' = [ issued EXCEPT ![v] = [ @ EXCEPT !.id = a, !.used = u ] ]
        PROVE  \E r \in Variable :
                 /\ issued' = [ issued EXCEPT ![v] = r ] /\ r.used = u
                 /\ r.grade = issued[v].grade /\ r.amount = issued[v].amount /\ r.table = issued[v].table
    <3>1. PICK r : r = [ issued[v] EXCEPT !.id = a, !.used = u ]
      OBVIOUS
    <3>2. /\ r \in Variable /\ r.used = u
          /\ r.grade = issued[v].grade /\ r.amount = issued[v].amount /\ r.table = issued[v].table
      BY <2>1, <3>1 DEF Variable
    <3>3. issued' = [ issued EXCEPT ![v] = r ]
      BY <2>2, <3>1
    <3>. QED
      BY <3>2, <3>3
  <2>3. ASSUME issued' = [ issued EXCEPT ![v].used = u ]
        PROVE  \E r \in Variable :
                 /\ issued' = [ issued EXCEPT ![v] = r ] /\ r.used = u
                 /\ r.grade = issued[v].grade /\ r.amount = issued[v].amount /\ r.table = issued[v].table
    <3>1. PICK r : r = [ issued[v] EXCEPT !.used = u ]
      OBVIOUS
    <3>2. /\ r \in Variable /\ r.used = u
          /\ r.grade = issued[v].grade /\ r.amount = issued[v].amount /\ r.table = issued[v].table
      BY <2>1, <3>1 DEF Variable
    <3>3. issued' = [ issued EXCEPT ![v] = r ]
      BY <2>3, <3>1
    <3>. QED
      BY <3>2, <3>3
  <2>. QED
    BY <2>2, <2>3
<1>3. /\ issued' \in Seq(Variable) /\ Len(issued') = Len(issued) /\ issued'[v] = r
      /\ \A w \in 1 .. Len(issued) :
           /\ w # v => issued'[w] = issued[w]
           /\ issued'[w].grade = issued[w].grade
           /\ issued'[w].amount = issued[w].amount /\ issued'[w].table = issued[w].table
  BY <1>1, <1>2, UsedChanged
<1>4. issued # << >>
  BY <1>1
<1>5. UNCHANGED << pc, tabs, segments_table, leftover >>
  BY DEF mallocVars
<1>6. SegmentInv'
  BY <1>1, <1>3, <1>4, <1>5, SegmentsOfFields
<1>. QED
  BY <1>2, <1>3, <1>6

(* What untouched variables rely on.  Freeing or scribbling over anything  *)
(* but their entries, and touching other variables, leaves them as they    *)
(* were.                                                                   *)
LEMMA OthersKeepEntries ==
  ASSUME IdentifiersNameEntries, UserType, NEW v \in 1 .. Len(issued),
         reading = Null, Untouched(v) \/ reused',
         \A w \in 1 .. Len(issued) : w # v => issued'[w] = issued[w],
         issued' \in Seq(Variable), Len(issued') = Len(issued),
         issued'[v].used # "no" \/ (reading' # Null /\ reading'.variable = v),
         entLive \ {issued[v].id} \subseteq entLive', ents' = ents,
         ~reused' => ~reused
  PROVE  IdentifiersNameEntries'
<1>1. DOMAIN issued = 1 .. Len(issued) /\ DOMAIN issued' = 1 .. Len(issued)
  BY DEF UserType
<1>2. CASE reused'
  BY <1>2 DEF IdentifiersNameEntries
<1>3. CASE ~reused'
  <2>1. \A w \in 1 .. Len(issued) : Untouched(w)' => w # v /\ Untouched(w)
    BY DEF Untouched
  <2>2. \A w \in 1 .. Len(issued) : Untouched(w)' =>
          issued'[w] = issued[w] /\ issued[w].id \in entLive'
    BY <1>1, <1>3, <2>1 DEF IdentifiersNameEntries
  <2>. QED
    BY <1>1, <1>3, <2>1, <2>2 DEF IdentifiersNameEntries
<1>. QED
  BY <1>2, <1>3
-----------------------------------------------------------------------------
(* A stop keeps all but the status. *)
LEMMA StopHereKeeps ==
  ASSUME HeapInv, NEW reason \in {"invalid_pointer", "null_deref", "overrun"}, StopHere(reason)
  PROVE  HeapInv'
<1>1. /\ status' # "ok"
      /\ UNCHANGED << pc, size, policy, remaining, segment_index, segments_table, tabs, orphans,
                      failed, sh_protected_table, TPM_ENABLED, errno, grade, ents, entLive,
                      reading, issued, leftover, reused >>
  BY DEF StopHere, Stop, heapVars
<1>2. TypeOK' /\ UserType'
  BY <1>1 DEF StopHere, Stop, HeapInv, TypeOK, UserType, TableType
<1>3. CallInv' /\ SegmentInv' /\ IdentifiersNameEntries'
  BY <1>1 DEF HeapInv, CallInv, SegmentInv, IdentifiersNameEntries, Untouched
<1>. QED
  BY <1>2, <1>3 DEF HeapInv

LEMMA HeapInit == Init => HeapInv
<1>. SUFFICES ASSUME Init PROVE HeapInv
  OBVIOUS
<1>1. TypeOK /\ MemoryInv
  BY TypeInit, MemoryInit DEF Init
<1>2. UserType
  <2>1. /\ sh_protected_table = Null /\ TPM_ENABLED = FALSE /\ errno = "none"
        /\ grade \in Grades /\ DOMAIN ents = EntryAddr /\ entLive = {}
        /\ reading = Null /\ issued = << >> /\ leftover = FALSE /\ reused = FALSE /\ pc = "idle"
    BY DEF Init, MallocInit, Grades, SH_PROTECT_HIGH
  <2>2. issued \in Seq(Variable) /\ Len(issued) = 0
    BY <2>1
  <2>3. TableType
    BY <2>1 DEF TableType
  <2>4. Len(issued) <= MaxVariables
    BY <2>2, HeapBoundsAssumption
  <2>5. TPM_ENABLED \in BOOLEAN /\ leftover \in BOOLEAN /\ reused \in BOOLEAN
    BY <2>1
  <2>. QED
    BY <2>1, <2>2, <2>3, <2>4, <2>5 DEF UserType
<1>3. CallInv /\ SegmentInv /\ IdentifiersNameEntries
  BY <1>1 DEF Init, MallocInit, CallInv, SegmentInv, IdentifiersNameEntries
<1>. QED
  BY <1>1, <1>2, <1>3 DEF HeapInv

LEMMA InitProtectionKeeps ==
  ASSUME HeapInv, NEW tpm \in BOOLEAN, sh_init_protection(tpm)
  PROVE  HeapInv'
<1>1. UNCHANGED << mallocVars, errno, grade, ents, entLive, reading, issued, leftover, reused >>
      /\ TPM_ENABLED' \in BOOLEAN
  BY DEF sh_init_protection
<1>2. TableType'
  BY DEF sh_init_protection, TableType
<1>3. TypeOK' /\ UserType'
  BY <1>1, <1>2 DEF HeapInv, TypeOK, UserType, mallocVars
<1>4. CallInv'
  BY <1>1, MemoryStep DEF HeapInv, CallInv, mallocVars
<1>5. SegmentInv' /\ IdentifiersNameEntries'
  BY <1>1 DEF HeapInv, SegmentInv, IdentifiersNameEntries, Untouched, mallocVars
<1>. QED
  BY <1>3, <1>4, <1>5 DEF HeapInv

(* A call that begins without an earlier call's table works on none of the *)
(* tables that variables have.                                             *)
LEMMA MallocKeeps ==
  ASSUME HeapInv, NEW sz \in Sizes, NEW g \in UserGrades, sh_malloc(sz, g)
  PROVE  HeapInv'
<1>. DEFINE row == sh_get_protection_policy(g)
<1>1. /\ Malloc(sz, row) /\ row \in Policies /\ row = sh_protection_policies[2]
      /\ pc = "idle" /\ status = "ok" /\ reading = Null /\ Len(issued) < MaxVariables
      /\ grade' = g /\ leftover' = (leftover \/ segments_table' \in TabAddr)
      /\ UNCHANGED << sh_protected_table, TPM_ENABLED, errno, ents, entLive, reading, issued, reused >>
  BY LookupAssumption, LookupReturnsMedium DEF sh_malloc, Idle
<1>. HIDE DEF row
<1>2. MallocNext
  BY <1>1 DEF MallocNext
<1>3. TypeOK' /\ MemoryInv'
  BY <1>1, <1>2, TypeStep, MemoryStep DEF HeapInv, CallInv
<1>4. g \in Grades /\ leftover' \in BOOLEAN
  BY <1>1, HeapBoundsAssumption
<1>5. UserType'
  BY <1>1, <1>4 DEF HeapInv, UserType, TableType
<1>6. policy' = row /\ tabs' = tabs /\ pc' \in {"grow", "single"}
  BY <1>1 DEF Malloc, Branch
<1>7. CallInv'
  BY <1>1, <1>3, <1>6 DEF CallInv
<1>8. ~leftover' => ~leftover /\ segments_table' \notin TabAddr
  BY <1>1, Zenon
<1>9. SegmentInv'
  BY <1>1, <1>6, <1>8 DEF HeapInv, SegmentInv, HasSegments
<1>10. IdentifiersNameEntries'
  BY <1>1 DEF HeapInv, IdentifiersNameEntries, Untouched
<1>. QED
  BY <1>3, <1>5, <1>7, <1>9, <1>10 DEF HeapInv

(* Between two steps of a call, the heap of tables changes only where no   *)
(* variable has its segments.                                              *)
LEMMA SegmentsUntouched ==
  ASSUME HeapInv, pc # "idle", pc' # "idle", UNCHANGED << issued, leftover >>,
         \A b \in TabAddr : b # segments_table /\ Len(tabs[b]) > 0 =>
           tabs'[b] = tabs[b] /\ b # segments_table'
  PROVE  SegmentInv'
<1>. SUFFICES ASSUME ~leftover', NEW v \in 1 .. Len(issued), issued[v].amount > 0
              PROVE  HasSegments(issued[v], tabs') /\ issued[v].table # segments_table'
  BY DEF HeapInv, SegmentInv, HasSegments
<1>1. HasSegments(issued[v], tabs) /\ issued[v].table # segments_table
  BY DEF HeapInv, SegmentInv
<1>2. issued[v].amount \in Nat
  <2>1. issued[v] \in Variable
    BY DEF HeapInv, UserType
  <2>. QED
    BY <2>1 DEF Variable
<1>3. issued[v].table \in TabAddr /\ Len(tabs[issued[v].table]) > 0
  <2>1. /\ issued[v].table \in TabAddr
        /\ issued[v].amount <= Len(tabs[issued[v].table])
    BY <1>1 DEF HasSegments
  <2>2. Len(tabs[issued[v].table]) \in Nat
    BY <2>1 DEF HeapInv, TypeOK
  <2>. QED
    BY <1>2, <2>1, <2>2
<1>4. tabs'[issued[v].table] = tabs[issued[v].table] /\ issued[v].table # segments_table'
  BY <1>1, <1>3
<1>. QED
  BY <1>1, <1>4 DEF HasSegments

LEMMA SegmentationKeeps == HeapInv /\ SegmentationStep => HeapInv'
<1>. SUFFICES ASSUME HeapInv, MallocStep, UNCHANGED heapVars PROVE HeapInv'
  BY DEF SegmentationStep
<1>1. /\ pc \in {"grow", "fill", "single"} /\ status = "ok" /\ pc' # "idle"
      /\ policy' = policy /\ policy = sh_protection_policies[2]
  BY DEF MallocStep, GrowTable, FillSegment, LeaveLoop, SingleBlock, Stop, HeapInv, CallInv
<1>2. TypeOK' /\ MemoryInv'
  BY <1>1, TypeStep, MemoryStep DEF HeapInv, CallInv, MallocNext
<1>3. UNCHANGED << sh_protected_table, TPM_ENABLED, errno, grade, ents, entLive, reading, issued, leftover, reused >>
  BY DEF heapVars
<1>4. UserType' /\ CallInv' /\ IdentifiersNameEntries'
  BY <1>1, <1>2, <1>3 DEF HeapInv, UserType, TableType, CallInv, IdentifiersNameEntries, Untouched
<1>5. Segmented /\ pc # "single"
  BY <1>1, MediumRow DEF HeapInv, CallInv, MemoryInv, TableInv, Segmented
<1>6. \A b \in TabAddr : b # segments_table /\ Len(tabs[b]) > 0 =>
        tabs'[b] = tabs[b] /\ b # segments_table'
  <2>1. CASE UNCHANGED << tabs, segments_table >>
    BY <2>1
  <2>2. ASSUME NEW a \in TabAddr, a = segments_table \/ ~Allocated(a), Reallocate(a)
        PROVE  \A b \in TabAddr : b # segments_table /\ Len(tabs[b]) > 0 =>
                 tabs'[b] = tabs[b] /\ b # segments_table'
    BY <2>2 DEF Allocated, Reallocate, TableMovedTo
  <2>3. ASSUME NEW fails,
               tabs' = [ tabs EXCEPT ![segments_table][segment_index + 1] =
                           Descriptor(policy.segment_size + cipher_changes, fails) ],
               segments_table' = segments_table
        PROVE  \A b \in TabAddr : b # segments_table /\ Len(tabs[b]) > 0 =>
                 tabs'[b] = tabs[b] /\ b # segments_table'
    <3>. DEFINE d == Descriptor(policy.segment_size + cipher_changes, fails)
                t == [ tabs[segments_table] EXCEPT ![segment_index + 1] = d ]
    <3>1. tabs' = [ tabs EXCEPT ![segments_table] = t ]
      BY <2>3
    <3>. HIDE DEF t
    <3>. QED
      BY <2>3, <3>1 DEF HeapInv, TypeOK
  <2>. QED
    BY <1>5, <2>1, <2>2, <2>3 DEF MallocStep, GrowTable, FillSegment, LeaveLoop, SingleBlock, Stop
<1>7. SegmentInv'
  BY <1>1, <1>3, <1>6, SegmentsUntouched
<1>. QED
  BY <1>2, <1>4, <1>7 DEF HeapInv

(* The entry that ends a call is one no identifier names, and the table it *)
(* records holds the segments just built.                                  *)
LEMMA AddEntryKeeps == HeapInv /\ sh_add_protection_entry => HeapInv'
<1>. SUFFICES ASSUME HeapInv, sh_add_protection_entry PROVE HeapInv'
  OBVIOUS
<1>1. pc = "done" /\ status = "ok"
  BY DEF sh_add_protection_entry
<1>2. CASE StopHere("null_deref") \/ StopHere("invalid_pointer")
  BY <1>2, StopHereKeeps
<1>3. ASSUME sh_protected_table # Null, sh_protected_table.entries # Wild,
             NEW a \in EntryAddr \ entLive, entLive' = entLive \union {a},
             ents' = [ ents EXCEPT ![a] = NewEntry ],
             issued' = Append(issued, [ id |-> a, grade |-> grade, size |-> size,
                  amount |-> segment_index, table |-> segments_table, used |-> "no" ]),
             NEW arr \in ReallocatedEntries,
             sh_protected_table' = [ sh_protected_table EXCEPT !.entries = arr ],
             Return, UNCHANGED << TPM_ENABLED, errno, grade, reading, leftover, reused >>
      PROVE  HeapInv'
  <2>. DEFINE r == [ id |-> a, grade |-> grade, size |-> size, amount |-> segment_index,
                     table |-> segments_table, used |-> "no" ]
              n == Len(issued)
  <2>1. /\ r \in Variable /\ r.id = a /\ r.grade = grade /\ r.amount = segment_index
        /\ r.table = segments_table /\ r.used = "no"
    BY DEF Variable, HeapInv, UserType, TypeOK
  <2>. HIDE DEF r
  <2>2. issued' = Append(issued, r)
    BY <1>3 DEF r
  <2>3. issued \in Seq(Variable) /\ n \in Nat
    BY DEF HeapInv, UserType
  <2>. HIDE DEF n
  <2>4. /\ issued' \in Seq(Variable) /\ Len(issued') = n + 1 /\ issued'[n + 1] = r
        /\ \A v \in 1 .. n : issued'[v] = issued[v]
    <3>. HIDE DEF Variable
    <3>. QED
      BY <2>1, <2>2, <2>3 DEF n
  <2>5. TypeOK' /\ MemoryInv'
    BY <1>1, <1>3, TypeStep, MemoryStep DEF HeapInv, CallInv, MallocNext
  <2>6. /\ pc' = "idle" /\ status' = "ok"
        /\ UNCHANGED << size, policy, segment_index, segments_table, tabs, failed >>
    BY <1>3 DEF Return
  <2>7. HasSegments(r, tabs)
    <3>1. policy = sh_protection_policies[2] /\ MemoryInv
      BY <1>1 DEF HeapInv, CallInv
    <3>2. ASSUME segment_index > 0
          PROVE  /\ segments_table \in TabAddr /\ segment_index <= Len(tabs[segments_table])
                 /\ \A i \in 1 .. segment_index : SlotBacked(i)
      BY <1>1, <3>1, <3>2 DEF MemoryInv, TableInv
    <3>3. \A i : SlotBacked(i) => tabs[segments_table][i] # Wild /\ tabs[segments_table][i].size = 10 + 16
      BY <3>1, MediumRow, CipherChanges DEF SlotBacked, Segmented
    <3>. QED
      BY <2>1, <3>2, <3>3 DEF HasSegments
  <2>8. TableType'
    <3>1. PICK m \in 0 .. MaxGarbage :
             \E p \in {Null, Wild} \union [ 1 .. m -> Pointers ] :
               sh_protected_table = [ amount |-> m, entries |-> p ]
      BY <1>3 DEF HeapInv, UserType, TableType
    <3>2. PICK p \in {Null, Wild} \union [ 1 .. m -> Pointers ] :
             sh_protected_table = [ amount |-> m, entries |-> p ]
      BY <3>1
    <3>3. arr \in {Null, Wild} \union [ 1 .. m -> Pointers ]
      BY <1>3, <3>2 DEF ReallocatedEntries
    <3>4. sh_protected_table' = [ amount |-> m, entries |-> arr ]
      BY <1>3, <3>2
    <3>. QED
      BY <3>3, <3>4 DEF TableType
  <2>9. n < MaxVariables
    BY <1>1 DEF HeapInv, UserType, n
  <2>10. DOMAIN ents' = EntryAddr /\ ents'[a] = NewEntry /\ \A b \in entLive : ents'[b] = ents[b]
    BY <1>3 DEF HeapInv, UserType
  <2>11. n + 1 <= MaxVariables
    BY <2>3, <2>9, HeapBoundsAssumption
  <2>12. reading' # Null => reading'.variable \in 1 .. n + 1
    BY <1>3, <2>3 DEF HeapInv, UserType, n
  <2>13. UserType'
    BY <1>3, <2>4, <2>6, <2>8, <2>10, <2>11, <2>12 DEF HeapInv, UserType
  <2>14. CallInv'
    BY <2>5, <2>6 DEF CallInv
  <2>15. SegmentInv'
    <3>1. Len(issued') = n + 1 /\ leftover' = leftover
      BY <1>3, <2>4
    <3>2. ASSUME ~leftover, NEW v \in 1 .. n
          PROVE  /\ HasSegments(issued[v], tabs)
                 /\ issued[v].amount > 0 => issued[v].table # segments_table
                 /\ \A w \in 1 .. n : v # w /\ issued[v].amount > 0 /\ issued[w].amount > 0
                      => issued[v].table # issued[w].table
      BY <1>1, <3>2 DEF HeapInv, SegmentInv, n
    <3>3. \A v \in 1 .. n + 1 : v \in 1 .. n \/ v = n + 1
      BY <2>3
    <3>. QED
      BY <2>1, <2>3, <2>4, <2>6, <2>7, <3>1, <3>2, <3>3 DEF SegmentInv
  <2>16. IdentifiersNameEntries'
    <3>1. DOMAIN issued = 1 .. n /\ DOMAIN issued' = 1 .. n + 1
      BY <2>3, <2>4 DEF n
    <3>2. \A w \in 1 .. n + 1 : w \in 1 .. n \/ w = n + 1
      BY <2>3
    <3>3. \A w \in 1 .. n : Untouched(w)' => Untouched(w)
      BY <1>3, <2>4 DEF Untouched
    <3>4. reused' = reused
      BY <1>3
    <3>. SUFFICES ASSUME ~reused, NEW v \in 1 .. n + 1, Untouched(v)'
                  PROVE  LET e == ents'[issued'[v].id]
                         IN  /\ issued'[v].id \in entLive'
                             /\ e.protection = issued'[v].grade
                             /\ e.segment_amount = issued'[v].amount
                             /\ e.segments_table = issued'[v].table
                             /\ \A w \in 1 .. n + 1 :
                                  Untouched(w)' /\ issued'[w].id = issued'[v].id => w = v
      BY <3>1, <3>4 DEF IdentifiersNameEntries
    <3>5. \A w \in 1 .. n : Untouched(w) =>
            LET e == ents[issued[w].id]
            IN  /\ issued[w].id \in entLive
                /\ e.protection = issued[w].grade
                /\ e.segment_amount = issued[w].amount
                /\ e.segments_table = issued[w].table
                /\ \A x \in 1 .. n : Untouched(x) /\ issued[x].id = issued[w].id => x = w
      BY <3>1 DEF HeapInv, IdentifiersNameEntries
    <3>6. CASE v = n + 1
      <4>1. /\ issued'[v].id = a /\ a \in entLive'
            /\ \A w \in 1 .. n : Untouched(w)' => issued'[w].id # a
        BY <1>3, <2>1, <2>4, <3>3, <3>5, <3>6
      <4>2. /\ NewEntry.protection = grade /\ NewEntry.segment_amount = segment_index
            /\ NewEntry.segments_table = segments_table
        BY DEF NewEntry
      <4>. QED
        BY <2>1, <2>4, <2>10, <3>2, <3>6, <4>1, <4>2
    <3>7. CASE v \in 1 .. n
      <4>1. issued'[v] = issued[v] /\ issued[v].id \in entLive /\ issued[v].id # a
        BY <1>3, <2>4, <3>3, <3>5, <3>7
      <4>2. ents'[issued[v].id] = ents[issued[v].id] /\ issued[v].id \in entLive'
        BY <1>3, <2>10, <4>1
      <4>. QED
        BY <2>1, <2>4, <3>2, <3>3, <3>5, <3>7, <4>1, <4>2
    <3>. QED
      BY <3>2, <3>6, <3>7
  <2>. QED
    BY <2>5, <2>13, <2>14, <2>15, <2>16 DEF HeapInv
<1>. QED
  BY <1>2, <1>3 DEF sh_add_protection_entry

(* The lookup returns a pointer; in an array that is there, the first of   *)
(* its slots that is not null.                                             *)
LEMMA LookupType == ASSUME UserType, NEW b PROVE sh_get_protected_entry(b) \subseteq Pointers
<1>. DEFINE t == sh_protected_table
            hits == { e \in 1 .. t.amount : t.entries[e] # Null }
            first == CHOOSE e \in hits : \A f \in hits : e <= f
<1>1. CASE t = Null \/ (t.amount > 0 /\ t.entries \in {Null, Wild}) \/ t.amount = 0 \/ hits = {}
  BY <1>1 DEF sh_get_protected_entry, Pointers
<1>2. CASE /\ t # Null /\ ~(t.amount > 0 /\ t.entries \in {Null, Wild})
           /\ t.amount # 0 /\ hits # {}
  <2>1. PICK n \in 0 .. MaxGarbage :
           \E p \in {Null, Wild} \union [ 1 .. n -> Pointers ] : t = [ amount |-> n, entries |-> p ]
    BY <1>2 DEF UserType, TableType
  <2>2. /\ t.amount \in Nat /\ t.amount > 0
        /\ t.entries \in [ 1 .. t.amount -> Pointers ]
    BY <1>2, <2>1, HeapBoundsAssumption
  <2>3. hits \subseteq 1 .. t.amount /\ hits \subseteq Nat
    BY <2>2
  <2>. HIDE DEF hits
  <2>. DEFINE R == { ss \in Nat \X Nat : ss[1] < ss[2] }
  <2>4. IsWellFoundedOn(R, Nat)
    BY NatLessThanWellFounded DEF OpToRel
  <2>. HIDE DEF R
  <2>5. \E e \in hits : \A f \in hits : ~(<< f, e >> \in R)
    <3>1. hits # {} /\ hits \subseteq Nat
      BY <1>2, <2>3
    <3>. QED
      BY <2>4, <3>1, WFMin, Zenon
  <2>6. \E e \in hits : \A f \in hits : e <= f
    <3>1. \A f, g \in Nat : f < g => << f, g >> \in R
      BY DEF R
    <3>2. PICK e \in hits : \A f \in hits : ~(<< f, e >> \in R)
      BY <2>5
    <3>3. ASSUME NEW f \in hits PROVE e <= f
      <4>1. e \in Nat /\ f \in Nat /\ ~(f < e)
        BY <2>3, <3>1, <3>2
      <4>. QED
        BY <4>1
    <3>. QED
      BY <3>3
  <2>7. first \in hits
    BY <2>6
  <2>8. t.entries[first] \in Pointers
    <3>. HIDE DEF first
    <3>. QED
      BY <2>2, <2>3, <2>7
  <2>9. sh_get_protected_entry(b) = { t.entries[first] }
    BY <1>2 DEF sh_get_protected_entry, hits
  <2>. QED
    BY <2>8, <2>9
<1>. QED
  BY <1>1, <1>2

(* The result of a boolean history is a boolean.                           *)
LEMMA ReusedType ==
  ASSUME UserType, NEW v, reused' = (reused \/ issued[v].used = "read")
  PROVE  reused' \in BOOLEAN
<1>1. reused \in BOOLEAN
  BY DEF UserType
<1>. QED
  BY <1>1, Zenon

(* A variable that has been used is no longer among the untouched ones.    *)
LEMMA ResetKeeps == ASSUME HeapInv, NEW v \in 1 .. Len(issued), sh_reset(v) PROVE HeapInv'
<1>1. CASE StopHere("null_deref") \/ StopHere("invalid_pointer")
  BY <1>1, StopHereKeeps
<1>2. ASSUME NEW entry, Reset(issued[v].id, entry), Idle, issued[v].used # "reset",
             issued' = [ issued EXCEPT ![v].used = "reset" ],
             reused' = (reused \/ issued[v].used = "read"),
             UNCHANGED << mallocVars, sh_protected_table, TPM_ENABLED, grade, ents, reading, leftover >>
      PROVE  HeapInv'
  <2>1. PICK a \in EntryAddr : a = issued[v].id
    <3>1. issued[v] \in Variable
      BY DEF HeapInv, UserType
    <3>. QED
      BY <3>1 DEF Variable
  <2>2. /\ SegmentInv' /\ issued' \in Seq(Variable) /\ Len(issued') = Len(issued)
        /\ issued'[v].used = "reset"
        /\ \A w \in 1 .. Len(issued) : w # v => issued'[w] = issued[w]
    BY <1>2, SegmentsOfUsed DEF HeapInv
  <2>3. entLive' \subseteq EntryAddr /\ errno' \in {"none", "EINVAL"}
    BY <1>2 DEF Reset, HeapInv, UserType
  <2>4. TypeOK' /\ CallInv'
    BY <1>2, MemoryStep DEF HeapInv, CallInv, TypeOK, mallocVars
  <2>5. reused' \in BOOLEAN
    BY <1>2, ReusedType DEF HeapInv
  <2>6. UserType'
    BY <1>2, <2>2, <2>3, <2>5 DEF HeapInv, UserType, TableType, mallocVars
  <2>7. (Untouched(v) \/ reused') /\ (~reused' => ~reused)
    <3>1. issued[v].used \in {"no", "read", "reset"}
      <4>1. issued[v] \in Variable
        BY DEF HeapInv, UserType
      <4>. QED
        BY <4>1 DEF Variable
    <3>. QED
      BY <1>2, <3>1, Zenon DEF Untouched, Idle
  <2>8. IdentifiersNameEntries'
    BY <1>2, <2>2, <2>7, OthersKeepEntries DEF HeapInv, Reset, Idle
  <2>. QED
    BY <2>2, <2>4, <2>6, <2>8 DEF HeapInv
<1>. QED
  BY <1>1, <1>2 DEF sh_reset, ResetStops

LEMMA ReadKeeps == ASSUME HeapInv, NEW v \in 1 .. Len(issued), sh_read(v) PROVE HeapInv'
<1>1. CASE StopHere("null_deref") \/ StopHere("invalid_pointer")
  BY <1>1, StopHereKeeps
<1>2. ASSUME NEW mine \in sh_get_protected_entry(issued[v].id), NEW theirs,
             Idle, issued[v].used # "reset",
             Reset(issued[v].id, theirs), reading' = [ variable |-> v, entry |-> mine ],
             reused' = (reused \/ issued[v].used = "read"),
             UNCHANGED << mallocVars, sh_protected_table, TPM_ENABLED, grade, ents, issued, leftover >>
      PROVE  HeapInv'
  <2>1. reading' # Null /\ reading'.variable = v
    <3>1. mine \in Pointers
      BY LookupType DEF HeapInv
    <3>2. reading' \in [ variable : Nat, entry : Pointers ]
      BY <1>2, <3>1 DEF HeapInv, UserType
    <3>. QED
      BY <1>2, <3>2, LocalsAssumption
  <2>2. entLive' \subseteq EntryAddr /\ errno' \in {"none", "EINVAL"}
    BY <1>2 DEF Reset, HeapInv, UserType
  <2>3. TypeOK' /\ CallInv'
    BY <1>2, MemoryStep DEF HeapInv, CallInv, TypeOK, mallocVars
  <2>4. reused' \in BOOLEAN
    BY <1>2, ReusedType DEF HeapInv
  <2>5. UserType'
    BY <1>2, <2>1, <2>2, <2>4 DEF HeapInv, UserType, TableType, mallocVars
  <2>6. SegmentInv'
    BY <1>2 DEF HeapInv, SegmentInv, mallocVars
  <2>7. (Untouched(v) \/ reused') /\ (~reused' => ~reused)
    <3>1. issued[v].used \in {"no", "read", "reset"}
      <4>1. issued[v] \in Variable
        BY DEF HeapInv, UserType
      <4>. QED
        BY <4>1 DEF Variable
    <3>. QED
      BY <1>2, <3>1, Zenon DEF Untouched, Idle
  <2>8. issued' \in Seq(Variable) /\ Len(issued') = Len(issued)
    BY <1>2 DEF HeapInv, UserType
  <2>9. IdentifiersNameEntries'
    BY <1>2, <2>1, <2>7, <2>8, OthersKeepEntries DEF HeapInv, Reset, Idle
  <2>. QED
    BY <2>3, <2>5, <2>6, <2>9 DEF HeapInv
<1>. QED
  BY <1>1, <1>2 DEF sh_read, ResetStops

(* When a read ends, its variable is touched, and what it wrote to or took *)
(* was no entry of an untouched one.                                       *)
LEMMA ReadEndsKeepsEntries ==
  ASSUME IdentifiersNameEntries, UserType, reading # Null, reading' = Null,
         issued' \in Seq(Variable), Len(issued') = Len(issued),
         issued'[reading.variable].used # "no",
         \A w \in 1 .. Len(issued) : w # reading.variable => issued'[w] = issued[w],
         entLive \subseteq entLive', \A a \in entLive : ents'[a] = ents[a],
         reused' = reused
  PROVE  IdentifiersNameEntries'
<1>1. DOMAIN issued = 1 .. Len(issued) /\ DOMAIN issued' = 1 .. Len(issued)
  BY DEF UserType
<1>2. CASE reused'
  BY <1>2 DEF IdentifiersNameEntries
<1>3. CASE ~reused'
  <2>1. \A w \in 1 .. Len(issued) : Untouched(w)' => Untouched(w) /\ issued'[w] = issued[w]
    BY DEF Untouched
  <2>2. ~reused
    BY <1>3
  <2>3. \A w \in 1 .. Len(issued) : Untouched(w)' =>
          issued[w].id \in entLive' /\ ents'[issued[w].id] = ents[issued[w].id]
    BY <1>1, <2>1, <2>2 DEF IdentifiersNameEntries
  <2>. QED
    BY <1>1, <2>1, <2>2, <2>3 DEF IdentifiersNameEntries
<1>. QED
  BY <1>2, <1>3

LEMMA FinishReadKeeps == HeapInv /\ FinishRead => HeapInv'
<1>. SUFFICES ASSUME HeapInv, FinishRead PROVE HeapInv'
  OBVIOUS
<1>. DEFINE v == reading.variable
<1>1. CASE StopHere("null_deref") \/ StopHere("invalid_pointer") \/ StopHere("overrun")
  BY <1>1, StopHereKeeps
<1>2. /\ reading # Null /\ v \in 1 .. Len(issued)
  BY DEF FinishRead, HeapInv, UserType
<1>3. ASSUME SegmentInv', issued' \in Seq(Variable), Len(issued') = Len(issued),
             issued'[v].used = "read",
             \A w \in 1 .. Len(issued) : w # v => issued'[w] = issued[w],
             reading' = Null, entLive \subseteq entLive', entLive' \subseteq EntryAddr,
             DOMAIN ents' = EntryAddr, \A a \in entLive : ents'[a] = ents[a],
             UNCHANGED << mallocVars, sh_protected_table, TPM_ENABLED, errno, grade, leftover, reused >>
      PROVE  HeapInv'
  <2>. HIDE DEF v
  <2>1. TypeOK' /\ CallInv'
    BY <1>3, MemoryStep DEF HeapInv, CallInv, TypeOK, mallocVars
  <2>2. UserType'
    BY <1>3 DEF HeapInv, UserType, TableType, mallocVars
  <2>3. IdentifiersNameEntries'
    BY <1>2, <1>3, ReadEndsKeepsEntries DEF HeapInv, v
  <2>. QED
    BY <1>3, <2>1, <2>2, <2>3 DEF HeapInv
<1>4. ASSUME NEW a \in EntryAddr \ entLive, Gather(a), reading' = Null,
             UNCHANGED << mallocVars, sh_protected_table, TPM_ENABLED, errno, grade, leftover, reused >>
      PROVE  HeapInv'
  <2>1. /\ SegmentInv' /\ issued' \in Seq(Variable) /\ Len(issued') = Len(issued)
        /\ issued'[v].used = "read"
        /\ \A w \in 1 .. Len(issued) : w # v => issued'[w] = issued[w]
    BY <1>2, <1>4, SegmentsOfUsed DEF HeapInv, Gather
  <2>2. entLive \subseteq entLive' /\ entLive' \subseteq EntryAddr
    BY <1>4 DEF Gather, HeapInv, UserType
  <2>3. PICK e : ents' = [ ents EXCEPT ![a] = e ]
    BY <1>4 DEF Gather
  <2>4. DOMAIN ents' = EntryAddr /\ \A b \in entLive : ents'[b] = ents[b]
    BY <2>3 DEF HeapInv, UserType
  <2>. HIDE DEF v
  <2>. QED
    BY <1>3, <1>4, <2>1, <2>2, <2>4
<1>5. CASE /\ issued' = [ issued EXCEPT ![v].used = "read" ]
           /\ reading' = Null
           /\ UNCHANGED << mallocVars, sh_protected_table, TPM_ENABLED, errno, grade, ents,
                           entLive, leftover, reused >>
  <2>1. PICK a \in EntryAddr : TRUE
    <3>1. issued[v] \in Variable
      BY <1>2 DEF HeapInv, UserType
    <3>. QED
      BY <3>1 DEF Variable
  <2>2. /\ SegmentInv' /\ issued' \in Seq(Variable) /\ Len(issued') = Len(issued)
        /\ issued'[v].used = "read"
        /\ \A w \in 1 .. Len(issued) : w # v => issued'[w] = issued[w]
    BY <1>2, <1>5, <2>1, SegmentsOfUsed DEF HeapInv
  <2>3. entLive' \subseteq EntryAddr /\ DOMAIN ents' = EntryAddr
    BY <1>5 DEF HeapInv, UserType
  <2>. HIDE DEF v
  <2>. QED
    BY <1>3, <1>5, <2>2, <2>3
<1>. QED
  BY <1>1, <1>4, <1>5 DEF FinishRead

LEMMA HeapStep == HeapInv /\ [Next]_vars => HeapInv'
<1>. SUFFICES ASSUME HeapInv, [Next]_vars PROVE HeapInv'
  OBVIOUS
<1>1. CASE UNCHANGED vars
  BY <1>1, MemoryStep
  DEF vars, heapVars, mallocVars, HeapInv, TypeOK, UserType, TableType, CallInv, SegmentInv,
      IdentifiersNameEntries, Untouched
<1>. QED
  BY <1>1, InitProtectionKeeps, MallocKeeps, SegmentationKeeps, AddEntryKeeps, ResetKeeps,
     ReadKeeps, FinishReadKeeps
  DEF Next

LEMMA HeapInvHolds == Spec => []HeapInv
BY HeapInit, HeapStep, PTL DEF Spec
-----------------------------------------------------------------------------
(* Every value stays in its range, the uninitialised ones included, and    *)
(* the user never holds more variables than sh_malloc calls were made.     *)
THEOREM HeapTypeCorrect == Spec => []HeapTypeOK
<1>1. HeapInv => HeapTypeOK
  <2>. SUFFICES ASSUME HeapInv, sh_protected_table # Null
                PROVE  /\ sh_protected_table.amount \in 0 .. MaxGarbage
                       /\ sh_protected_table.entries
                            \in {Null, Wild} \union [ 1 .. sh_protected_table.amount -> Pointers ]
    BY DEF HeapTypeOK, HeapInv, UserType
  <2>1. PICK n \in 0 .. MaxGarbage :
           \E p \in {Null, Wild} \union [ 1 .. n -> Pointers ] :
             sh_protected_table = [ amount |-> n, entries |-> p ]
    BY DEF HeapInv, UserType, TableType
  <2>. QED
    BY <2>1
<1>. QED
  BY <1>1, HeapInvHolds, PTL

(* src/sh_protect.c lines 44-58, src/sh_io.c lines 9-45: whatever is read  *)
(* and reset, identifiers of untouched variables name entries of their     *)
(* own, which record what was built, until a pointer that sh_read returned *)
(* is used.                                                                *)
THEOREM IdentifiersHold == Spec => []IdentifiersNameEntries
<1>1. HeapInv => IdentifiersNameEntries
  BY DEF HeapInv
<1>. QED
  BY <1>1, HeapInvHolds, PTL

(* src/sh_malloc.c lines 32 and 43: the latest variable has all its        *)
(* segments, whatever the uninitialised local was.                         *)
THEOREM LatestIsWhole == Spec => []LatestKeepsSegments
<1>1. HeapInv => LatestKeepsSegments
  BY IntactIffHas DEF HeapInv, SegmentInv, LatestKeepsSegments
<1>. QED
  BY <1>1, HeapInvHolds, PTL

(* src/sh_malloc.c lines 32 and 43: without a table taken over, every      *)
(* variable keeps its segments in a table of its own.                      *)
THEOREM CleanStackSuffices == Spec => []CleanStackKeepsSegments
<1>1. HeapInv => CleanStackKeepsSegments
  <2>1. HeapInv => DOMAIN issued = 1 .. Len(issued)
    BY DEF HeapInv, UserType
  <2>. QED
    BY <2>1, IntactIffHas DEF HeapInv, SegmentInv, CleanStackKeepsSegments
<1>. QED
  BY <1>1, HeapInvHolds, PTL
-----------------------------------------------------------------------------
(***************************************************************************)
(* What sh_malloc's body promises, promised by the library as a whole.     *)
(***************************************************************************)

(* The count of the call in progress or last made. *)
BodyInv == CountInv /\ SegmentsCoverRequest

(* A step of the library is one of sh_malloc's body, or leaves the body's  *)
(* state alone, but for the status when the process stops.                 *)
LEMMA BodySteps ==
  ASSUME [Next]_vars
  PROVE  \/ [MallocNext]_mallocVars
         \/ /\ status' # "ok"
            /\ UNCHANGED << pc, size, policy, remaining, segment_index, segments_table, tabs,
                            orphans, failed >>
<1>1. ASSUME NEW reason \in {"null_deref", "invalid_pointer", "overrun"}, StopHere(reason)
      PROVE  /\ status' # "ok"
             /\ UNCHANGED << pc, size, policy, remaining, segment_index, segments_table, tabs,
                             orphans, failed >>
  BY <1>1 DEF StopHere, Stop
<1>2. CASE UNCHANGED mallocVars
  BY <1>2
<1>3. ASSUME NEW sz \in Sizes, NEW g \in UserGrades, sh_malloc(sz, g) PROVE MallocNext
  BY <1>3, LookupAssumption DEF sh_malloc, MallocNext
<1>4. CASE SegmentationStep
  BY <1>4 DEF SegmentationStep, MallocNext
<1>5. CASE sh_add_protection_entry
  BY <1>1, <1>5 DEF sh_add_protection_entry, MallocNext
<1>6. ASSUME NEW v, sh_reset(v) \/ sh_read(v)
      PROVE  \/ UNCHANGED mallocVars
             \/ \E reason \in {"null_deref", "invalid_pointer"} : StopHere(reason)
  BY <1>6 DEF sh_reset, sh_read, ResetStops
<1>7. CASE FinishRead
  BY <1>1, <1>7 DEF FinishRead
<1>8. CASE \E tpm \in BOOLEAN : sh_init_protection(tpm)
  BY <1>8 DEF sh_init_protection
<1>. QED
  BY <1>1, <1>2, <1>3, <1>4, <1>5, <1>6, <1>7, <1>8 DEF Next, vars

LEMMA BodyKeeps == ASSUME HeapInv, HeapInv', BodyInv, [Next]_vars PROVE BodyInv'
<1>1. CASE [MallocNext]_mallocVars
  BY <1>1, CountStep DEF HeapInv, BodyInv
<1>2. CASE UNCHANGED << pc, size, policy, remaining, segment_index, segments_table, tabs, orphans, failed >>
  BY <1>2 DEF BodyInv, CountInv, SegmentsCoverRequest, Segmented
<1>. QED
  BY <1>1, <1>2, BodySteps

LEMMA BodyInvHolds == Spec => []BodyInv
<1>1. Init => BodyInv
  BY CountInit DEF Init, BodyInv
<1>2. HeapInv /\ HeapInv' /\ BodyInv /\ [Next]_vars => BodyInv'
  BY BodyKeeps
<1>. QED
  BY <1>1, <1>2, HeapInvHolds, PTL DEF Spec

(* src/sh_malloc.c line 26: as long as the process runs, the library takes *)
(* no step of sh_malloc's body that the body on its own would not take.    *)
THEOREM HeapRunsMalloc == Spec => [][ [MallocNext]_mallocVars \/ status' # "ok" ]_vars
<1>1. [Next]_vars => [ [MallocNext]_mallocVars \/ status' # "ok" ]_vars
  BY BodySteps
<1>. QED
  BY <1>1, PTL DEF Spec

(* src/sh_malloc.c lines 40-62, called with whatever the stack holds: a    *)
(* finished call has enough segments, and none in vain.                    *)
THEOREM HeapCallsCover == Spec => []SegmentsCoverRequest
<1>1. BodyInv => SegmentsCoverRequest
  BY DEF BodyInv
<1>. QED
  BY <1>1, BodyInvHolds, PTL
=============================================================================
