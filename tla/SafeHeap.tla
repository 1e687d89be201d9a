------------------------------ MODULE SafeHeap ------------------------------
(***************************************************************************)
(* The user interface of the library on top of sh_malloc's body: the       *)
(* protected memory table (src/sh_protect.c), the identifiers handed to    *)
(* the user, and sh_reset, sh_read and sh_write (src/sh_io.c).             *)
(*                                                                         *)
(* A variable of the user is what one sh_malloc call returned.  Its        *)
(* identifier is the address of the entry struct itself, since sh_malloc   *)
(* returns the address of the struct's first member.  The library never    *)
(* stores that address anywhere, so what a lookup returns is read from     *)
(* memory nobody wrote or from a return register nobody set.               *)
(***************************************************************************)
EXTENDS ShMalloc

CONSTANTS
  EntryAddr,     \* heap addresses an entry struct can be placed at (a bound)
  MaxVariables,  \* how many sh_malloc calls the user makes (a bound)
  UserGrades,    \* the grades the user passes to sh_malloc (a bound)
  MaxGarbage     \* the largest value read from the uninitialised table->amount (a bound)

ASSUME EntryAddrAssumption ==
  EntryAddr \intersect (TabAddr \union {Null, Wild}) = {}

ASSUME HeapBoundsAssumption == MaxVariables \in Nat /\ MaxGarbage \in Nat /\ UserGrades \subseteq Grades

ASSUME LookupAssumption == \A g \in UserGrades : sh_get_protection_policy(g) \in Policies

VARIABLES
  sh_protected_table, \* Null, or the struct: its amount and its entries array
  TPM_ENABLED,
  errno,              \* "none" or "EINVAL", the one value the library itself stores
  grade,              \* the protection argument of the call in progress
  ents,               \* the heap: address -> last contents of the entry there
  entLive,            \* the entry addresses that are allocated
  reading,            \* Null, or the locals of sh_read after its sh_reset call
  issued,             \* the user's variables, in the order they were allocated:
                      \* what each call returned, asked for and built, and how
                      \* the user has used it ("no", "read", "reset")
  leftover,           \* history: some call began with an earlier call's table
  reused              \* history: a pointer that sh_read returned was used

heapVars == << sh_protected_table, TPM_ENABLED, errno, grade, ents, entLive,
               reading, issued, leftover, reused >>
vars == << mallocVars, heapVars >>

Pointers == EntryAddr \union {Null, Wild}

(* Pointers are no structs. *)
ASSUME LocalsAssumption == Null \notin [ variable : Nat, entry : Pointers ]

NoEntry  == [ shared_buffer |-> Null, protection |-> SH_PROTECT_HIGH,
              segment_amount |-> 0, segments_table |-> Null ]

(* What strcat may leave where an entry was, as far as the code looks at it. *)
Scribbled ==
  { [ NoEntry EXCEPT !.shared_buffer = Wild, !.segment_amount = n, !.segments_table = Wild ] :
      n \in 0 .. MaxGarbage }

Idle == pc = "idle" /\ status = "ok" /\ reading = Null

(* The process ends in one of the functions of this module. *)
StopHere(reason) == Stop(reason) /\ UNCHANGED << failed, heapVars >>

Init ==
  /\ MallocInit
  /\ sh_protected_table = Null /\ TPM_ENABLED = FALSE /\ errno = "none"
  /\ grade = SH_PROTECT_HIGH
  /\ ents = [ a \in EntryAddr |-> NoEntry ] /\ entLive = {}
  /\ reading = Null /\ issued = << >> /\ leftover = FALSE /\ reused = FALSE

(* sh_tpm_available has no return statement: its result is arbitrary.  The *)
(* table struct is not initialised; a second call replaces the first table.*)
sh_init_protection(tpm_enabled) ==
  /\ Idle
  /\ \E available \in BOOLEAN : TPM_ENABLED' = (tpm_enabled /\ available)
  /\ \/ \E n \in 0 .. MaxGarbage, p \in {Null, Wild} :
          sh_protected_table' = [ amount |-> n, entries |-> p ]
     \/ "init" \in MayFail /\ sh_protected_table' = Null
  /\ UNCHANGED << mallocVars, errno, grade, ents, entLive, reading, issued, leftover, reused >>

sh_malloc(sz, protection) ==
  /\ Idle /\ Len(issued) < MaxVariables
  /\ \E a \in EntryAddr : a \notin entLive
  /\ Malloc(sz, sh_get_protection_policy(protection))
  /\ grade' = protection
  /\ leftover' = (leftover \/ segments_table' \in TabAddr)
  /\ UNCHANGED << sh_protected_table, TPM_ENABLED, errno, ents, entLive, reading, issued, reused >>

SegmentationStep == MallocStep /\ UNCHANGED heapVars

(* Mutant: the array is taken to hold the new entry already. *)
OneEntryMore ==
  LET t == sh_protected_table
  IN  IF t.entries = Null THEN [ 1 .. t.amount + 1 -> Pointers ] ELSE { t.entries }

(* The entries array after realloc: slots that were never written hold     *)
(* whatever the memory held; a failed realloc returns the old address.     *)
ReallocatedEntries ==
  LET t == sh_protected_table
  IN  (IF t.entries = Null THEN [ 1 .. t.amount -> Pointers ] ELSE { t.entries })
        \union (IF "entries" \in MayFail THEN { t.entries } ELSE {})

(* The four assignments to a new entry. *)
NewEntry ==
  [ shared_buffer |-> Null, protection |-> grade, segment_amount |-> segment_index,
    segments_table |-> segments_table ]

(* The end of sh_malloc.  The entry is filled in, the array is resized,    *)
(* and neither the array nor amount is told about the entry.               *)
sh_add_protection_entry ==
  /\ pc = "done" /\ status = "ok"
  /\ \/ /\ "entry" \in MayFail
        /\ StopHere("null_deref")
     \/ /\ sh_protected_table = Null
        /\ StopHere("null_deref")
     \/ /\ sh_protected_table # Null /\ sh_protected_table.entries = Wild
        /\ StopHere("invalid_pointer")
     \/ /\ sh_protected_table # Null /\ sh_protected_table.entries # Wild
        /\ \E a \in EntryAddr \ entLive :
             /\ entLive' = entLive \union {a}
             /\ ents' = [ ents EXCEPT ![a] = NewEntry ]
             /\ issued' = Append(issued, [ id |-> a, grade |-> grade, size |-> size,
                  amount |-> segment_index, table |-> segments_table, used |-> "no" ])
        /\ \E arr \in ReallocatedEntries :
             sh_protected_table' = [ sh_protected_table EXCEPT !.entries = arr ]
        /\ Return
        /\ UNCHANGED << TPM_ENABLED, errno, grade, reading, leftover, reused >>

(* What the lookup may return for any buffer at all: the first non-null    *)
(* slot below amount, or an unset return value when there is none.  A walk *)
(* through a table or array that is not there traps, like its result.      *)
sh_get_protected_entry(buffer) ==
  LET t == sh_protected_table
      hits == { e \in 1 .. t.amount : t.entries[e] # Null }
  IN  IF t = Null \/ (t.amount > 0 /\ t.entries \in {Null, Wild})
      THEN {Wild}
      ELSE IF t.amount = 0 \/ hits = {}
           THEN Pointers
           ELSE { t.entries[CHOOSE e \in hits : \A f \in hits : e <= f] }

(* Mutant: what is freed is the entry that the lookup returned. *)
ResetFreesEntry(buffer, entry) ==
  /\ buffer \in entLive
  /\ entLive' = entLive \ {entry}
  /\ errno' = IF ents[entry].shared_buffer # buffer THEN "EINVAL" ELSE errno

(* sh_reset on buffer, given the entry its lookup returned.                *)
Reset(buffer, entry) ==
  /\ buffer \in entLive
  /\ entLive' = entLive \ {buffer}
  /\ errno' = IF ents[entry].shared_buffer # buffer THEN "EINVAL" ELSE errno

(* A null or wild lookup result traps; free aborts on a dead pointer.      *)
ResetStops(buffer, entry) ==
  \/ entry \notin EntryAddr /\ StopHere("null_deref")
  \/ entry \in EntryAddr /\ buffer \notin entLive /\ StopHere("invalid_pointer")

(* The user does not touch a variable again after its sh_reset; after a    *)
(* sh_read the user goes on with the pointer it returned.                  *)
sh_reset(v) ==
  /\ Idle /\ issued[v].used # "reset"
  /\ \E entry \in sh_get_protected_entry(issued[v].id) :
       \/ ResetStops(issued[v].id, entry)
       \/ /\ entry \in EntryAddr
          /\ Reset(issued[v].id, entry)
          /\ issued' = [ issued EXCEPT ![v].used = "reset" ]
          /\ reused' = (reused \/ issued[v].used = "read")
          /\ UNCHANGED << mallocVars, sh_protected_table, TPM_ENABLED, grade, ents,
                          reading, leftover >>

(* sh_read up to its sh_reset call; two lookups, two arbitrary results.    *)
sh_read(v) ==
  /\ Idle /\ issued[v].used # "reset"
  /\ \E mine, theirs \in sh_get_protected_entry(issued[v].id) :
       \/ ResetStops(issued[v].id, theirs)
       \/ /\ theirs \in EntryAddr
          /\ Reset(issued[v].id, theirs)
          /\ reading' = [ variable |-> v, entry |-> mine ]
          /\ reused' = (reused \/ issued[v].used = "read")
          /\ UNCHANGED << mallocVars, sh_protected_table, TPM_ENABLED, grade, ents,
                          issued, leftover >>

(* The segments that the entry e records can be read: its table is in the  *)
(* heap, and each of its slots leads to a block.                           *)
Gatherable(e) ==
  /\ e.segments_table \in TabAddr
  /\ e.segment_amount <= Len(tabs[e.segments_table])
  /\ \A i \in 1 .. e.segment_amount :
       LET d == tabs[e.segments_table][i] IN d # Wild /\ d.block # Null

(* The gathering loop, when nobody notices that the buffer given to        *)
(* realloc has just been freed: the block is handed out where it was, and  *)
(* stays in the allocator's list of free blocks, or at another address a.  *)
(* strcat appends the segments to whatever the block holds.                *)
Gather(a) ==
  LET v == reading.variable
  IN  /\ entLive' = IF a = issued[v].id THEN entLive ELSE entLive \union {a}
      /\ \E e \in Scribbled : ents' = [ ents EXCEPT ![a] = e ]
      /\ issued' = [ issued EXCEPT ![v] = [ @ EXCEPT !.id = a, !.used = "read" ] ]

(* The rest of sh_read.  With segments to gather, a read through null or   *)
(* garbage traps, realloc notices the freed buffer, or strcat leaves the   *)
(* block; with none, the freed buffer itself is returned.  The user goes   *)
(* on with the pointer returned.                                           *)
FinishRead ==
  /\ reading # Null /\ status = "ok"
  /\ \/ /\ reading.entry \notin EntryAddr
        /\ StopHere("null_deref")
     \/ /\ reading.entry \in EntryAddr /\ ents[reading.entry].segment_amount > 0
        /\ ~Gatherable(ents[reading.entry])
        /\ StopHere("null_deref")
     \/ /\ reading.entry \in EntryAddr /\ ents[reading.entry].segment_amount > 0
        /\ Gatherable(ents[reading.entry])
        /\ StopHere("invalid_pointer") \/ StopHere("overrun")
     \/ /\ reading.entry \in EntryAddr /\ ents[reading.entry].segment_amount > 0
        /\ Gatherable(ents[reading.entry])
        /\ \E a \in EntryAddr \ entLive : Gather(a)
        /\ reading' = Null
        /\ UNCHANGED << mallocVars, sh_protected_table, TPM_ENABLED, errno, grade, leftover, reused >>
     \/ /\ reading.entry \in EntryAddr /\ ents[reading.entry].segment_amount = 0
        /\ issued' = [ issued EXCEPT ![reading.variable].used = "read" ]
        /\ reading' = Null
        /\ UNCHANGED << mallocVars, sh_protected_table, TPM_ENABLED, errno, grade, ents,
                        entLive, leftover, reused >>

Next ==
  \/ \E tpm \in BOOLEAN : sh_init_protection(tpm)
  \/ \E sz \in Sizes, g \in UserGrades : sh_malloc(sz, g)
  \/ SegmentationStep
  \/ sh_add_protection_entry
  \/ \E v \in 1 .. Len(issued) : sh_reset(v) \/ sh_read(v)
  \/ FinishRead

Spec == Init /\ [][Next]_vars
-----------------------------------------------------------------------------
HeapTypeOK ==
  /\ TypeOK
  /\ TPM_ENABLED \in BOOLEAN /\ errno \in {"none", "EINVAL"} /\ grade \in Grades
  /\ entLive \subseteq EntryAddr
  /\ DOMAIN ents = EntryAddr
  /\ sh_protected_table # Null =>
       /\ sh_protected_table.amount \in 0 .. MaxGarbage
       /\ sh_protected_table.entries \in {Null, Wild} \union [ 1 .. sh_protected_table.amount -> Pointers ]
  /\ leftover \in BOOLEAN /\ reused \in BOOLEAN
  /\ Len(issued) <= MaxVariables

(* The segments recorded for a variable are all there, with the size the   *)
(* policy looked up again by sh_read gives them (src/sh_io.c line 38).     *)
SegmentsIntact(v) ==
  issued[v].amount > 0 =>
    LET t == tabs[issued[v].table]
    IN  /\ issued[v].amount <= Len(t)
        /\ \A i \in 1 .. issued[v].amount :
             /\ t[i] # Wild
             /\ t[i].size = sh_get_protection_policy(issued[v].grade).segment_size + cipher_changes

(* The user has done nothing with variable v since its sh_malloc.          *)
Untouched(v) == issued[v].used = "no" /\ (reading # Null => reading.variable # v)

(* src/sh_protect.c lines 44-58, src/sh_io.c lines 9-45: the identifier of *)
(* an untouched variable names an entry of its own, which still records    *)
(* what sh_malloc built, whatever entries the lookups return and however   *)
(* other variables are read and reset, up to the first use of a pointer    *)
(* that sh_read returned: that one may name memory handed out again.       *)
IdentifiersNameEntries ==
  ~reused =>
    \A v \in DOMAIN issued : Untouched(v) =>
      LET e == ents[issued[v].id]
      IN  /\ issued[v].id \in entLive
          /\ e.protection = issued[v].grade
          /\ e.segment_amount = issued[v].amount
          /\ e.segments_table = issued[v].table
          /\ \A w \in DOMAIN issued : Untouched(w) /\ issued[w].id = issued[v].id => w = v

(* src/sh_malloc.c lines 32 and 43: the variable allocated last has all    *)
(* its segments whenever no call is in progress, even if the uninitialised *)
(* local made sh_malloc reallocate the table of an earlier variable.       *)
LatestKeepsSegments ==
  pc = "idle" /\ issued # << >> => SegmentsIntact(Len(issued))

(* src/sh_malloc.c lines 32 and 43: that reuse is the only way to lose     *)
(* segments.  If every call found a null pointer in its local, all         *)
(* variables keep all their segments, in tables of their own.              *)
CleanStackKeepsSegments ==
  ~leftover =>
    \A v \in DOMAIN issued :
      /\ SegmentsIntact(v)
      /\ \A w \in DOMAIN issued :
           v # w /\ issued[v].amount > 0 /\ issued[w].amount > 0 => issued[v].table # issued[w].table
=============================================================================
