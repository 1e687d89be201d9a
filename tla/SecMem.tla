------------------------------- MODULE SecMem -------------------------------
(***************************************************************************)
(* libgcrypt's secure memory: the pools of src/_include/libgcrypt/         *)
(* secmem.c, behind the malloc, realloc and free of stdmem.c, used by      *)
(* several threads.                                                        *)
(*                                                                         *)
(* The lock serialises what happens to blocks.  The walk through the list  *)
(* of pools that decides whether a pointer is secure takes no lock, so it  *)
(* is made one pool at a time, between any two steps of the lock's holder. *)
(*                                                                         *)
(* A pointer is << pool, offset of the block's head >>; Plain stands for   *)
(* what the C library's malloc returned.  The user writes to every byte of *)
(* a block it is given, so `secret' is what the user's data has reached.   *)
(***************************************************************************)
EXTENDS SecPool, FiniteSets

CONSTANTS
  Threads,
  Main,         \* mainpool, a static variable
  Overflow,     \* pool descriptors calloc can return (a bound)
  Minimum,      \* MINIMUM_POOL_SIZE
  Standard,     \* STANDARD_POOL_SIZE
  Page,         \* the page size
  Requests,     \* sizes users ask for
  InitSizes,    \* sizes of GCRYCTL_INIT_SECMEM
  ChunkSizes,   \* sizes of GCRYCTL_AUTO_EXPAND_SECMEM
  Settings,     \* what an application may set: some of "init", "drop", "disable",
                \* "flags", "expand" and "fips"
  MaxHeld,      \* pointers in the users' hands (a bound)
  MaxTerms,     \* how often secure memory is given up (a bound)
  Plain, Null, Free

Pools == {Main} \union Overflow

Larger(a, b) == IF a < b THEN b ELSE a

(* What _gcry_secmem_init_internal and init_pool make of a size. *)
MainSize(n) == ((Larger(n, Minimum) + Page - 1) \div Page) * Page

RoundedChunk(n) == ((n + 2 * Standard - 1) \div Standard) * Standard

ASSUME PoolsAssumption ==
  /\ Null \notin Pools /\ Plain \notin Pools \X Nat /\ Main \notin Overflow
  /\ Plain # Null /\ Null \notin Pools \X Nat /\ Free \notin Threads

ASSUME SizesAssumption ==
  /\ Minimum \in Nat /\ Standard \in Nat /\ Page \in Nat \ {0}
  /\ HeadSize < Minimum /\ HeadSize < Standard
  /\ Requests \subseteq Nat \ {0} /\ InitSizes \subseteq Nat \ {0} /\ ChunkSizes \subseteq Nat
  /\ MaxHeld \in Nat /\ MaxTerms \in Nat

VARIABLES
  okay,           \* the pools that are ready for use
  size,           \* a pool's size
  blocks,         \* a pool's memory, as the blocks it is cut into
  next,           \* the links of the pool list, which starts with Main
  cur_alloced, cur_blocks,
  secret,         \* a pool's bytes that hold what a user wrote
  disable_secmem, not_locked, no_mlock, auto_expand,
  fips,           \* fips_mode()
  no_secure_memory, \* secure requests are left to the C library
  lock,           \* the thread in secmem_lock, or Free
  pc, req,        \* a thread's step and the locals of its call
  held,           \* the users: pointer -> bytes it was asked for
  status,         \* "ok", or how the process was stopped
  terms, stale    \* history: calls of term; one of them met blocks in use

poolVars == << okay, size, blocks, next, cur_alloced, cur_blocks, secret >>
flagVars == << disable_secmem, not_locked, no_mlock, auto_expand, fips, no_secure_memory >>
userVars == << held, status, terms, stale >>
secVars  == << poolVars, flagVars, userVars, lock, pc, req >>

NoRequest == [ op |-> "none", ptr |-> Null, n |-> 0, xhint |-> FALSE, pool |-> Null, new |-> Null ]

Active(p) == InUse(blocks[p])

Init ==
  /\ okay = {} /\ size = [ p \in Pools |-> 0 ]
  /\ blocks = [ p \in Pools |-> << >> ] /\ next = [ p \in Pools |-> Null ]
  /\ cur_alloced = [ p \in Pools |-> 0 ] /\ cur_blocks = [ p \in Pools |-> 0 ]
  /\ secret = [ p \in Pools |-> {} ]
  /\ disable_secmem = FALSE /\ not_locked = FALSE /\ no_mlock = FALSE
  /\ no_secure_memory = FALSE
  /\ auto_expand = 0 /\ fips \in (IF "fips" \in Settings THEN BOOLEAN ELSE {FALSE})
  /\ lock = Free
  /\ pc = [ t \in Threads |-> "idle" ] /\ req = [ t \in Threads |-> NoRequest ]
  /\ held = [ q \in {Plain} |-> 0 ]
  /\ status = "ok" /\ terms = 0 /\ stale = FALSE

(* The main pool is set up with s bytes; mlock may refuse to lock them. *)
SetUpMain(s) ==
  /\ okay' = okay \union {Main}
  /\ size' = [ size EXCEPT ![Main] = s ]
  /\ blocks' = [ blocks EXCEPT ![Main] = FreshPool(s) ]
  /\ \E refused \in BOOLEAN : not_locked' = (not_locked \/ (refused /\ ~no_mlock))
  /\ UNCHANGED << next, cur_alloced, cur_blocks, secret >>

(* init_pool stops the process when secure memory is disabled, or when     *)
(* neither mmap nor malloc gives it a pool.                                *)
NoMainPool ==
  /\ status' = IF disable_secmem THEN "disabled" ELSE "no_pool"
  /\ UNCHANGED << poolVars, flagVars, held, terms, stale >>

(* GCRYCTL_INIT_SECMEM; a second one only logs. *)
InitSecmem(n) ==
  /\ status = "ok" /\ lock = Free /\ Main \notin okay
  /\ \/ /\ ~disable_secmem /\ SetUpMain(MainSize(n))
        /\ UNCHANGED << disable_secmem, no_mlock, auto_expand, fips, no_secure_memory, userVars >>
     \/ NoMainPool
  /\ UNCHANGED << lock, pc, req >>

(* GCRYCTL_DROP_PRIVS initialises with no size at all.  A build with       *)
(* capabilities changes none of these variables by it.                     *)
DropPrivs ==
  /\ status = "ok" /\ lock = Free
  /\ disable_secmem' = TRUE
  /\ UNCHANGED << poolVars, userVars, not_locked, no_mlock, auto_expand, fips,
                  no_secure_memory, lock, pc, req >>

(* GCRYCTL_DISABLE_SECMEM, which has no effect in FIPS mode. *)
DisableSecmem ==
  /\ status = "ok" /\ ~fips
  /\ no_secure_memory' = TRUE
  /\ UNCHANGED << poolVars, userVars, disable_secmem, not_locked, no_mlock, auto_expand, fips,
                  lock, pc, req >>

SetFlags(nomlock) ==
  /\ status = "ok" /\ lock = Free
  /\ no_mlock' = nomlock
  /\ UNCHANGED << poolVars, userVars, disable_secmem, not_locked, auto_expand, fips,
                  no_secure_memory, lock, pc, req >>

SetAutoExpand(n) ==
  /\ status = "ok" /\ lock = Free
  /\ auto_expand' = RoundedChunk(n)
  /\ UNCHANGED << poolVars, userVars, disable_secmem, not_locked, no_mlock, fips,
                  no_secure_memory, lock, pc, req >>
-----------------------------------------------------------------------------
Goto(t, step) == pc' = [ pc EXCEPT ![t] = step ]

At(t, step) == status = "ok" /\ pc[t] = step

Begin(t, step, r) ==
  /\ At(t, "idle")
  /\ Goto(t, step) /\ req' = [ req EXCEPT ![t] = r ]
  /\ UNCHANGED << poolVars, flagVars, userVars, lock >>

(* No call in progress is about the block at q. *)
Untouched(q) == q = Plain \/ \A t \in Threads : req[t].ptr # q

(* A request for secure memory; do_malloc leaves it to the C library, like *)
(* any other, once secure memory is disabled.                              *)
Malloc(t, n, xhint) ==
  /\ ~no_secure_memory
  /\ Cardinality(DOMAIN held) <= MaxHeld
  /\ Begin(t, "lock", [ NoRequest EXCEPT !.op = "malloc", !.n = n, !.xhint = xhint ])

FreeCall(t, q) ==
  /\ Untouched(q)
  /\ Begin(t, "walk", [ NoRequest EXCEPT !.op = "free", !.ptr = q, !.pool = Main ])

Realloc(t, q, n, xhint) ==
  /\ Untouched(q)
  /\ Begin(t, "walk", [ op |-> "realloc", ptr |-> q, n |-> n, xhint |-> xhint,
                        pool |-> Main, new |-> Null ])

(* ptr_into_pool_p, for a pool that is ready for use. *)
Inside(q, p) == p \in okay /\ q # Plain /\ q[1] = p

(* One round of the loop of _gcry_private_is_secure, under no lock. *)
Walk(t) ==
  /\ At(t, "walk")
  /\ LET p == req[t].pool
     IN  \/ /\ Inside(req[t].ptr, p)
            /\ Goto(t, "lock") /\ UNCHANGED req
         \/ /\ ~Inside(req[t].ptr, p) /\ next[p] # Null
            /\ req' = [ req EXCEPT ![t].pool = next[p] ] /\ UNCHANGED pc
         \/ /\ ~Inside(req[t].ptr, p) /\ next[p] = Null
            /\ Goto(t, "libc") /\ UNCHANGED req
  /\ UNCHANGED << poolVars, flagVars, userVars, lock >>

EndCall(t) == Goto(t, "idle") /\ req' = [ req EXCEPT ![t] = NoRequest ]

(* A pointer not found in a pool goes to free or realloc of the C library, *)
(* which aborts unless the pointer is its own.                             *)
Libc(t) ==
  /\ At(t, "libc")
  /\ status' = IF req[t].ptr = Plain THEN "ok" ELSE "bad_free"
  /\ EndCall(t)
  /\ UNCHANGED << poolVars, flagVars, held, terms, stale, lock >>

Lock(t) ==
  /\ At(t, "lock") /\ lock = Free
  /\ lock' = t
  /\ Goto(t, IF req[t].op = "malloc" THEN "main" ELSE req[t].op)
  /\ UNCHANGED << poolVars, flagVars, userVars, req >>

(* The call releases the lock and returns: of the pointers in the users'   *)
(* hands `gone' are no longer valid, and those in `got' have been asked    *)
(* for with the request's size.                                            *)
ReturnWith(t, gone, got) ==
  /\ lock' = Free /\ EndCall(t)
  /\ held' = [ q \in (DOMAIN held \ gone) \union got |->
                 IF q \in got THEN req[t].n ELSE held[q] ]
  /\ UNCHANGED << status, terms, stale >>

(* Mutant: without memory the call returns from inside the lock. *)
ReturnLocked(t) ==
  EndCall(t) /\ UNCHANGED << poolVars, flagVars, userVars, lock >>

(* No memory: a realloc leaves the user the old block. *)
ReturnNull(t) == ReturnWith(t, {}, {}) /\ UNCHANGED << poolVars, flagVars >>

(* Mutant: the statistics count what was asked for. *)
AskedBytes(B, o, n) == Rounded(n)

(* What the statistics count for the block at o, taken for n bytes. *)
TakenBytes(B, o, n) == B[o].size

(* mb_get_new and stats_update on pool p.  A malloc returns the block; a   *)
(* realloc copies the old one's contents and goes on to free it.           *)
TakeFrom(t, p) ==
  /\ \E o \in DOMAIN blocks[p] :
       LET B == mb_get_new(blocks[p], size[p], o, Rounded(req[t].n))
       IN  /\ FirstFit(blocks[p], o, Rounded(req[t].n))
           /\ blocks' = [ blocks EXCEPT ![p] = B ]
           /\ cur_alloced' = [ cur_alloced EXCEPT ![p] = @ + TakenBytes(B, o, req[t].n) ]
           /\ cur_blocks' = [ cur_blocks EXCEPT ![p] = @ + 1 ]
           /\ secret' = [ secret EXCEPT ![p] = @ \union Payload(B, o) ]
           /\ \/ /\ req[t].op = "malloc"
                 /\ ReturnWith(t, {}, { << p, o >> })
              \/ /\ req[t].op = "realloc"
                 /\ Goto(t, "free") /\ req' = [ req EXCEPT ![t].new = << p, o >> ]
                 /\ UNCHANGED << userVars, lock >>
  /\ UNCHANGED << okay, size, next, flagVars >>

Has(t, p) == \E o \in DOMAIN blocks[p] : Fits(blocks[p], o, Rounded(req[t].n))

MayExpand(t) == (req[t].xhint \/ auto_expand > 0) /\ ~fips

(* To the overflow pool p, or past the last of them. *)
SearchAt(t, p) ==
  /\ Goto(t, IF p = Null THEN "expand" ELSE "search")
  /\ req' = [ req EXCEPT ![t].pool = p ]
  /\ UNCHANGED << poolVars, flagVars, userVars, lock >>

(* The start of _gcry_secmem_malloc_internal: the main pool. *)
MainPool(t) ==
  /\ At(t, "main")
  /\ \/ /\ Main \notin okay /\ ~disable_secmem
        /\ SetUpMain(MainSize(Standard))
        /\ UNCHANGED << disable_secmem, no_mlock, auto_expand, fips, no_secure_memory, userVars,
                        lock, pc, req >>
     \/ Main \notin okay /\ NoMainPool /\ UNCHANGED << lock, pc, req >>
     \/ /\ Main \in okay /\ not_locked /\ fips
        /\ ReturnNull(t)
     \/ /\ Main \in okay /\ ~(not_locked /\ fips)
        /\ \/ TakeFrom(t, Main)
           \/ ~Has(t, Main) /\ MayExpand(t) /\ SearchAt(t, next[Main])
           \/ ~Has(t, Main) /\ ~MayExpand(t) /\ ReturnNull(t)

SearchPool(t) ==
  /\ At(t, "search")
  /\ \/ TakeFrom(t, req[t].pool)
     \/ ~Has(t, req[t].pool) /\ SearchAt(t, next[req[t].pool])

(* A new overflow pool, or none when calloc or malloc fails.  Nobody else  *)
(* can see it yet.                                                         *)
NewPool(t) ==
  /\ At(t, "expand")
  /\ \/ ReturnNull(t)
     \/ \E p \in Overflow \ okay :
          LET s == IF auto_expand > 0 THEN auto_expand ELSE Standard
          IN  /\ okay' = okay \union {p}
              /\ size' = [ size EXCEPT ![p] = s ]
              /\ blocks' = [ blocks EXCEPT ![p] = FreshPool(s) ]
              /\ next' = [ next EXCEPT ![p] = Null ]
              /\ cur_alloced' = [ cur_alloced EXCEPT ![p] = 0 ]
              /\ cur_blocks' = [ cur_blocks EXCEPT ![p] = 0 ]
              /\ Goto(t, "link") /\ req' = [ req EXCEPT ![t].pool = p ]
              /\ UNCHANGED << secret, flagVars, userVars, lock >>

(* Mutant: the new pool's own link is never set. *)
OwnForgotten == << "head", "head" >>

(* Mutant: the new pool is published before its own link is set. *)
StoresSwapped == << "head", "own" >>

(* The order of the two stores that put the new pool into the list. *)
StoreOrder == << "own", "head" >>

Link(t) ==
  \E k \in {1, 2} :
    /\ At(t, << "link", "publish" >>[k]) /\ Goto(t, << "publish", "take" >>[k])
    /\ next' = IF StoreOrder[k] = "own" THEN [ next EXCEPT ![req[t].pool] = next[Main] ]
               ELSE [ next EXCEPT ![Main] = req[t].pool ]
    /\ UNCHANGED << okay, size, blocks, cur_alloced, cur_blocks, secret, flagVars, userVars,
                    lock, req >>

(* The new pool may still be too small. *)
NewBlock(t) ==
  /\ At(t, "take")
  /\ TakeFrom(t, req[t].pool) \/ (~Has(t, req[t].pool) /\ ReturnNull(t))

(* _gcry_secmem_realloc_internal does not shrink a block. *)
Resize(t) ==
  LET q == req[t].ptr
      large == req[t].n < blocks[q[1]][q[2]].size
  IN  /\ At(t, "realloc")
      /\ \/ large /\ ReturnWith(t, {}, {q}) /\ UNCHANGED << poolVars, flagVars >>
         \/ /\ ~large /\ Goto(t, "main")
            /\ UNCHANGED << poolVars, flagVars, userVars, lock, req >>

(* Mutant: only as many bytes are wiped as the user asked for. *)
WipeAsked(q) == (q[2] + HeadSize) .. (q[2] + HeadSize + held[q] - 1)

(* The bytes MB_WIPE_OUT goes over. *)
WipeOut(q) == Payload(blocks[q[1]], q[2])

(* _gcry_secmem_free_internal; its own search of the list finds the pool   *)
(* that the walk has found, because pools stay in the list.                *)
Freed(t) ==
  LET q == req[t].ptr
      p == q[1]
      n == blocks[p][q[2]].size
  IN  /\ At(t, "free")
      /\ secret' = [ secret EXCEPT ![p] = @ \ WipeOut(q) ]
      /\ cur_alloced' = [ cur_alloced EXCEPT ![p] = @ - n ]
      /\ cur_blocks' = [ cur_blocks EXCEPT ![p] = @ - 1 ]
      /\ blocks' = [ blocks EXCEPT ![p] = Release(blocks[p], size[p], q[2]) ]
      /\ ReturnWith(t, {q}, {req[t].new} \ {Null})
      /\ UNCHANGED << okay, size, next, flagVars >>

(* Mutant: the overflow pools are not wiped. *)
TermMainOnly == [ secret EXCEPT ![Main] = {} ]

(* Every pool is wiped before it is released. *)
Wiped == [ p \in Pools |-> {} ]

(* _gcry_secmem_term takes no lock and does not ask whether blocks are in  *)
(* use: it belongs to the end of a process, with no call in progress.      *)
Term ==
  /\ status = "ok" /\ terms < MaxTerms
  /\ \A t \in Threads : pc[t] = "idle"
  /\ terms' = terms + 1
  /\ stale' = (stale \/ Active(Main) # {})
  /\ okay' = {} /\ secret' = Wiped
  /\ size' = [ p \in Pools |-> 0 ] /\ blocks' = [ p \in Pools |-> << >> ]
  /\ next' = [ p \in Pools |-> Null ]
  /\ not_locked' = FALSE
  /\ held' = [ q \in {Plain} |-> 0 ]
  /\ UNCHANGED << cur_alloced, cur_blocks, disable_secmem, no_mlock, auto_expand, fips,
                  no_secure_memory, status, lock, pc, req >>

Setting ==
  \/ "init" \in Settings /\ \E n \in InitSizes : InitSecmem(n)
  \/ "drop" \in Settings /\ DropPrivs
  \/ "disable" \in Settings /\ DisableSecmem
  \/ "flags" \in Settings /\ \E nomlock \in BOOLEAN : SetFlags(nomlock)
  \/ "expand" \in Settings /\ \E n \in ChunkSizes : SetAutoExpand(n)

Call(t) ==
  \/ \E n \in Requests, xhint \in BOOLEAN : Malloc(t, n, xhint)
  \/ \E q \in DOMAIN held : FreeCall(t, q)
  \/ \E q \in DOMAIN held, n \in Requests, xhint \in BOOLEAN : Realloc(t, q, n, xhint)

(* What the thread inside the lock, or on its way to it, does next. *)
Step(t) ==
  \/ Walk(t) \/ Libc(t) \/ Resize(t) \/ Freed(t)
  \/ MainPool(t) \/ SearchPool(t) \/ NewPool(t) \/ Link(t) \/ NewBlock(t)

Next == Setting \/ Term \/ \E t \in Threads : Call(t) \/ Lock(t) \/ Step(t)

SecSpec == Init /\ [][Next]_secVars

(* A call that has begun goes on, and the mutex lets nobody wait for ever. *)
FairSecSpec ==
  SecSpec /\ \A t \in Threads : WF_secVars(Step(t)) /\ SF_secVars(Lock(t))
-----------------------------------------------------------------------------
Pointers == Pools \X Nat

SecTypeOK ==
  /\ okay \subseteq Pools /\ size \in [ Pools -> Nat ] /\ next \in [ Pools -> Pools \union {Null} ]
  /\ cur_alloced \in [ Pools -> Nat ] /\ cur_blocks \in [ Pools -> Nat ]
  /\ { disable_secmem, not_locked, no_mlock, fips, no_secure_memory, stale } \subseteq BOOLEAN
  /\ auto_expand \in Nat /\ terms \in Nat
  /\ lock \in Threads \union {Free}
  /\ status \in {"ok", "disabled", "no_pool", "bad_free"}
  /\ \A t \in Threads :
       /\ pc[t] \in { "idle", "walk", "libc", "lock", "main", "search", "expand", "link",
                      "publish", "take", "realloc", "free" }
       /\ req[t].ptr \in Pointers \union {Plain, Null}
       /\ req[t].pool \in Pools \union {Null}
       /\ req[t].new \in Pointers \union {Null}
  /\ DOMAIN held \subseteq Pointers \union {Plain}

(* secmem.c lines 181-276: whatever sequence of allocations and releases,  *)
(* the blocks of a pool tile it and freed neighbours have been joined, so  *)
(* the walks from block to block never leave the pool or miss a block.     *)
PoolsTiled == \A p \in okay : Tiled(blocks[p], size[p]) /\ Joined(blocks[p], size[p])

(* secmem.c lines 575-780: a pointer in the users' hands is a block in use *)
(* of a pool in the list, with the bytes asked for, and no block in use is *)
(* lost from the users' hands.                                             *)
HeldBacked ==
  /\ \A q \in DOMAIN held \ {Plain} :
       /\ q[1] \in okay /\ q[2] \in Active(q[1])
       /\ held[q] <= blocks[q[1]][q[2]].size
  /\ \A p \in okay : \A o \in Active(p) :
       << p, o >> \in DOMAIN held \/ \E t \in Threads : req[t].new = << p, o >>

(* secmem.c lines 81-83: the two counters of a pool are the bytes and the  *)
(* number of its blocks in use.  Only the main pool's can be wrong, and    *)
(* only after term met a block in use there.                               *)
CountersMatch(p) ==
  /\ cur_alloced[p] = Cardinality(UsedBytes(blocks[p]))
  /\ cur_blocks[p] = Cardinality(Active(p))

StatsMatch == \A p \in okay : (p = Main /\ stale) \/ CountersMatch(p)

(* secmem.c lines 551-554, "allocated secure memory will be wiped out when *)
(* released": what users wrote is nowhere but in blocks in use.            *)
SecretsConfined ==
  \A p \in Pools : secret[p] \subseteq UsedBytes(blocks[p])

(* secmem.c lines 802-816: the walk without the lock never misses the pool *)
(* of a block in use, so secure memory never reaches the C library's free. *)
NeverMissed == status # "bad_free"

(* The links lead from the pools of S to pools of S only. *)
Closed(S) == \A x \in S : next[x] # Null => next[x] \in S

(* Following the links from pool a leads to pool p. *)
Reaches(a, p) == \A S \in SUBSET Pools : a \in S /\ Closed(S) => p \in S

(* secmem.c lines 602, 628, 658-669, 802: between any two stores into the  *)
(* list no pool is met a second time, so that the walk without the lock    *)
(* and the searches inside it come to the list's end.                      *)
NoCycle == \A p \in Pools : next[p] # Null => ~Reaches(next[p], p)

(* Every call returns or stops the process: the walk, the search through   *)
(* the pools and the wait for the lock all end.                            *)
CallsReturn ==
  \A t \in Threads : pc[t] # "idle" ~> pc[t] = "idle" \/ status # "ok"

(* The blocks in use, as SecAlloc sees them. *)
Live ==
  UNION { { << p, o + HeadSize, End(blocks[p], o) >> : o \in Active(p) } : p \in okay }

Abstract == INSTANCE SecAlloc WITH live <- Live

(* The allocator implements what SecAlloc promises. *)
ImplementsSecAlloc == Abstract!AllocSpec
=============================================================================
