# Safeheap: TLA+ models, checks and proofs

Safeheap (`src/src/*.c`, `src/include/*.h`) is a C library that hands out
"protected" heap variables: `sh_malloc` cuts a request into segments according
to a policy, registers it in a table of protected memory and returns an
identifier; `sh_read` gathers the segments into a buffer for the user; keys and
encryption come from libgcrypt, random numbers and key storage from a TPM
through tpm2-tss. The library is unfinished and does not compile as it stands.
The models take every finished statement as written, and say below what they do
about the unfinished ones. Everything under `_include/` is vendored: libgcrypt,
whose secure memory holds what the library encrypts with, and tpm2-tss, the
stack between the library and the TPM. Of these two the parts with state of
their own that the library's calls go through are modelled as well.

File and line numbers below are those of `src/`; `secmem.c` and `stdmem.c` are in
`_include/libgcrypt/`, the files of tpm2-tss in `_include/tss2/`.

## Inventory

| Component | State it keeps | Operations | Interacts with |
|---|---|---|---|
| Policy and cipher tables (`sh_core.h`, lookups in `sh_protect.c`, `sh_crypto.c`) | constant tables | `sh_get_protection_policy`, `sh_get_cipher_outsize_diff`, `sh_get_key_size` | read by all others |
| Segmented allocation (`sh_malloc.c`) | locals of one call; the heap | `sh_malloc`, `sh_internal_malloc`, `sh_internal_realloc` | ends in `sh_add_protection_entry` |
| Protected memory table (`sh_protect.c`) | `sh_protected_table`, `TPM_ENABLED`, entry structs | `sh_init_protection`, `sh_add_protection_entry`, `sh_get_protected_entry`, `sh_init_check` | called by `sh_malloc`, `sh_read`, `sh_reset` |
| Reading and resetting (`sh_io.c`) | `errno`; frees and reallocates identifiers | `sh_read`, `sh_reset`, `sh_write` (empty) | table, policies, decryption (undefined) |
| Keys and encryption (`sh_crypto.c`) | key buffers, streams, cipher handles, libgcrypt's state | `sh_generate_key`, `sh_get_key`, `sh_init_gcrypt`, `sh_encrypt_segment` | libgcrypt, `/dev/urandom`, TPM |
| TPM access (`sh_tpm.c`) | a FAPI context per call | `sh_tpm_get_randbyte`, `sh_tpm_store_key`, empty `sh_tpm_available`, `sh_tpm_get_key` | tpm2-tss |
| Erasure, errors, utilities | none | empty, printing, declared only | |
| Secure memory of libgcrypt (`secmem.c`, `stdmem.c`) | the pools and the list they form, a lock, six flags, two counters per pool | malloc, realloc, free of several threads; set-up, settings, giving it all up | below `GCRY_CIPHER_SECURE` and `gcry_malloc_secure`; falls back on the C library |
| TPM link of tpm2-tss (`tss2-esys`, `tss2-sys`, `tss2-tcti`) | a state machine in each of three layers, one shared buffer, the device file | sending a command, polling for the response, sending it again | the TPM behind `/dev/tpm0`; FAPI above |
| Random bytes by FAPI (`tss2-fapi`) | `FAPI_CONTEXT`: states of the command, the session, the primary key, the bytes and the cleanup | `Fapi_GetRandom`, its two asynchronous halves, the session and cleanup functions they share with every other command | called by `sh_tpm_get_randbyte`; ESYS and the key store's files below |
| The rest of libgcrypt and tpm2-tss | FIPS state, key stores, policies, JSON | | not reached by the library's calls |

What is hard about this code:

* *stale and uninitialised state*: the local `segments_table` is given to
  `realloc` unset (`sh_malloc.c:32,43`), the table struct is never initialised
  (`sh_protect.c:26`), lookups fall off their end (`sh_protect.c:69`), pointers
  are passed by value and reallocated (`sh_crypto.c:101`); a pointer to a result
  stays in FAPI's context after it has been handed out
  (`api/Fapi_GetRandom.c:276`);
* *partial failure*: every allocation and library call may fail, and hardly any
  result is looked at by the library; tpm2-tss looks at all of them, and then has
  to give back what it holds from any of some twenty places;
* *sequences of legal calls*: identifiers are freed by the function that reads
  them, and their addresses are used again; blocks are cut and merged in every
  order; a call that is refused resets what belongs to another;
* *integer boundaries*: an `int` counts down a `size_t`, `strcpy` copies keys,
  heads of blocks count against their sizes;
* *concurrency*: the library itself has one thread, but libgcrypt's allocator is
  used by several, and its list of pools is walked without the lock; the TPM and
  its device file move between any two calls of the stack;
* *late, partial and repeated messages*: a response may be late, cut in two
  reads with a timeout between them, ask for the command again, or come after the call has failed.

What each part should guarantee: a finished `sh_malloc` call has backed every
byte with segments and no more (segmentation), stops only for a reason
(failure), ends (progress); an identifier keeps naming its own entry and
segments (table); reading does not disturb other variables (I/O); keys reach
their caller whole and nothing stays open (crypto); blocks tile their pools, no
block in use is lost or handed out twice, and what was written to one does not
outlive it (secure memory); a command is acted on at most once and a success is
its own (TPM link); whatever fails, the TPM gets back what a command took, unless
it refuses, and the heap its result buffer (FAPI). The list of hazards in `PROJECT.json` gives the line where each of
these can break.

## Modules

| Module | Models |
|---|---|
| `ShCore` | the tables and the two lookups that ignore their arguments |
| `ShMalloc` | the body of `sh_malloc` |
| `SafeHeap` | `ShMalloc` composed with the protected memory table and the I/O functions |
| `ShCrypto` | key generation, key retrieval, segment encryption |
| `SecPool` | one pool of secure memory: blocks, first fit, cutting, merging, rounding |
| `SecMem` | the allocator: pools, the lock, several threads, settings, giving up |
| `SecAlloc` | what an allocator of secure memory promises; `SecMem` implements it |
| `TctiDevice` | the lowest layer of the TPM link, with the device file and the TPM |
| `SysExecute` | the middle layer, on top of `TctiDevice` |
| `EsysCommand` | the upper layer and the application, on top of `SysExecute` |
| `TpmCall` | what the link promises an application; `EsysCommand` implements it |
| `EsysPort` | what the link shows the layer above; `EsysCommand` implements it |
| `FapiRandom` | `Fapi_GetRandom` and its halves, built on `EsysPort` |
| `MC...` | the instances for TLC, and the statements of the repository that do not hold |
| `ShCoreProofs`, `ShMallocProofs`, `ShCryptoProofs`, `SafeHeapProofs`, `SecPoolProofs`, `SecMemProofs`, `EsysProofs`, `FapiProofs` | the theorems about the module of that name |

**ShMalloc.** One action per stretch of code between two allocations whose
failure matters: `Malloc` (entry to the loop), `GrowTable` (line 43, with
`sh_internal_realloc`), `FillSegment` (lines 45-59), `LeaveLoop`, `SingleBlock`
(the branch without segmentation), `Return`. The heap of segment tables is a
function from addresses to sequences of slots; a slot is a descriptor or
unwritten memory (`Wild`). A descriptor has no address of its own: it is the
capacity of its data block and the size it records, which is what the
properties compare. `ToInt` is the conversion of line 40, with its width as a
constant; it is the identity where `int` represents the value and wraps
elsewhere. The unset local is a choice of null, garbage, the previous call's
table, which is what its stack slot holds when two calls come from the same
frame, or an address that some earlier call left there, whose table has been moved
or was never there (`Reallocatable` says what `realloc` can take). A failing
allocation is a choice in the step that makes it, and the history variable
`failed` remembers it. Sums of sizes wrap at `SizeMax`.

**SafeHeap.** Adds the user's interface. An identifier is the address of the
entry struct (its first member is `shared_buffer`), so entries are a second
heap, `ents` with `entLive`. `sh_protected_table` is null or a record whose
fields start arbitrary. `sh_get_protected_entry` returns the first non-null slot
for any argument, and anything at all when it falls off its end. `sh_read` is
two actions, since what it does after `sh_reset` uses what was looked up
before. `realloc` of the freed buffer may be noticed by the allocator or go
through (`Gather`): then the block is handed out where it was, still in the list of
free blocks, or somewhere else, and `strcat` writes over the entry that was there
(`Scribbled`). A `strcat` that leaves the block stops the model (`overrun`). The user behaves: a variable is not used after `sh_reset`; after
`sh_read` the pointer it returned is used, as `test.c` does; `reused` remembers
that, since the pointer may by then name memory that was handed out again. `segments_table`
in `ShMalloc` keeps its value between calls to play the stack slot.

**ShCrypto.** A call is taken apart at its library calls. Of a key the model
keeps how far it has been set, of the row's `unsecure_key` the number of bytes
before its first zero byte. The application may have set the row's key store
(`Stores`); as initialised it is `TPM_STORE` with a null key. libgcrypt,
`realloc`, `fread` and `strcpy` are external.

**SecPool and SecMem.** The blocks of a pool are a function from the offsets of
their heads to size and state; walking the pool from its start visits the domain
of that function as long as the blocks tile the pool, which is the first thing
to show. `SecMem` takes a call apart where another thread can come in or where it
can go on in more than one way: the walk that decides whether a pointer is
secure, one pool at a time and without the lock (`Walk`); `Lock`; the main pool,
set up on demand (`MainPool`); each overflow pool (`SearchPool`); a new pool
(`NewPool`) and the two stores that put it into the list (`Link`, in the order of
`StoreOrder`); the block found (`NewBlock`), the old one of a realloc (`Resize`),
the freed one (`Freed`). `secret` is the bytes that hold what users wrote: a user
writes to the whole of a block it is given, `WipeOut` is what `free` overwrites.
A pointer the C library would be given although it is secure ends in the status
`bad_free`. `Setting` is what an application may set, in any order and at any time
that the lock is free; `DisableSecmem` takes no lock, and stops further requests
from reaching the pools (`no_secure_memory`). `DropPrivs` is the build without
capabilities; one with them changes no variable by it. `Term` is `_gcry_secmem_term`, taken between calls.

**TctiDevice, SysExecute, EsysCommand.** One module for each layer; a layer's
calls are operators with the return code as parameter, so that an action of
`EsysCommand` is one call from top to bottom: `Async` and `Send`
(`Esys_GetRandom_Async`), `Finish`, `Size` and `Data` (the two reads of a
response inside `Esys_GetRandom_Finish`, between which the device may move or the
second poll may time out),
`Resubmit`. `Device` is what happens outside the thread: the TPM answers with one
of `Codes` (`Answer`) or the file hangs up (`HangUp`). A command is known by the
number of its call, so an old response or a damaged command is a wrong number. `torn`
remembers that a call went on with a part of a response.
`timeout` is 0 for a polled call and -1 for `Esys_GetRandom`, which waits. The
layers are those of any ESYS command; `Esys_GetRandom` is the one the library
reaches.

**FapiRandom.** One action for each state that `Fapi_GetRandom_Finish` and the
functions below it can go on from: the root key (`ReadKey`, `ReadHierarchy`,
`CreatePrimary`, `AskPersistent`, `VerifyPersistent`), the session
(`CreateSession`, `WaitForSession`), the pieces (`AskFirst`, `Piece`, `NoPiece`),
the cleanup of a success (`FlushSession`, `SessionFlushed`, `FlushKey`,
`KeyFlushed`) and that of a failure (`Clean`, `Flush`: `ifapi_session_clean`, one
blocking flush after the other). `TryAgain` returns where the code waits for a file
or for ESYS, `Poll` is the loop of `Fapi_GetRandom`. `live` is what commands have
made in the TPM, `lost` what it refused to give back; `buffers`, `given` and
`freed` account for the memory.

**Stopping.** Where the code dereferences null, gives the allocator a pointer it
does not know, or stores outside a block, `status` records it and the model goes
no further: nothing after that point means anything. This is why the
configurations set `CHECK_DEADLOCK FALSE`; the same goes for the bounds on the
number of variables and addresses.

Definitions whose comment starts with "Mutant:" are plausible mistakes in the
definition that follows them. No specification uses them. They show that each
property can fail.

## Runs

| Run | States | What it shows |
|---|---|---|
| `malloc` | 217 931 | Under all four policy rows: a finished call covers its request with no segment in vain (`SegmentsCoverRequest`); every segment is in the table, records its block's capacity, and has room for its share of the request and the tag (`SegmentsBacked`); calls stop only for a cause (`StopHasCause`) and otherwise end (`CallsEnd`). |
| `heap` | 466 902 | With arbitrary table contents: identifiers of untouched variables name entries of their own that record what was built, however others are read and reset, up to the first use of a pointer that `sh_read` returned (`IdentifiersNameEntries`); the latest variable always has its segments (`LatestKeepsSegments`); the reused local is the only way to lose any (`CleanStackKeepsSegments`). |
| `crypto` | 17 992 | Nothing stays open on any path (`AllClosed`); a key that was read is whole and in the caller's buffer unless that moved (`KeyReachesCaller`); what can stop a call (`CryptoStopHasCause`). |
| `secmem` | 1 040 672 | One thread and five kinds of setting: blocks tile their pools and free neighbours are joined (`PoolsTiled`); what users hold is backed and nothing in use is lost (`HeldBacked`); the counters of every pool count its blocks in use, unless secure memory was given up while the main pool had some (`StatsMatch`); what users wrote is nowhere but in blocks in use (`SecretsConfined`); the whole implements `SecAlloc` (`ImplementsSecAlloc`). |
| `secmem_threads` | 91 578 | Two threads, and secure memory that is disabled at any time: the walk without the lock never misses a pool, so secure memory never reaches the C library's `free` (`NeverMissed`), nor comes back to one (`NoCycle`); every call ends (`CallsReturn`). |
| `esys` | 445 719 | Until a response is taken in part, the layers stay in step (`LayersAgree`), a command is never damaged (`CommandIntact`), it is acted on at most once and a success is its own (`ImplementsCall`), and the link is what `EsysPort` says (`ImplementsPort`). At all times the count is the number of times the command was sent, within the limit (`SubmissionsCounted`), and a call returns (`CallReturns`). |
| `fapi` | 101 316 | However a command ends, as long as ESYS is ready, the TPM holds nothing of it but what it refused to give back, and no result buffer is lost (`NothingLeft`); the application's buffer is not freed (`GivenKept`), the pieces add up and stay in the buffer (`Delivered`), only what was made is flushed, and once (`FlushesOwn`); a call returns (`FapiReturns`). |

The other runs each check one statement of the repository that the code breaks,
and end with a counterexample. They are listed with the quoted lines under
"findings" in `PROJECT.json`:

| Run | Statement | What happens |
|---|---|---|
| `malloc_oom` | `sh_malloc.h:11` | a failed `realloc` is followed by a store past the table |
| `malloc_rest` | `sh_malloc.c:51,55` | a last segment that the request does not fill is recorded with the full size, and the remainder's block is lost |
| `heap_segments` | `DOCUMENTATION:69` | a second `sh_malloc` takes over the first one's table |
| `esys_init` | `tss2-esys/esys_int.h:151` | a new call during a resubmission fails and leaves the state INIT, with the first command at the TPM |
| `fapi_init` | `tss2-fapi/fapi_int.h:837` | a blocking command that is refused because another one is pending resets that one's state |

More that the code does differently from what it says is visible in the models
without a run of its own:

* `sh_malloc.c:40`: a size above `INT_MAX` gets too few segments or none;
* `sh_protect.c:55`: the entry is not put into the table; line 49 dereferences a
  failed allocation where the comment on lines 42-43 promises null; every grade is
  served as MEDIUM (`DOCUMENTATION:45`; the theorem `LookupReturnsMedium`);
* `sh_read` returns freed memory, and a second `sh_read` of one variable frees
  another's entry (`safeheap.html:55-56`);
* `sh_crypto.c`: the test of line 72 is turned around, line 70 drops the
  ciphertext, line 38 copies a binary key up to its first zero byte, and the
  default key store of line 109 generates no key, where line 103 says "Use TPM or
  normal keygen";
* `tss2-esys/esys_int.h:209-214` promises five resubmissions before `YIELDED` is
  forwarded; the first sending is counted as well (`esys_iutil.c:1256`), so there
  are four. `SubmissionsCounted` is about the count and its limit, as lines 185-186
  of that file have them;
* `tcti-device.c:250-252`: a timeout of the second poll returns `TRY_AGAIN` with the
  header consumed and the mark of it set, and the next size query reads the rest of
  the response as a header;
* `secmem.c:82-83`, "The number of allocated bytes and the number of used blocks in
  this pool": giving secure memory up does not reset the two counters (line 856), and
  the next main pool starts with them. `StatsMatch` excepts this case;
* `Fapi_GetRandom` documents `BAD_VALUE` for zero bytes and does not check (the model
  takes such a request like any other); an
  error in the asynchronous half or in the poll leaves ESYS with the blocking
  timeout; the command's part of the context is cleared before the state is
  checked; and the reference to a persistent root key is never given back.

### Bounds

* `Sizes` of `malloc`: 0; below, at, and above the segment sizes 5, 10 and 15;
  `IntMax = 15`, `IntMax + 1` (negative as an int), `2 IntMax + 2` (zero), 37
  (positive again, and too small) and 60 (to which the tag cannot be added below
  `SizeMax = 63`). `IntMax` 15 is the smallest that holds every
  segment size.
* `TabAddr`: two addresses, so that a table can stay, move, and leave an address
  that is used again. `Malloc` waits for a free address.
* `heap` runs with the sizes 0 (no table), 10 (one segment) and 15 (two), two
  addresses for tables and for entries, two variables, the grade NONE (`UserGrades`;
  the code only stores the grade, whichever it is), and at most one garbage slot of
  the table (`MaxGarbage`); aliasing needs two variables and one reused address. Data
  block failures are left to `malloc`; the allocations that can fail are those
  of the table, the entry, the entries array and the protected table. Addresses
  are symmetric: no action compares them other than for equality.
* `crypto` has three key addresses, buffers smaller than, equal to and larger
  than the key of 24 bytes, and keys of 4, 23 and 24 bytes before the first zero.
* `secmem`: a head is one unit, requests are rounded to two, and a main pool of
  four or eight and an overflow pool of five have room for one to three blocks, so
  that cutting, merging on both sides, a rest no larger than a head, and a full
  pool all happen. Two overflow pools, two pointers in the users' hands, secure
  memory given up once, every setting but the disabling of secure memory, which is
  left to `secmem_threads`. The overflow pools are symmetric.
* `secmem_threads`: two threads and two overflow pools, so that the list grows
  twice under a walk. Secure memory may be disabled, and is not given up:
  `_gcry_secmem_term` takes no lock and frees the pools, so it is for an
  application in which no other call is under way.
* `esys`: `MaxSubmissions` has its real value, 5; all seven kinds of answer; three
  calls, which is enough for one that fails, one that meets what the first left
  behind, and one after that.
* `fapi`: a piece has up to two bytes and a request up to three, so that there are
  requests of nothing, of less than a piece, a piece, and more; two commands, for what one
  leaves to the next.

### Fairness

* `CallsEnd`: weak fairness of `MallocStep`. The library runs in the caller's
  thread and never waits, so a call that has begun keeps running. Nothing is
  assumed about the user or about which allocation fails.
* `CallsReturn`: weak fairness of each thread's steps, and strong fairness of
  taking the lock: whoever holds it gives it back (that it does is part of the
  property), and the mutex of the system lets nobody wait for ever.
* `CallReturns`: weak fairness of the thread and of the device with a command:
  the TPM answers or its file hangs up. Which of the two, and what the answer
  is, is free; the TPM may ask for the command again without end.
* `FapiReturns`: weak fairness of ESYS below (`Tpm`) and of the thread, and
  strong fairness of `Progress`, the steps other than returning `TRY_AGAIN`: a
  regular file gets readable, ESYS ends the command (`CallReturns` and
  `SubmissionsCounted` of `EsysCommand`), and a TPM that is asked for random bytes
  again and again now and then returns one. A TPM that never does keeps the loop
  of the code going for ever.

## Proofs

Every theorem holds for all values of the constants that satisfy the named
assumptions of its module; TLC evaluates those in every run. They say that
pointers, pools, handles and marks are distinct, that sizes and bounds are natural
numbers, that a block's head is smaller than a pool, that a segmenting row has a
segment size between 1 and the maximum of int (`PoliciesAssumption`), and that the
row a lookup returns is one of the rows (`LookupAssumption`). Each proof finds an
inductive invariant, shows that every action keeps it, and takes the properties
from it.

**ShCore.** `LookupReturnsMedium`: whatever the grade, the MEDIUM row.

**ShMalloc**: `TypeCorrect`, `RequestCovered`, `SegmentsAreBacked`,
`StopsAreCaused`, `CallsShorten`, for every set of sizes, every policy table, every
width of int and of size_t, every number of addresses and every set of failing
allocations. The properties of segments are not inductive, because they speak of
finished calls. Two invariants carry them through a call:

* `CountInv`: while cutting, `segment_index * segment_size + remaining = size`,
  and the last cut was needed. It gives `SegmentsCoverRequest` when the loop is
  left. It needs the size to be representable, so that `ToInt` is the identity
  on the request and on every later value (`ToIntRepresentable`, `CountKept`).
* `MemoryInv` (`TableInv`, `StopHasCause`): before each store, the table has a slot
  for the segment unless a realloc has failed, and all earlier segments are in place.
  Without the first half `StopHasCause` cannot exclude an overrun; without the second,
  moving the table might lose segments (`MovedTable`). That each segment's record has
  room for its share of the request is arithmetic on top (`SlotHoldsShare`).

`CallsShorten` is what can be proved of `CallsEnd`: `StepsLeft` bounds the steps a
call has still to take, from its place and its countdown, and every step makes that
number smaller without ever passing zero (`CutShortens`, `StepShortens`). What the
theorem leaves to TLC is only that a process which is scheduled takes its steps.

**SafeHeap**: `HeapTypeCorrect`, `IdentifiersHold`, `LatestIsWhole`,
`CleanStackSuffices`, `HeapRunsMalloc`, `HeapCallsCover`, for every number of variables
and addresses and every content of the uninitialised table. `HeapInv` adds to `TypeOK`
and `IdentifiersNameEntries` that a call in progress satisfies `MemoryInv` and works
under the MEDIUM row (`CallInv`) and that, as long as no call took over an earlier one's table, the table of
the call in progress is none of the finished variables' (`SegmentInv`): with it, growing
the table moves nobody's segments. That reading and resetting one variable leaves the
entries of the others alone is `OthersKeepEntries`; for the entry that `strcat` writes
over it needs that the buffer given to `realloc` is not allocated to anybody
(`ReadEndsKeepsEntries`). `HeapRunsMalloc` says that the composition takes of `ShMalloc`
nothing but its steps, as long as the program runs; so the invariants of a single call
hold of every call of the library (`BodyInv`, `HeapCallsCover`).

**ShCrypto**: `CryptoTypeCorrect`, `NothingStaysOpen`, `KeysReachTheirCaller`,
`CryptoStopsAreCaused`. `CryptoInv` says in which steps the
stream (`StreamInv`) and the handle (`HandleInv`) are open and what the buffer that
is read into is good for (`BufferInv`).

**SecMem**: `TheoremSecTypeOK`, `TheoremPoolsTiled`, `TheoremHeldBacked`,
`TheoremStatsMatch`, `TheoremSecretsConfined`, `TheoremNeverMissed`,
`TheoremNoCycle` and `TheoremImplements` (`SecMem` implements `SecAlloc`), for every
number of threads, pools, sizes and requests. `SecPoolProofs` has the lemmas about
one pool: cutting and merging keep it tiled and its free blocks joined, touch no
other block in use, and change the bytes in use by exactly the block that is taken
or freed (`PayloadSize`, `PayloadsApart`, `BytesTaken`). There are four invariants,
each on top of the ones before:

* `SecInv`: what the locals of a thread's call are good for at each step
  (`ThreadOkay`: whoever is past the lock holds it, and the block of a free or
  realloc is still held), that the links lead to pools that are ready (`LinksOkay`),
  that no two calls are about one block (`Distinct`), and that a pool that is not
  ready holds no data (`UnusedClean`).
* `CountInv`: the counters of a pool never say less than what is in use (`Covered`),
  so that no subtraction passes zero, and they are exact unless the pool is the main
  one and was given up in use; it starts at zero (`StartsAtZero`). The bytes in use
  are the cardinality of a set of offsets (`UsedBytes`), not a sum over the blocks,
  so that the step of a block is a fact about sets.
* `ListInv`: where a walk is, the rest of the list leads to what it looks for; the
  new pool's own link is what it has to be between the two stores that put it into
  the list; every pool that is ready is in the list or about to be (`Listed`). Being
  reached is stated without recursion: `Reaches(p, q)` says that every set of pools
  that holds `p` and is closed under the links holds `q`, so that a path is extended
  or cut by naming a closed set.
* `ChainInv`: no pool is reached from what it links to, and no link leads to the main
  pool or to a pool that is still being put into the list (`LinkedOnce`). Without the
  second half `NoCycle` is not inductive: the store into the main pool's link could
  close a circle. The mutant that publishes the new pool before it sets the pool's own
  link does.

Three more theorems have no run of their own: `TheoremListed`, that a pool in use is
in the list from the moment it is published; `TheoremRegionsApart`, that what users
hold never overlaps, from the tiling; and `TheoremLockReleased`, that the lock is held
exactly by the thread that is between taking and releasing it, so that no way out of a
call keeps it.

**EsysCommand**: `TheoremEsysType`, `TheoremLayersAgree`,
`TheoremSubmissionsCounted`, `TheoremCommandIntact`, `TheoremImplementsCall`
(it implements `TpmCall`) and `TheoremImplementsPort` (it implements `EsysPort`),
for every number of calls and submissions and every set of answers. `CallInv` holds
always: the types and how the state, the caller's place and the count of submissions go
together (`CountInv`). `WholeInv` holds until a response has been taken in part
(`IInv == CallInv /\ (~torn => WholeInv)`) and says for each stretch of a call what the
three layers and the device are up to: waiting (`WaitingInv`), between the two reads
(`DataInv`), about to send (`ReadyInv`). That a command is acted on only once rests on
`ReadyInv`: what is in the buffer before it is sent again has not been acted on.
`PortInv` adds that a context which is ready
has no command of its own at the TPM. `TheoremCallWindsDown` is the provable part of
`CallReturns`: the steps that a call has left, those of its round and of a round for
each submission (`StepsLeft`), get fewer with each of its steps. It rests on
`CallInv`, the limit of submissions, and on `NeverTriedAgain`: without a timeout no
layer answers that it is to be tried again.

**FapiRandom**: `TheoremFapiType`, `TheoremNothingLeft`, `TheoremFlushesOwn`,
`TheoremGivenKept`, `TheoremDelivered`, `TheoremCommandWindsDown`, for every number
of commands, requested bytes and size of the pieces. The invariant is a ledger: what the TPM holds of a
command is what the context names and what the pending response will add or take
(`LedgerInv`), with what each waiting state has sent (`WaitInv`), when the key is
persistent (`KeyInv`), whose each buffer is (`BufferInv`) and how many bytes there
are and are to come (`BytesInv`). `FapiRandom` takes of ESYS only the steps of
`EsysPort` other than `Breaks`, and `TheoremImplementsPort` shows `EsysCommand` to take
no steps but those of `EsysPort`: together they are about FAPI on top of the three
layers, for as long as no response is taken in part. `TheoremCommandWindsDown` orders the
states of a command, its bytes and its flushes (`Left`): no step but the start of the
next command goes back in that order, and every step that `Progress` names goes on.

Only model-checked are the properties about what ends under fairness, `CallsEnd`,
`CallsReturn`, `CallReturns` and `FapiReturns`, since the prover does not treat
liveness. The part of each that is not about fairness is proved: that the steps of a
call run out (`CallsShorten`, `TheoremCallWindsDown`, `TheoremCommandWindsDown`), and
for `CallsReturn` that the walk is along a list without circles and that the lock is
given back (`TheoremNoCycle`, which a run checks too, and `TheoremLockReleased`). The
other parts no run checks by themselves: the liveness properties do. All invariants
and all action properties of the passing runs are theorems.

## Not modelled

* `sh_tpm.c`: unfinished. `sh_tpm_fapi_init` takes the context by value, so FAPI
  is given an uninitialised pointer (line 23); `sh_tpm_available` and
  `sh_tpm_get_key` are empty. An arbitrary result of `sh_tpm_available` and a `sh_tpm_get_key` that does nothing
  are part of `SafeHeap` and `ShCrypto`; what a call of FAPI would do is
  `FapiRandom`.
* `sh_erasure.c`, `sh_error.c`, `sh_utils.h`: empty, or without state.
* `sh_decrypt_buffer` (called by `sh_read`), `sh_free` and `sh_erase`: declared
  or used, defined nowhere.
* The contents of segments and buffers: nothing but `strcat` in `sh_read`
  touches them, on memory that has just been freed.
* Anything after undefined behaviour that the allocator or the processor would notice,
  or that would change what nobody can name: a dead block given to `realloc` or `free`,
  a store outside a block (`strcat` into the allocator's own records included).
  `status` says which, and the model stops there.
* In the TPM link, nothing is said of the layers' agreement once a timeout has fallen
  between the two reads of a response, or a read has returned less than a whole
  response: the models go on (`torn`), and the properties that are about the agreement
  end there. `/dev/tpm0` of Linux has the whole response before any of it can be read
  and discards what is left of it when the next command is written, so that its driver
  never gets there, but the code relies on nothing of the kind. `FapiRandom` leaves
  this case (`Breaks` of `EsysPort`) out; a blocking command of FAPI waits without a
  timeout, so there it takes a short read.
* Two branches of tpm2-tss that its commands do not take: `createPrimary.handle`
  (`fapi_util.c:1027-1030`) is set nowhere and zero, so the key is always made; and
  `Esys_FlushContext_Finish` (lines 252-254) finds the object that its asynchronous
  half found, since nothing else closes it, so that no failure there leaves ESYS ready
  with the flush done.
* What is printed.
* libgcrypt apart from its secure memory: ciphers and hashes are computation, not
  state; S-expressions are not used by the library; the FIPS state machine
  only runs in FIPS mode, which the library never asks for. In secure memory, the
  locking of pages (`mlock`) is taken to fail or succeed, which only sets a flag,
  and requests whose rounding wraps around `SIZE_MAX` (`secmem.c:607`) are left out:
  every check of the allocator is about sizes that exist.
* tpm2-tss apart from the two parts above: the other commands of ESYS and FAPI
  repeat the pattern of the ones modelled with other data; policies and key stores
  are not reached with the profile of a root key without a policy; marshalling and
  the JSON of the key store's files are conversions; the cancel and locality calls
  and the transports other than the device file are not used.

## Plan

Done, in this order: `ShCore`, `ShMalloc`, `SafeHeap`, `ShCrypto`; secure memory
with its abstract allocator; the TPM link with the two specifications it
implements; FAPI's random bytes on top of it; the proofs of all of them, with the
counters, the list of pools and the steps that calls have left.

What could come next:

1. Making a key by FAPI (`Fapi_CreateKey`, which `sh_tpm_store_key` calls), built
   on `EsysPort` like `FapiRandom`: the key store, and what is left in it when a
   step fails.
2. libgcrypt's FIPS states (`fips.c`) with self-tests on demand by several threads.
3. When `sh_tpm.c` has been finished: `ShTpm`, composed with `ShCrypto`'s key
   generation and `FapiRandom`.
4. An abstract table of variables as the documentation promises it, and the
   restricted use of the library under which `SafeHeap` implements it (table
   initialised, no reading, clean stack), from `CleanStackKeepsSegments` and
   `IdentifiersNameEntries`.
