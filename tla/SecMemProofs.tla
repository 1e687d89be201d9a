---------------------------- MODULE SecMemProofs ----------------------------
(***************************************************************************)
(* For any number of threads, pools, sizes and requests: the blocks of     *)
(* every pool tile it, what users hold is backed by a block in use, no     *)
(* block is lost, what users wrote is in blocks in use only, and the       *)
(* allocator implements SecAlloc.                                          *)
(***************************************************************************)
EXTENDS SecMem, SecPoolProofs

(* The steps a thread takes while it is inside secmem_lock. *)
Locked == { "main", "search", "expand", "link", "publish", "take", "realloc", "free" }

Steps == {"idle", "walk", "libc", "lock"} \union Locked

Request == [ op : {"none", "malloc", "free", "realloc"}, ptr : Pointers \union {Plain, Null},
             n : Nat, xhint : BOOLEAN, pool : Pools \union {Null}, new : Pointers \union {Null} ]

Types ==
  /\ okay \subseteq Pools /\ size \in [ Pools -> Nat ] /\ next \in [ Pools -> Pools \union {Null} ]
  /\ DOMAIN blocks = Pools /\ secret \in [ Pools -> SUBSET Nat ]
  /\ auto_expand = 0 \/ (auto_expand \in Nat /\ HeadSize < auto_expand)
  /\ pc \in [ Threads -> Steps ] /\ req \in [ Threads -> Request ]
  /\ DOMAIN held \subseteq Pointers \union {Plain}

(* The list leads from pools to pools that are ready for use. *)
LinksOkay == \A p \in Pools : next[p] # Null => next[p] \in okay

(* q is a block in use with room for n bytes. *)
Backed(q, n) ==
  /\ q \in Pointers /\ q[1] \in okay /\ q[2] \in Active(q[1])
  /\ n \in Nat /\ n <= blocks[q[1]][q[2]].size

(* What the locals of a thread's call are good for at each of its steps. *)
ThreadOkay(t) ==
  /\ pc[t] = "idle" => req[t].ptr = Null
  /\ pc[t] = "walk" =>
       req[t].pool \in Pools /\ req[t].op \in {"free", "realloc"} /\ req[t].ptr # Null
  /\ pc[t] = "lock" => req[t].op # "none"
  /\ pc[t] \in Locked => lock = t
  /\ pc[t] \in {"search", "link", "publish", "take"} => req[t].pool \in okay
  /\ pc[t] \in {"free", "realloc"} => req[t].ptr \in Pointers
  /\ pc[t] \in {"lock"} \union Locked /\ req[t].op # "malloc" => req[t].ptr \in Pointers
  /\ req[t].op = "malloc" => req[t].ptr = Null
  /\ req[t].ptr \in Pointers => req[t].ptr \in DOMAIN held
  /\ req[t].new # Null =>
       pc[t] = "free" /\ Backed(req[t].new, req[t].n) /\ req[t].new \notin DOMAIN held

HeldOkay == \A q \in DOMAIN held \ {Plain} : Backed(q, held[q])

NoneLost ==
  \A p \in okay : \A o \in Active(p) :
    << p, o >> \in DOMAIN held \/ \E t \in Threads : req[t].new = << p, o >>

(* No two calls are about the same block. *)
Distinct ==
  \A t, u \in Threads : t # u /\ req[t].ptr = req[u].ptr => req[t].ptr \in {Plain, Null}

(* Nothing was ever written to a pool that is not ready for use. *)
UnusedClean == \A p \in Pools \ okay : secret[p] = {}

SecInv ==
  /\ UnusedClean
  /\ Types /\ PoolsTiled /\ LinksOkay
  /\ \A t \in Threads : ThreadOkay(t)
  /\ HeldOkay /\ NoneLost /\ Distinct /\ SecretsConfined

(* The largest multiple of g that is not above a. *)
LEMMA DivBounds ==
  ASSUME NEW a \in Nat, NEW g \in Nat \ {0}
  PROVE  /\ (a \div g) * g \in Nat
         /\ a - g < (a \div g) * g /\ (a \div g) * g <= a
<1> DEFINE q == a \div g
           r == a % g
<1>1. q \in Nat /\ r \in Nat /\ r < g /\ a = g * q + r
  OBVIOUS
<1> HIDE DEF q, r
<1>2. q * g = g * q /\ q * g \in Nat
  BY <1>1
<1>3. a - g < q * g /\ q * g <= a
  BY <1>1, <1>2
<1> QED
  BY <1>2, <1>3 DEF q

(* Rounding a request up gives at least the request. *)
LEMMA RoundedUp == ASSUME NEW n \in Nat PROVE Rounded(n) \in Nat /\ n <= Rounded(n)
<1>1. n + Granule - 1 \in Nat
  BY GranuleAssumption
<1> QED
  BY <1>1, DivBounds, GranuleAssumption DEF Rounded

(* A main pool and the overflow pools of the auto-expand option have room  *)
(* for more than a head.                                                   *)
LEMMA PoolSizes ==
  ASSUME NEW n \in Nat
  PROVE  /\ MainSize(n) \in Nat /\ HeadSize < MainSize(n)
         /\ RoundedChunk(n) \in Nat /\ HeadSize < RoundedChunk(n)
<1>1. Larger(n, Minimum) \in Nat /\ Minimum <= Larger(n, Minimum)
  BY SizesAssumption DEF Larger
<1> DEFINE a == Larger(n, Minimum) + Page - 1
           b == n + 2 * Standard - 1
<1>2. a \in Nat /\ b \in Nat
  BY <1>1, SizesAssumption, HeadAssumption
<1>3. /\ (a \div Page) * Page \in Nat /\ a - Page < (a \div Page) * Page
  BY <1>2, DivBounds, SizesAssumption
<1>4. Standard \in Nat \ {0}
  BY SizesAssumption, HeadAssumption
<1>5. /\ (b \div Standard) * Standard \in Nat /\ b - Standard < (b \div Standard) * Standard
  BY <1>2, <1>4, DivBounds
<1>6. Minimum \in Nat /\ Page \in Nat /\ Standard \in Nat /\ HeadSize \in Nat
  BY SizesAssumption, HeadAssumption
<1>7. HeadSize < (a \div Page) * Page
  BY <1>1, <1>3, <1>6, SizesAssumption
<1>8. HeadSize < (b \div Standard) * Standard
  BY <1>5, <1>6, SizesAssumption
<1> QED
  BY <1>3, <1>5, <1>7, <1>8 DEF MainSize, RoundedChunk

(* The invariant holds before the first call. *)
LEMMA InitOkay == Init => SecInv
<1> SUFFICES ASSUME Init PROVE SecInv
  OBVIOUS
<1>1. Types
  BY PoolsAssumption DEF Init, Types, NoRequest, Request, Pools, Steps
<1>2. PoolsTiled /\ LinksOkay /\ NoneLost /\ HeldOkay
  BY DEF Init, PoolsTiled, LinksOkay, NoneLost, HeldOkay
<1>3. \A t \in Threads : ThreadOkay(t)
  BY PoolsAssumption DEF Init, ThreadOkay, NoRequest, Locked, Pointers
<1>4. Distinct /\ SecretsConfined /\ UnusedClean
  BY DEF Init, Distinct, SecretsConfined, UsedBytes, NoRequest, UnusedClean, Active
<1> QED
  BY <1>1, <1>2, <1>3, <1>4 DEF SecInv

(* A step of thread t that leaves pools and what users hold alone: the     *)
(* invariant holds after it if it holds of t.                              *)
LEMMA LocalStep ==
  ASSUME SecInv, NEW t \in Threads, UNCHANGED << poolVars, held >>,
         auto_expand' = 0 \/ (auto_expand' \in Nat /\ HeadSize < auto_expand'),
         pc' \in [ Threads -> Steps ], req' \in [ Threads -> Request ],
         \A u \in Threads \ {t} : pc'[u] = pc[u] /\ req'[u] = req[u] /\ (lock = u => lock' = u),
         ThreadOkay(t)', req'[t].new = req[t].new,
         req'[t].ptr \in {req[t].ptr, Plain, Null} \/ Untouched(req'[t].ptr)
  PROVE  SecInv'
<1>1. Types' /\ PoolsTiled' /\ LinksOkay' /\ HeldOkay' /\ SecretsConfined' /\ UnusedClean'
  BY DEF UnusedClean, SecInv, poolVars, Types, PoolsTiled, LinksOkay, HeldOkay, Backed, Active,
         SecretsConfined, UsedBytes
<1>2. ASSUME NEW u \in Threads, u # t
      PROVE  pc'[u] = pc[u] /\ req'[u] = req[u] /\ (lock = u => lock' = u)
  BY <1>2
<1>3. NoneLost'
  <2>1. ASSUME NEW u \in Threads PROVE req'[u].new = req[u].new
    BY <1>2
  <2> SUFFICES ASSUME NEW p \in okay', NEW o \in Active(p)'
               PROVE  << p, o >> \in DOMAIN held' \/ \E u \in Threads : req'[u].new = << p, o >>
    BY DEF NoneLost
  <2>2. p \in okay /\ o \in Active(p) /\ held' = held
    BY DEF poolVars, Active
  <2>3. << p, o >> \in DOMAIN held \/ \E u \in Threads : req[u].new = << p, o >>
    BY <2>2 DEF SecInv, NoneLost
  <2> QED
    BY <2>1, <2>2, <2>3
<1>4. ASSUME NEW u \in Threads PROVE ThreadOkay(u)'
  <2>1. CASE u # t
    <3>1. ThreadOkay(u) /\ pc'[u] = pc[u] /\ req'[u] = req[u] /\ (lock = u => lock' = u)
      BY <2>1, <1>2 DEF SecInv
    <3>2. okay' = okay /\ held' = held /\ blocks' = blocks
      BY DEF poolVars
    <3>3. Backed(req[u].new, req[u].n)' <=> Backed(req'[u].new, req'[u].n)
      BY <3>2 DEF Backed, Active
    <3> QED
      BY <3>1, <3>2, <3>3 DEF ThreadOkay
  <2> QED
    BY <2>1
<1>5. Distinct'
  <2> SUFFICES ASSUME NEW u \in Threads, NEW v \in Threads, u # v, req'[u].ptr = req'[v].ptr
               PROVE  req'[u].ptr \in {Plain, Null}
    BY DEF Distinct
  <2>1. CASE u # t /\ v # t
    BY <2>1, <1>2 DEF SecInv, Distinct
  <2>2. CASE u = t
    <3>1. v # t /\ req'[v] = req[v]
      BY <2>2, <1>2
    <3> QED
      BY <2>2, <3>1 DEF SecInv, Distinct, Untouched
  <2>3. CASE v = t
    <3>1. u # t /\ req'[u] = req[u]
      BY <2>3, <1>2
    <3> QED
      BY <2>3, <3>1 DEF SecInv, Distinct, Untouched
  <2> QED
    BY <2>1, <2>2, <2>3
<1> QED
  BY <1>1, <1>3, <1>4, <1>5 DEF SecInv

(* A step of thread t that ends its call on unchanged pools, with what the *)
(* user asked for it recorded for the block the call was about, if at all. *)
LEMMA BareReturn ==
  ASSUME SecInv, NEW t \in Threads, pc[t] \in Locked \ {"free"},
         NEW got \in SUBSET DOMAIN held, \A q \in got : Backed(q, req[t].n),
         ReturnWith(t, {}, got), UNCHANGED << poolVars, flagVars >>
  PROVE  SecInv'
<1>1. lock = t /\ req[t].new = Null /\ req[t] \in Request
  BY DEF SecInv, ThreadOkay, Types
<1>2. DOMAIN held' = DOMAIN held /\ \A q \in DOMAIN held : held'[q] = IF q \in got THEN req[t].n ELSE held[q]
  BY DEF ReturnWith
<1>3. /\ pc' = [ pc EXCEPT ![t] = "idle" ] /\ req' = [ req EXCEPT ![t] = NoRequest ]
      /\ okay' = okay /\ blocks' = blocks
  BY DEF ReturnWith, EndCall, Goto, poolVars
<1>4. Types'
  <2>1. NoRequest \in Request
    BY PoolsAssumption DEF NoRequest, Request
  <2> QED
    BY <2>1, <1>2, <1>3 DEF SecInv, Types, poolVars, flagVars, Steps
<1>5. PoolsTiled' /\ LinksOkay' /\ SecretsConfined' /\ UnusedClean'
  BY DEF UnusedClean, SecInv, poolVars, PoolsTiled, LinksOkay, SecretsConfined, UsedBytes, Active
<1>7. HeldOkay'
  <2> SUFFICES ASSUME NEW q \in DOMAIN held' \ {Plain} PROVE Backed(q, held[q])'
    BY DEF HeldOkay
  <2>1. q \in DOMAIN held /\ Backed(q, held[q])
    BY <1>2 DEF SecInv, HeldOkay
  <2> QED
    BY <2>1, <1>2, <1>3 DEF Backed, Active
<1>8. ASSUME NEW u \in Threads PROVE req'[u].new = req[u].new
  BY <1>1, <1>3 DEF SecInv, Types, NoRequest
<1>9. NoneLost'
  <2> SUFFICES ASSUME NEW p \in okay', NEW o \in Active(p)'
               PROVE  << p, o >> \in DOMAIN held' \/ \E u \in Threads : req'[u].new = << p, o >>
    BY DEF NoneLost
  <2>1. p \in okay /\ o \in Active(p)
    BY <1>3 DEF Active
  <2>2. << p, o >> \in DOMAIN held \/ \E u \in Threads : req[u].new = << p, o >>
    BY <2>1 DEF SecInv, NoneLost
  <2> QED
    BY <2>2, <1>2, <1>8
<1>10. ASSUME NEW u \in Threads PROVE ThreadOkay(u)'
  <2>1. CASE u = t
    <3>1. pc'[u] = "idle" /\ req'[u] = NoRequest
      BY <2>1, <1>3 DEF SecInv, Types
    <3> QED
      BY <3>1, PoolsAssumption DEF ThreadOkay, NoRequest, Locked, Pointers
  <2>2. CASE u # t
    <3>1. ThreadOkay(u) /\ pc'[u] = pc[u] /\ req'[u] = req[u]
      BY <2>2, <1>3 DEF SecInv, Types
    <3>2. pc[u] \notin Locked
      BY <3>1, <2>2, <1>1 DEF ThreadOkay
    <3>3. req[u].new = Null
      BY <3>1, <3>2 DEF ThreadOkay, Locked
    <3> QED
      BY <3>1, <3>2, <3>3, <1>2, <1>3, PoolsAssumption DEF ThreadOkay, Locked
  <2> QED
    BY <2>1, <2>2
<1>11. Distinct'
  <2> SUFFICES ASSUME NEW u \in Threads, NEW v \in Threads, u # v, req'[u].ptr = req'[v].ptr
               PROVE  req'[u].ptr \in {Plain, Null}
    BY DEF Distinct
  <2>1. \A w \in Threads : req'[w].ptr = Null \/ req'[w].ptr = req[w].ptr
    BY <1>3 DEF SecInv, Types, NoRequest
  <2> QED
    BY <2>1 DEF SecInv, Distinct
<1> QED
  BY <1>4, <1>5, <1>7, <1>9, <1>10, <1>11 DEF SecInv

(* A pool is set up: what was backed still is, nothing new is in use. *)
LEMMA PoolAdded ==
  ASSUME SecInv, NEW p \in Pools \ okay, NEW s \in Nat, HeadSize < s,
         okay' = okay \union {p}, size' = [ size EXCEPT ![p] = s ],
         blocks' = [ blocks EXCEPT ![p] = FreshPool(s) ],
         next' = next \/ next' = [ next EXCEPT ![p] = Null ],
         UNCHANGED << secret, held >>
  PROVE  /\ size' \in [ Pools -> Nat ] /\ next' \in [ Pools -> Pools \union {Null} ]
         /\ DOMAIN blocks' = Pools
         /\ PoolsTiled' /\ LinksOkay' /\ HeldOkay' /\ SecretsConfined' /\ UnusedClean'
         /\ \A q, n : Backed(q, n) => Backed(q, n)'
         /\ Active(p)' = {} /\ \A r \in okay : Active(r)' = Active(r)
<1>1. /\ size' \in [ Pools -> Nat ] /\ next' \in [ Pools -> Pools \union {Null} ]
      /\ DOMAIN blocks' = Pools /\ okay' \subseteq Pools
  BY DEF SecInv, Types
<1>2. /\ blocks'[p] = FreshPool(s) /\ size'[p] = s
      /\ \A r \in okay : blocks'[r] = blocks[r] /\ size'[r] = size[r]
  BY DEF SecInv, Types
<1>3. Active(p)' = {} /\ \A r \in okay : Active(r)' = Active(r)
  BY <1>2, FreshTiled DEF Active
<1>4. PoolsTiled'
  BY <1>2, FreshTiled DEF SecInv, PoolsTiled
<1>5. LinksOkay'
  BY <1>1 DEF SecInv, LinksOkay, Types
<1>6. ASSUME NEW q, NEW n, Backed(q, n) PROVE Backed(q, n)'
  BY <1>2, <1>3, <1>6 DEF Backed
<1>7. HeldOkay'
  <2> SUFFICES ASSUME NEW q \in DOMAIN held \ {Plain} PROVE Backed(q, held[q])'
    BY DEF HeldOkay
  <2>1. Backed(q, held[q])
    BY DEF SecInv, HeldOkay
  <2> QED
    BY <2>1, <1>2, <1>3 DEF Backed
<1>8. SecretsConfined' /\ UnusedClean'
  <2>1. ASSUME NEW r \in Pools
        PROVE  secret[r] \subseteq UNION { Payload(blocks'[r], o) : o \in Active(r)' }
    <3>1. CASE r \in okay
      BY <3>1, <1>2, <1>3 DEF SecInv, SecretsConfined, UsedBytes, Active
    <3>2. CASE r \notin okay
      BY <3>2 DEF SecInv, UnusedClean
    <3> QED
      BY <3>1, <3>2
  <2> QED
    BY <2>1 DEF SecretsConfined, UsedBytes, SecInv, UnusedClean, Active
<1> QED
  BY <1>1, <1>3, <1>4, <1>5, <1>6, <1>7, <1>8

(* A thread that takes no step keeps its part of the invariant as long as  *)
(* pools stay ready, what it holds stays held, and the lock stays away     *)
(* from nobody but the thread that has it.                                 *)
LEMMA OtherThread ==
  ASSUME SecInv, NEW u \in Threads, pc'[u] = pc[u], req'[u] = req[u],
         lock = u => lock' = u, okay \subseteq okay',
         req[u].ptr \in DOMAIN held => req[u].ptr \in DOMAIN held',
         req[u].new # Null => Backed(req[u].new, req[u].n)' /\ req[u].new \notin DOMAIN held'
  PROVE  ThreadOkay(u)'
<1>1. ThreadOkay(u)
  BY DEF SecInv
<1> QED
  BY <1>1 DEF ThreadOkay

(* GCRYCTL_INIT_SECMEM and the implicit initialisation. *)
LEMMA MainSetUp ==
  ASSUME SecInv, NEW n \in Nat, SetUpMain(MainSize(n)), Main \notin okay,
         UNCHANGED << auto_expand, held, lock, pc, req >>
  PROVE  SecInv'
<1>1. Main \in Pools \ okay /\ MainSize(n) \in Nat /\ HeadSize < MainSize(n)
  BY PoolSizes DEF Pools
<1>2. /\ okay' = okay \union {Main} /\ size' = [ size EXCEPT ![Main] = MainSize(n) ]
      /\ blocks' = [ blocks EXCEPT ![Main] = FreshPool(MainSize(n)) ]
      /\ next' = next /\ secret' = secret
  BY DEF SetUpMain
<1>3. /\ size' \in [ Pools -> Nat ] /\ DOMAIN blocks' = Pools
      /\ PoolsTiled' /\ LinksOkay' /\ HeldOkay' /\ SecretsConfined' /\ UnusedClean'
      /\ \A q, m : Backed(q, m) => Backed(q, m)'
      /\ Active(Main)' = {} /\ \A r \in okay : Active(r)' = Active(r)
  BY <1>1, <1>2, PoolAdded
<1>4. Types'
  BY <1>1, <1>2, <1>3 DEF SecInv, Types
<1>5. ASSUME NEW u \in Threads PROVE ThreadOkay(u)'
  <2>1. req[u].new # Null => Backed(req[u].new, req[u].n) /\ req[u].new \notin DOMAIN held
    BY DEF SecInv, ThreadOkay
  <2>2. req[u].new # Null => Backed(req[u].new, req[u].n)'
    BY <2>1, <1>2, <1>3 DEF Backed
  <2> QED
    BY <2>1, <2>2, <1>2, OtherThread
<1>6. NoneLost'
  <2> SUFFICES ASSUME NEW p \in okay', NEW o \in Active(p)'
               PROVE  << p, o >> \in DOMAIN held' \/ \E u \in Threads : req'[u].new = << p, o >>
    BY DEF NoneLost
  <2>1. p \in okay /\ o \in Active(p)
    BY <1>2, <1>3
  <2> QED
    BY <2>1 DEF SecInv, NoneLost
<1>7. Distinct'
  BY DEF SecInv, Distinct
<1> QED
  BY <1>3, <1>4, <1>5, <1>6, <1>7 DEF SecInv

(* A new overflow pool. *)
LEMMA OverflowSetUp ==
  ASSUME SecInv, NEW t \in Threads, NewPool(t) PROVE SecInv'
<1>1. pc[t] = "expand" /\ lock = t /\ req[t].new = Null /\ req[t] \in Request
  BY DEF NewPool, At, SecInv, ThreadOkay, Locked, Types
<1>2. CASE ReturnNull(t)
  BY <1>1, <1>2, BareReturn DEF ReturnNull, Locked
<1>3. CASE \E p \in Overflow \ okay :
             LET s == IF auto_expand > 0 THEN auto_expand ELSE Standard
             IN  /\ okay' = okay \union {p}
                 /\ size' = [ size EXCEPT ![p] = s ]
                 /\ blocks' = [ blocks EXCEPT ![p] = FreshPool(s) ]
                 /\ next' = [ next EXCEPT ![p] = Null ]
                 /\ cur_alloced' = [ cur_alloced EXCEPT ![p] = 0 ]
                 /\ cur_blocks' = [ cur_blocks EXCEPT ![p] = 0 ]
                 /\ Goto(t, "link") /\ req' = [ req EXCEPT ![t].pool = p ]
                 /\ UNCHANGED << secret, flagVars, userVars, lock >>
  <2> DEFINE s == IF auto_expand > 0 THEN auto_expand ELSE Standard
  <2>1. PICK p \in Overflow \ okay :
          /\ okay' = okay \union {p} /\ size' = [ size EXCEPT ![p] = s ]
          /\ blocks' = [ blocks EXCEPT ![p] = FreshPool(s) ]
          /\ next' = [ next EXCEPT ![p] = Null ]
          /\ pc' = [ pc EXCEPT ![t] = "link" ] /\ req' = [ req EXCEPT ![t].pool = p ]
          /\ secret' = secret /\ held' = held /\ auto_expand' = auto_expand /\ lock' = lock
    BY <1>3 DEF Goto, flagVars, userVars
  <2>2. p \in Pools \ okay /\ s \in Nat /\ HeadSize < s
    BY SizesAssumption, HeadAssumption DEF SecInv, Types, Pools
  <2> HIDE DEF s
  <2>3. /\ size' \in [ Pools -> Nat ] /\ next' \in [ Pools -> Pools \union {Null} ]
        /\ DOMAIN blocks' = Pools
        /\ PoolsTiled' /\ LinksOkay' /\ HeldOkay' /\ SecretsConfined' /\ UnusedClean'
        /\ \A q, m : Backed(q, m) => Backed(q, m)'
        /\ Active(p)' = {} /\ \A r \in okay : Active(r)' = Active(r)
    BY <2>1, <2>2, PoolAdded
  <2>4. req' \in [ Threads -> Request ] /\ pc' \in [ Threads -> Steps ]
    BY <2>1, <2>2, <1>1 DEF SecInv, Types, Request, Steps, Locked
  <2>5. Types'
    BY <2>1, <2>2, <2>3, <2>4 DEF SecInv, Types
  <2>6. /\ req'[t].ptr = req[t].ptr /\ req'[t].new = req[t].new /\ req'[t].op = req[t].op
        /\ req'[t].pool = p /\ pc'[t] = "link"
    BY <2>1, <1>1 DEF SecInv, Types, Request
  <2>7. \A u \in Threads \ {t} : req'[u] = req[u] /\ pc'[u] = pc[u]
    BY <2>1 DEF SecInv, Types
  <2>8. ASSUME NEW u \in Threads PROVE ThreadOkay(u)'
    <3>1. CASE u = t
      <4>1. ThreadOkay(t)
        BY DEF SecInv
      <4> QED
        BY <3>1, <4>1, <2>1, <2>6, <1>1 DEF ThreadOkay, Locked
    <3>2. CASE u # t
      <4>1. pc[u] \notin Locked /\ req[u].new = Null
        BY <3>2, <1>1 DEF SecInv, ThreadOkay, Locked
      <4> QED
        BY <3>2, <4>1, <2>1, <2>7, OtherThread
    <3> QED
      BY <3>1, <3>2
  <2>9. NoneLost'
    <3> SUFFICES ASSUME NEW r \in okay', NEW o \in Active(r)'
                 PROVE  << r, o >> \in DOMAIN held' \/ \E u \in Threads : req'[u].new = << r, o >>
      BY DEF NoneLost
    <3>1. r \in okay /\ o \in Active(r)
      BY <2>1, <2>3
    <3>2. \A u \in Threads : req'[u].new = req[u].new
      BY <2>6, <2>7
    <3> QED
      BY <3>1, <3>2, <2>1 DEF SecInv, NoneLost
  <2>10. Distinct'
    <3>1. \A u \in Threads : req'[u].ptr = req[u].ptr
      BY <2>6, <2>7
    <3> QED
      BY <3>1 DEF SecInv, Distinct
  <2> QED
    BY <2>3, <2>5, <2>8, <2>9, <2>10 DEF SecInv
<1> QED
  BY <1>2, <1>3 DEF NewPool

(* What taking the block at o of pool p for n bytes does to the pools. *)
LEMMA BlockTaken ==
  ASSUME SecInv, NEW p \in okay, NEW n \in Nat, NEW o \in DOMAIN blocks[p],
         Fits(blocks[p], o, Rounded(n)), UNCHANGED << okay, size, next >>,
         blocks' = [ blocks EXCEPT ![p] = mb_get_new(blocks[p], size[p], o, Rounded(n)) ],
         secret' = [ secret EXCEPT ![p] = @ \union Payload(blocks'[p], o) ]
  PROVE  /\ DOMAIN blocks' = Pools /\ secret' \in [ Pools -> SUBSET Nat ]
         /\ PoolsTiled' /\ SecretsConfined' /\ UnusedClean' /\ LinksOkay'
         /\ Active(p)' = Active(p) \union {o} /\ o \notin Active(p)
         /\ \A r \in okay \ {p} : Active(r)' = Active(r)
         /\ \A r \in okay : \A b \in Active(r) : blocks'[r][b] = blocks[r][b]
         /\ \A q, m : Backed(q, m) => Backed(q, m)'
         /\ Backed(<< p, o >>, n)'
<1> DEFINE B == mb_get_new(blocks[p], size[p], o, Rounded(n))
<1>1. /\ p \in Pools /\ size[p] \in Nat
      /\ Tiled(blocks[p], size[p]) /\ Joined(blocks[p], size[p])
  BY DEF SecInv, Types, PoolsTiled
<1>2. Rounded(n) \in Nat /\ n <= Rounded(n)
  BY RoundedUp
<1>3. /\ Tiled(B, size[p]) /\ Joined(B, size[p])
      /\ InUse(B) = InUse(blocks[p]) \union {o} /\ o \notin InUse(blocks[p])
      /\ Rounded(n) <= B[o].size /\ B[o].size \in Nat
      /\ \A b \in InUse(blocks[p]) : B[b] = blocks[p][b]
  BY <1>1, <1>2, GetNewTiled
<1> HIDE DEF B
<1>4. /\ blocks'[p] = B /\ \A r \in Pools \ {p} : blocks'[r] = blocks[r]
      /\ DOMAIN blocks' = Pools
  BY <1>1 DEF SecInv, Types, B
<1>5. PoolsTiled' /\ LinksOkay'
  BY <1>3, <1>4 DEF SecInv, PoolsTiled, LinksOkay, Types
<1>6. /\ Active(p)' = Active(p) \union {o} /\ o \notin Active(p)
      /\ \A r \in okay \ {p} : Active(r)' = Active(r)
  BY <1>3, <1>4 DEF Active, SecInv, Types
<1>7. \A r \in okay : \A b \in Active(r) : blocks'[r][b] = blocks[r][b]
  BY <1>3, <1>4 DEF Active, SecInv, Types
<1>8. ASSUME NEW q, NEW m, Backed(q, m) PROVE Backed(q, m)'
  BY <1>6, <1>7, <1>8 DEF Backed
<1>9. Backed(<< p, o >>, n)'
  <2>1. o \in Nat
    BY <1>1, NextInPool
  <2>2. << p, o >> \in Pointers /\ << p, o >>[1] = p /\ << p, o >>[2] = o
    BY <2>1, <1>1 DEF Pointers
  <2> QED
    BY <2>2, <1>2, <1>3, <1>4, <1>6 DEF Backed
<1>10. o \in Nat /\ Payload(B, o) \subseteq Nat
  BY <1>1, <1>3, NextInPool, HeadAssumption DEF Payload, End
<1>11. secret'[p] = secret[p] \union Payload(B, o) /\ \A r \in Pools \ {p} : secret'[r] = secret[r]
  BY <1>1, <1>4 DEF SecInv, Types
<1>12. secret' \in [ Pools -> SUBSET Nat ]
  BY <1>1, <1>4, <1>10 DEF SecInv, Types
<1>13. SecretsConfined' /\ UnusedClean'
  <2>1. ASSUME NEW r \in Pools, NEW b \in secret'[r]
        PROVE  b \in UNION { Payload(blocks'[r], a) : a \in Active(r)' }
    <3>1. CASE r = p /\ b \in Payload(B, o)
      BY <3>1, <1>4, <1>6
    <3>2. CASE b \in secret[r]
      <4>1. PICK a \in Active(r) : b \in Payload(blocks[r], a)
        BY <3>2 DEF SecInv, SecretsConfined, UsedBytes, Active
      <4>2. CASE r = p
        <5>1. a \in Active(r)' /\ blocks'[r][a] = blocks[r][a]
          BY <4>1, <4>2, <1>6, <1>7
        <5> QED
          BY <4>1, <5>1 DEF Payload, End
      <4>3. CASE r # p
        <5>1. a \in Active(r)' /\ blocks'[r] = blocks[r]
          BY <4>1, <4>3, <1>4 DEF Active
        <5> QED
          BY <4>1, <5>1
      <4> QED
        BY <4>2, <4>3
    <3> QED
      BY <3>1, <3>2, <1>11
  <2> QED
    BY <2>1, <1>11 DEF SecretsConfined, UsedBytes, SecInv, UnusedClean, Active
<1> QED
  BY <1>4, <1>5, <1>6, <1>7, <1>8, <1>9, <1>12, <1>13

(* What giving back the block at q does to the pools. *)
LEMMA BlockFreed ==
  ASSUME SecInv, NEW q, NEW n, Backed(q, n), UNCHANGED << okay, size, next >>,
         blocks' = [ blocks EXCEPT ![q[1]] = Release(blocks[q[1]], size[q[1]], q[2]) ],
         secret' = [ secret EXCEPT ![q[1]] = @ \ Payload(blocks[q[1]], q[2]) ]
  PROVE  /\ DOMAIN blocks' = Pools /\ secret' \in [ Pools -> SUBSET Nat ]
         /\ PoolsTiled' /\ SecretsConfined' /\ UnusedClean' /\ LinksOkay'
         /\ Active(q[1])' = Active(q[1]) \ {q[2]}
         /\ \A r \in okay \ {q[1]} : Active(r)' = Active(r)
         /\ \A r \in okay : \A b \in Active(r)' : blocks'[r][b] = blocks[r][b]
         /\ \A x, m : Backed(x, m) /\ x # q => Backed(x, m)'
<1> DEFINE p == q[1]
           o == q[2]
           B == Release(blocks[p], size[p], o)
<1>1. /\ q \in Pointers /\ p \in okay /\ p \in Pools /\ o \in InUse(blocks[p]) /\ size[p] \in Nat
      /\ Tiled(blocks[p], size[p]) /\ Joined(blocks[p], size[p])
  BY DEF SecInv, Types, PoolsTiled, Backed, Active
<1>2. /\ Tiled(B, size[p]) /\ Joined(B, size[p])
      /\ InUse(B) = InUse(blocks[p]) \ {o}
      /\ \A b \in InUse(blocks[p]) \ {o} : B[b] = blocks[p][b]
  BY <1>1, ReleaseTiled
<1> HIDE DEF B
<1>3. /\ blocks'[p] = B /\ \A r \in Pools \ {p} : blocks'[r] = blocks[r]
      /\ DOMAIN blocks' = Pools
  BY <1>1 DEF SecInv, Types, B
<1>4. PoolsTiled' /\ LinksOkay'
  BY <1>2, <1>3 DEF SecInv, PoolsTiled, LinksOkay, Types
<1>5. /\ Active(p)' = Active(p) \ {o} /\ \A r \in okay \ {p} : Active(r)' = Active(r)
  BY <1>2, <1>3 DEF Active, SecInv, Types
<1>6. \A r \in okay : \A b \in Active(r)' : blocks'[r][b] = blocks[r][b]
  BY <1>2, <1>3, <1>5 DEF Active, SecInv, Types
<1>7. ASSUME NEW x, NEW m, Backed(x, m), x # q PROVE Backed(x, m)'
  <2>1. x[1] = p => x[2] # o
    BY <1>1, <1>7 DEF Backed, Pointers
  <2>2. x[2] \in Active(x[1])'
    BY <2>1, <1>5, <1>7 DEF Backed
  <2> QED
    BY <2>2, <1>6, <1>7 DEF Backed
<1>8. secret'[p] = secret[p] \ Payload(blocks[p], o) /\ \A r \in Pools \ {p} : secret'[r] = secret[r]
  BY <1>1 DEF SecInv, Types
<1>9. secret' \in [ Pools -> SUBSET Nat ]
  BY <1>1 DEF SecInv, Types
<1>10. SecretsConfined' /\ UnusedClean'
  <2>1. ASSUME NEW r \in Pools, NEW b \in secret'[r]
        PROVE  b \in UNION { Payload(blocks'[r], a) : a \in Active(r)' }
    <3>1. PICK a \in Active(r) : b \in Payload(blocks[r], a)
      BY <1>8 DEF SecInv, SecretsConfined, UsedBytes, Active
    <3>2. CASE r = p
      <4>1. a # o
        BY <3>1, <3>2, <1>8
      <4>2. a \in Active(r)' /\ blocks'[r][a] = blocks[r][a]
        BY <4>1, <3>1, <3>2, <1>1, <1>5, <1>6
      <4> QED
        BY <4>2, <3>1 DEF Payload, End
    <3>3. CASE r # p
      <4>1. a \in Active(r)' /\ blocks'[r] = blocks[r]
        BY <3>1, <3>3, <1>3 DEF Active
      <4> QED
        BY <3>1, <4>1
    <3> QED
      BY <3>2, <3>3
  <2> QED
    BY <2>1, <1>8, <1>1 DEF SecretsConfined, UsedBytes, SecInv, UnusedClean, Active
<1> QED
  BY <1>3, <1>4, <1>5, <1>6, <1>7, <1>9, <1>10

(* What TakeFrom does, with the block it finds named. *)
LEMMA TakeFromBlock ==
  ASSUME SecInv, NEW t \in Threads, NEW p \in okay, TakeFrom(t, p)
  PROVE  \E o \in DOMAIN blocks[p] :
           /\ Fits(blocks[p], o, Rounded(req[t].n))
           /\ blocks' = [ blocks EXCEPT ![p] = mb_get_new(blocks[p], size[p], o, Rounded(req[t].n)) ]
           /\ secret' = [ secret EXCEPT ![p] = @ \union Payload(blocks'[p], o) ]
           /\ cur_alloced' = [ cur_alloced EXCEPT ![p] = @ + blocks'[p][o].size ]
           /\ cur_blocks' = [ cur_blocks EXCEPT ![p] = @ + 1 ]
           /\ UNCHANGED << okay, size, next, flagVars, status, terms, stale >>
           /\ \/ req[t].op = "malloc" /\ ReturnWith(t, {}, { << p, o >> })
              \/ /\ req[t].op = "realloc"
                 /\ pc' = [ pc EXCEPT ![t] = "free" ] /\ req' = [ req EXCEPT ![t].new = << p, o >> ]
                 /\ held' = held /\ lock' = lock
<1>1. PICK o \in DOMAIN blocks[p] :
        LET B == mb_get_new(blocks[p], size[p], o, Rounded(req[t].n))
        IN  /\ FirstFit(blocks[p], o, Rounded(req[t].n))
            /\ blocks' = [ blocks EXCEPT ![p] = B ]
            /\ cur_alloced' = [ cur_alloced EXCEPT ![p] = @ + B[o].size ]
            /\ cur_blocks' = [ cur_blocks EXCEPT ![p] = @ + 1 ]
            /\ secret' = [ secret EXCEPT ![p] = @ \union Payload(B, o) ]
            /\ \/ /\ req[t].op = "malloc"
                  /\ ReturnWith(t, {}, { << p, o >> })
               \/ /\ req[t].op = "realloc"
                  /\ Goto(t, "free") /\ req' = [ req EXCEPT ![t].new = << p, o >> ]
                  /\ UNCHANGED << userVars, lock >>
  BY DEF TakeFrom, TakenBytes
<1>2. blocks'[p] = mb_get_new(blocks[p], size[p], o, Rounded(req[t].n))
  BY <1>1 DEF SecInv, Types
<1>3. UNCHANGED << okay, size, next, flagVars >>
  BY DEF TakeFrom
<1>4. UNCHANGED << status, terms, stale >>
  BY <1>1 DEF ReturnWith, userVars
<1>5. CASE req[t].op = "malloc" /\ ReturnWith(t, {}, { << p, o >> })
  BY <1>1, <1>2, <1>3, <1>4, <1>5 DEF FirstFit
<1>6. CASE /\ req[t].op = "realloc"
           /\ Goto(t, "free") /\ req' = [ req EXCEPT ![t].new = << p, o >> ]
           /\ UNCHANGED << userVars, lock >>
  BY <1>1, <1>2, <1>3, <1>4, <1>6 DEF FirstFit, Goto, userVars
<1> QED
  BY <1>1, <1>5, <1>6

(* What taking a block for a call does to all of the state. *)
LEMMA TakeOkay ==
  ASSUME SecInv, NEW t \in Threads, NEW p \in okay, TakeFrom(t, p),
         pc[t] \in Locked \ {"free"}
  PROVE  SecInv'
<1>1. lock = t /\ req[t].new = Null /\ req[t] \in Request /\ p \in Pools
  BY DEF SecInv, ThreadOkay, Types
<1>2. PICK o \in DOMAIN blocks[p] :
        /\ Fits(blocks[p], o, Rounded(req[t].n))
        /\ blocks' = [ blocks EXCEPT ![p] = mb_get_new(blocks[p], size[p], o, Rounded(req[t].n)) ]
        /\ secret' = [ secret EXCEPT ![p] = @ \union Payload(blocks'[p], o) ]
        /\ UNCHANGED << okay, size, next, auto_expand >>
        /\ \/ req[t].op = "malloc" /\ ReturnWith(t, {}, { << p, o >> })
           \/ /\ req[t].op = "realloc"
              /\ pc' = [ pc EXCEPT ![t] = "free" ] /\ req' = [ req EXCEPT ![t].new = << p, o >> ]
              /\ held' = held /\ lock' = lock
  BY TakeFromBlock, SMTT(30) DEF flagVars
<1> DEFINE q == << p, o >>
<1>3. PICK n \in Nat : n = req[t].n
  BY <1>1 DEF Request
<1>4. /\ DOMAIN blocks' = Pools /\ secret' \in [ Pools -> SUBSET Nat ]
      /\ PoolsTiled' /\ SecretsConfined' /\ UnusedClean' /\ LinksOkay'
      /\ Active(p)' = Active(p) \union {o} /\ o \notin Active(p)
      /\ \A r \in okay \ {p} : Active(r)' = Active(r)
      /\ \A x, m : Backed(x, m) => Backed(x, m)'
      /\ Backed(q, n)'
  BY <1>2, <1>3, BlockTaken
<1>5. q \in Pointers /\ q # Null /\ q # Plain /\ q[1] = p /\ q[2] = o
  BY <1>4, PoolsAssumption DEF Backed, Pointers
<1>6. q \notin DOMAIN held
  BY <1>4, <1>5 DEF SecInv, HeldOkay, Backed
<1>7. NoRequest \in Request
  BY PoolsAssumption DEF NoRequest, Request
<1>8. ASSUME NEW u \in Threads \ {t} PROVE pc[u] \notin Locked /\ req[u].new = Null
  BY <1>1 DEF SecInv, ThreadOkay, Locked
<1>9. ASSUME NEW r \in okay', NEW b \in Active(r)'
      PROVE  \/ << r, b >> = q
             \/ << r, b >> \in DOMAIN held
  <2>1. << r, b >> = q \/ (r \in okay /\ b \in Active(r))
    BY <1>2, <1>4
  <2>2. \A u \in Threads : req[u].new = Null
    BY <1>1, <1>8
  <2>3. << r, b >> # Null \/ << r, b >> = q
    <3>1. CASE r \in okay /\ b \in Active(r)
      <4>1. b \in Nat /\ r \in Pools
        BY <3>1, NextInPool DEF SecInv, PoolsTiled, Active, InUse, Types, Tiled
      <4> QED
        BY <4>1, PoolsAssumption
    <3> QED
      BY <2>1, <3>1
  <2> QED
    BY <2>1, <2>2, <2>3 DEF SecInv, NoneLost
<1>10. CASE req[t].op = "malloc" /\ ReturnWith(t, {}, {q})
  <2>1. /\ pc' = [ pc EXCEPT ![t] = "idle" ] /\ req' = [ req EXCEPT ![t] = NoRequest ]
        /\ DOMAIN held' = DOMAIN held \union {q} /\ held'[q] = req[t].n
        /\ \A x \in DOMAIN held : held'[x] = held[x]
    BY <1>6, <1>10 DEF ReturnWith, EndCall, Goto
  <2>2. Types'
    BY <2>1, <1>2, <1>4, <1>5, <1>7 DEF SecInv, Types, Steps
  <2>3. HeldOkay'
    <3> SUFFICES ASSUME NEW x \in DOMAIN held' \ {Plain} PROVE Backed(x, held[x])'
      BY DEF HeldOkay
    <3>1. CASE x = q
      BY <3>1, <2>1, <1>3, <1>4 DEF Backed
    <3>2. CASE x # q
      <4>1. x \in DOMAIN held /\ Backed(x, held[x]) /\ held'[x] = held[x]
        BY <3>2, <2>1 DEF SecInv, HeldOkay
      <4> QED
        BY <4>1, <1>4 DEF Backed
    <3> QED
      BY <3>1, <3>2
  <2>4. NoneLost'
    BY <2>1, <1>9 DEF NoneLost
  <2>5. ASSUME NEW u \in Threads PROVE ThreadOkay(u)'
    <3>1. CASE u = t
      <4>1. pc'[u] = "idle" /\ req'[u] = NoRequest
        BY <3>1, <2>1 DEF SecInv, Types
      <4> QED
        BY <4>1, PoolsAssumption DEF ThreadOkay, NoRequest, Locked, Pointers
    <3>2. CASE u # t
      <4>1. pc'[u] = pc[u] /\ req'[u] = req[u] /\ req[u].new = Null /\ lock # u
        BY <3>2, <2>1, <1>1, <1>8 DEF SecInv, Types
      <4> QED
        BY <4>1, <2>1, <1>2, OtherThread
    <3> QED
      BY <3>1, <3>2
  <2>6. Distinct'
    <3>1. \A w \in Threads : req'[w].ptr = Null \/ req'[w].ptr = req[w].ptr
      BY <2>1 DEF SecInv, Types, NoRequest
    <3> QED
      BY <3>1 DEF SecInv, Distinct
  <2> QED
    BY <2>2, <2>3, <2>4, <2>5, <2>6, <1>4 DEF SecInv
<1>11. CASE /\ req[t].op = "realloc"
            /\ pc' = [ pc EXCEPT ![t] = "free" ] /\ req' = [ req EXCEPT ![t].new = q ]
            /\ held' = held /\ lock' = lock
  <2>1. /\ req'[t].ptr = req[t].ptr /\ req'[t].new = q /\ req'[t].op = req[t].op
        /\ req'[t].n = req[t].n /\ pc'[t] = "free"
    BY <1>1, <1>11 DEF SecInv, Types, Request
  <2>2. \A u \in Threads \ {t} : req'[u] = req[u] /\ pc'[u] = pc[u]
    BY <1>11 DEF SecInv, Types
  <2>3. Types'
    <3>1. req' \in [ Threads -> Request ] /\ pc' \in [ Threads -> Steps ]
      BY <1>1, <1>5, <1>11 DEF SecInv, Types, Request, Steps, Locked
    <3> QED
      BY <3>1, <1>2, <1>4, <1>11 DEF SecInv, Types
  <2>4. HeldOkay'
    <3> SUFFICES ASSUME NEW x \in DOMAIN held' \ {Plain} PROVE Backed(x, held[x])'
      BY DEF HeldOkay
    <3> QED
      BY <1>4, <1>11 DEF SecInv, HeldOkay, Backed
  <2>5. NoneLost'
    BY <2>1, <1>9, <1>11 DEF NoneLost
  <2>6. ASSUME NEW u \in Threads PROVE ThreadOkay(u)'
    <3>1. CASE u = t
      <4>1. ThreadOkay(t) /\ req[t].ptr \in Pointers /\ req[t].ptr \in DOMAIN held
        BY <1>11 DEF SecInv, ThreadOkay
      <4>2. Backed(req[t].new, req[t].n)'
        BY <2>1, <1>3, <1>4 DEF Backed
      <4> QED
        BY <3>1, <4>1, <4>2, <2>1, <1>1, <1>6, <1>11 DEF ThreadOkay, Locked
    <3>2. CASE u # t
      <4>1. pc'[u] = pc[u] /\ req'[u] = req[u] /\ req[u].new = Null
        BY <3>2, <2>2, <1>8
      <4> QED
        BY <4>1, <1>2, <1>11, OtherThread
    <3> QED
      BY <3>1, <3>2
  <2>7. Distinct'
    <3>1. \A w \in Threads : req'[w].ptr = req[w].ptr
      BY <2>1, <2>2
    <3> QED
      BY <3>1 DEF SecInv, Distinct
  <2> QED
    BY <2>3, <2>4, <2>5, <2>6, <2>7, <1>4 DEF SecInv
<1> QED
  BY <1>2, <1>10, <1>11

(* What freeing the block of a call does to all of the state. *)
LEMMA FreeOkay ==
  ASSUME SecInv, NEW t \in Threads, Freed(t)
  PROVE  SecInv'
<1> DEFINE q == req[t].ptr
           got == {req[t].new} \ {Null}
<1>1. pc[t] = "free" /\ lock = t /\ q \in Pointers /\ q \in DOMAIN held /\ req[t] \in Request
  BY DEF Freed, At, SecInv, ThreadOkay, Types, Locked
<1>2. q # Plain /\ q # Null /\ Backed(q, held[q])
  BY <1>1, PoolsAssumption DEF Pointers, SecInv, HeldOkay
<1>3. /\ UNCHANGED << okay, size, next, auto_expand >>
      /\ blocks' = [ blocks EXCEPT ![q[1]] = Release(blocks[q[1]], size[q[1]], q[2]) ]
      /\ secret' = [ secret EXCEPT ![q[1]] = @ \ Payload(blocks[q[1]], q[2]) ]
      /\ ReturnWith(t, {q}, got)
  BY DEF Freed, WipeOut, flagVars
<1>4. PICK x, m : x = q /\ m = held[q]
  OBVIOUS
<1>5. Backed(x, m)
  BY <1>2, <1>4
<1>6. /\ DOMAIN blocks' = Pools /\ secret' \in [ Pools -> SUBSET Nat ]
      /\ PoolsTiled' /\ SecretsConfined' /\ UnusedClean' /\ LinksOkay'
      /\ Active(x[1])' = Active(x[1]) \ {x[2]}
      /\ \A r \in okay \ {x[1]} : Active(r)' = Active(r)
      /\ \A y, k : Backed(y, k) /\ y # x => Backed(y, k)'
  BY <1>3, <1>4, <1>5, BlockFreed
<1>7. /\ pc' = [ pc EXCEPT ![t] = "idle" ] /\ req' = [ req EXCEPT ![t] = NoRequest ]
      /\ DOMAIN held' = (DOMAIN held \ {q}) \union got
      /\ \A y \in DOMAIN held' : held'[y] = IF y \in got THEN req[t].n ELSE held[y]
  BY <1>3 DEF ReturnWith, EndCall, Goto
<1>8. \A y \in got : Backed(y, req[t].n) /\ y \notin DOMAIN held
  BY <1>1 DEF SecInv, ThreadOkay
<1>9. ASSUME NEW u \in Threads \ {t} PROVE pc[u] \notin Locked /\ req[u].new = Null
  BY <1>1 DEF SecInv, ThreadOkay, Locked
<1>10. Types'
  <2>1. NoRequest \in Request
    BY PoolsAssumption DEF NoRequest, Request
  <2>2. got \subseteq Pointers
    BY <1>8 DEF Backed
  <2> QED
    BY <2>1, <2>2, <1>3, <1>6, <1>7 DEF SecInv, Types, Steps
<1>11. HeldOkay'
  <2> SUFFICES ASSUME NEW y \in DOMAIN held' \ {Plain} PROVE Backed(y, held[y])'
    BY DEF HeldOkay
  <2>1. PICK k : k = held'[y]
    OBVIOUS
  <2>2. Backed(y, k) /\ y # x
    <3>1. CASE y \in got
      BY <3>1, <2>1, <1>1, <1>4, <1>7, <1>8
    <3>2. CASE y \notin got
      <4>1. y \in DOMAIN held \ {Plain} /\ y # q /\ k = held[y]
        BY <3>2, <2>1, <1>7
      <4> QED
        BY <4>1, <1>4 DEF SecInv, HeldOkay
    <3> QED
      BY <3>1, <3>2
  <2>3. Backed(y, k)'
    BY <2>2, <1>6
  <2> QED
    BY <2>1, <2>3 DEF Backed
<1>12. NoneLost'
  <2> SUFFICES ASSUME NEW r \in okay', NEW o \in Active(r)'
               PROVE  << r, o >> \in DOMAIN held' \/ \E u \in Threads : req'[u].new = << r, o >>
    BY DEF NoneLost
  <2>1. r \in okay /\ o \in Active(r) /\ << r, o >> # q
    <3>1. r \in okay
      BY <1>3
    <3>2. CASE r = x[1]
      BY <3>1, <3>2, <1>4, <1>6
    <3>3. CASE r # x[1]
      BY <3>1, <3>3, <1>4, <1>6
    <3> QED
      BY <3>2, <3>3
  <2>2. << r, o >> # Null
    <3>1. o \in Nat /\ r \in Pools
      BY <2>1, NextInPool DEF SecInv, PoolsTiled, Active, InUse, Types, Tiled
    <3> QED
      BY <3>1, PoolsAssumption
  <2>3. << r, o >> \in DOMAIN held \/ << r, o >> \in got
    BY <2>1, <2>2, <1>9 DEF SecInv, NoneLost
  <2> QED
    BY <2>1, <2>3, <1>7
<1>13. ASSUME NEW u \in Threads PROVE ThreadOkay(u)'
  <2>1. CASE u = t
    <3>1. pc'[u] = "idle" /\ req'[u] = NoRequest
      BY <2>1, <1>7 DEF SecInv, Types
    <3> QED
      BY <3>1, PoolsAssumption DEF ThreadOkay, NoRequest, Locked, Pointers
  <2>2. CASE u # t
    <3>1. pc'[u] = pc[u] /\ req'[u] = req[u] /\ req[u].new = Null /\ lock # u
      BY <2>2, <1>1, <1>7, <1>9 DEF SecInv, Types
    <3>2. req[u].ptr # q
      BY <2>2, <1>2 DEF SecInv, Distinct
    <3> QED
      BY <3>1, <3>2, <1>3, <1>7, OtherThread
  <2> QED
    BY <2>1, <2>2
<1>14. Distinct'
  <2>1. \A w \in Threads : req'[w].ptr = Null \/ req'[w].ptr = req[w].ptr
    BY <1>7 DEF SecInv, Types, NoRequest
  <2> QED
    BY <2>1 DEF SecInv, Distinct
<1> QED
  BY <1>6, <1>10, <1>11, <1>12, <1>13, <1>14 DEF SecInv

(* A step that changes nothing but the settings and the outcome. *)
LEMMA FlagStep ==
  ASSUME SecInv, UNCHANGED << poolVars, held, pc, req, lock >>,
         auto_expand' = 0 \/ (auto_expand' \in Nat /\ HeadSize < auto_expand')
  PROVE  SecInv'
<1>1. Types' /\ PoolsTiled' /\ LinksOkay' /\ SecretsConfined' /\ UnusedClean'
  BY DEF SecInv, poolVars, Types, PoolsTiled, LinksOkay, SecretsConfined, UsedBytes, UnusedClean, Active
<1>2. HeldOkay' /\ NoneLost' /\ Distinct'
  BY DEF SecInv, poolVars, HeldOkay, Backed, NoneLost, Distinct, Active
<1>3. \A t \in Threads : ThreadOkay(t)'
  BY DEF SecInv, poolVars, ThreadOkay, Backed, Active
<1> QED
  BY <1>1, <1>2, <1>3 DEF SecInv

(* The settings of an application. *)
LEMMA SettingOkay == ASSUME SecInv, Setting PROVE SecInv'
<1>1. CASE \E n \in InitSizes : InitSecmem(n)
  <2>1. PICK n \in InitSizes : InitSecmem(n)
    BY <1>1
  <2>2. n \in Nat
    BY SizesAssumption
  <2>3. CASE SetUpMain(MainSize(n)) /\ UNCHANGED << auto_expand, userVars >>
    BY <2>1, <2>2, <2>3, MainSetUp DEF InitSecmem, userVars
  <2>4. CASE NoMainPool
    <3>1. UNCHANGED << poolVars, held, pc, req, lock, auto_expand >>
      BY <2>1, <2>4 DEF InitSecmem, NoMainPool, flagVars
    <3> QED
      BY <3>1, FlagStep DEF SecInv, Types
  <2> QED
    BY <2>1, <2>3, <2>4 DEF InitSecmem
<1>2. CASE DropPrivs \/ DisableSecmem
  BY <1>2, FlagStep DEF DropPrivs, DisableSecmem, userVars, SecInv, Types
<1>3. CASE \E nomlock \in BOOLEAN : SetFlags(nomlock)
  BY <1>3, FlagStep DEF SetFlags, userVars, SecInv, Types
<1>4. CASE \E n \in ChunkSizes : SetAutoExpand(n)
  <2>1. PICK n \in ChunkSizes : SetAutoExpand(n)
    BY <1>4
  <2>2. RoundedChunk(n) \in Nat /\ HeadSize < RoundedChunk(n)
    BY SizesAssumption, PoolSizes
  <2> QED
    BY <2>1, <2>2, FlagStep DEF SetAutoExpand, userVars
<1> QED
  BY <1>1, <1>2, <1>3, <1>4 DEF Setting

(* The beginning of a call. *)
LEMMA CallOkay == ASSUME SecInv, NEW t \in Threads, Call(t) PROVE SecInv'
<1>1. ASSUME NEW step \in Steps \ Locked, NEW r \in Request, Begin(t, step, r),
             r.new = Null, r.ptr = Null \/ Untouched(r.ptr),
             r.ptr \in Pointers => r.ptr \in DOMAIN held,
             \/ step = "lock" /\ r.op = "malloc" /\ r.ptr = Null
             \/ step = "walk" /\ r.op \in {"free", "realloc"} /\ r.ptr # Null /\ r.pool \in Pools
      PROVE  SecInv'
  <2>1. /\ pc' = [ pc EXCEPT ![t] = step ] /\ req' = [ req EXCEPT ![t] = r ]
        /\ pc[t] = "idle" /\ UNCHANGED << poolVars, flagVars, userVars, lock >>
    BY <1>1 DEF Begin, Goto, At
  <2>2. pc'[t] = step /\ req'[t] = r /\ req[t].new = Null
    BY <2>1 DEF SecInv, Types, ThreadOkay
  <2>3. \A u \in Threads \ {t} : pc'[u] = pc[u] /\ req'[u] = req[u] /\ (lock = u => lock' = u)
    BY <2>1 DEF SecInv, Types
  <2>4. pc' \in [ Threads -> Steps ] /\ req' \in [ Threads -> Request ]
    BY <2>1, <1>1 DEF SecInv, Types
  <2>5. held' = held /\ auto_expand' = auto_expand
    BY <2>1 DEF userVars, flagVars
  <2>6. ThreadOkay(t)'
    BY <2>2, <2>5, <1>1 DEF ThreadOkay, Locked, Steps
  <2> QED
    BY <2>1, <2>2, <2>3, <2>4, <2>5, <2>6, <1>1, LocalStep DEF SecInv, Types
<1>2. CASE \E n \in Requests, xhint \in BOOLEAN : Malloc(t, n, xhint)
  <2>1. PICK n \in Requests, xhint \in BOOLEAN : Malloc(t, n, xhint)
    BY <1>2
  <2> DEFINE r == [ NoRequest EXCEPT !.op = "malloc", !.n = n, !.xhint = xhint ]
  <2>2. r \in Request /\ r.new = Null /\ r.ptr = Null /\ r.op = "malloc"
    BY SizesAssumption DEF NoRequest, Request
  <2>3. Begin(t, "lock", r)
    BY <2>1 DEF Malloc
  <2>4. "lock" \in Steps \ Locked
    BY DEF Steps, Locked
  <2> HIDE DEF r
  <2>5. r.ptr \notin Pointers
    BY <2>2, PoolsAssumption DEF Pointers
  <2> QED
    BY <2>2, <2>3, <2>4, <2>5, <1>1
<1>3. "walk" \in Steps \ Locked /\ Main \in Pools
  BY DEF Steps, Locked, Pools
<1>4. \A q \in DOMAIN held : q \in Pointers \union {Plain} /\ q # Null
  BY PoolsAssumption DEF SecInv, Types, Pointers
<1>5. CASE \E q \in DOMAIN held : FreeCall(t, q)
  <2>1. PICK q \in DOMAIN held : FreeCall(t, q)
    BY <1>5
  <2> DEFINE r == [ NoRequest EXCEPT !.op = "free", !.ptr = q, !.pool = Main ]
  <2>2. r \in Request /\ r.new = Null /\ r.ptr = q /\ r.op = "free" /\ r.pool = Main
    BY <1>3, <1>4 DEF NoRequest, Request
  <2>3. Begin(t, "walk", r) /\ Untouched(q)
    BY <2>1 DEF FreeCall
  <2> HIDE DEF r
  <2> QED
    BY <2>2, <2>3, <1>1, <1>3, <1>4
<1>6. CASE \E q \in DOMAIN held, n \in Requests, xhint \in BOOLEAN : Realloc(t, q, n, xhint)
  <2>1. PICK q \in DOMAIN held, n \in Requests, xhint \in BOOLEAN : Realloc(t, q, n, xhint)
    BY <1>6
  <2> DEFINE r == [ op |-> "realloc", ptr |-> q, n |-> n, xhint |-> xhint,
                    pool |-> Main, new |-> Null ]
  <2>2. r \in Request /\ r.new = Null /\ r.ptr = q /\ r.op = "realloc" /\ r.pool = Main
    BY <1>3, <1>4, SizesAssumption DEF Request
  <2>3. Begin(t, "walk", r) /\ Untouched(q)
    BY <2>1 DEF Realloc
  <2> HIDE DEF r
  <2> QED
    BY <2>2, <2>3, <1>1, <1>3, <1>4
<1> QED
  BY <1>2, <1>5, <1>6 DEF Call

(* A step of thread t within its call, on unchanged pools: to `step', with *)
(* r as its locals.                                                        *)
LEMMA Moves ==
  ASSUME SecInv, NEW t \in Threads, NEW step \in Steps, NEW r \in Request,
         pc' = [ pc EXCEPT ![t] = step ], req' = [ req EXCEPT ![t] = r ],
         UNCHANGED << poolVars, auto_expand, held >>,
         lock' = lock \/ lock = Free, step \in Locked => lock' = t,
         (r.ptr = req[t].ptr /\ r.op = req[t].op) \/ r.ptr = Null,
         r.new = req[t].new, pc[t] # "free",
         step = "idle" => r.ptr = Null,
         step = "walk" => r.pool \in Pools /\ r.op \in {"free", "realloc"} /\ r.ptr # Null,
         step = "lock" => r.op # "none",
         step \in {"search", "link", "publish", "take"} => r.pool \in okay,
         step \in {"free", "realloc"} => r.ptr \in Pointers,
         step \in {"lock"} \union Locked /\ r.op # "malloc" => r.ptr \in Pointers
  PROVE  SecInv'
<1>1. /\ pc'[t] = step /\ req'[t] = r
      /\ pc' \in [ Threads -> Steps ] /\ req' \in [ Threads -> Request ]
  BY DEF SecInv, Types
<1>2. \A u \in Threads \ {t} : pc'[u] = pc[u] /\ req'[u] = req[u] /\ (lock = u => lock' = u)
  BY PoolsAssumption DEF SecInv, Types
<1>3. ThreadOkay(t) /\ r.new = Null
  BY DEF SecInv, ThreadOkay
<1>4. ThreadOkay(t)'
  <2>1. r.op = "malloc" => r.ptr = Null
    BY <1>3 DEF ThreadOkay
  <2>2. r.ptr \in Pointers => r.ptr \in DOMAIN held'
    BY <1>3, PoolsAssumption DEF ThreadOkay, Pointers
  <2>3. okay' = okay
    BY DEF poolVars
  <2> QED
    BY <1>1, <1>3, <2>1, <2>2, <2>3 DEF ThreadOkay
<1>5. req'[t].ptr \in {req[t].ptr, Plain, Null} /\ req'[t].new = req[t].new
  BY <1>1
<1> QED
  BY <1>1, <1>2, <1>4, <1>5, LocalStep DEF SecInv, Types

(* The walk through the list of pools, and the C library's free. *)
LEMMA WalkOkay == ASSUME SecInv, NEW t \in Threads, Walk(t) \/ Libc(t) PROVE SecInv'
<1>1. req[t] \in Request /\ ThreadOkay(t) /\ NoRequest \in Request
  BY PoolsAssumption DEF SecInv, Types, NoRequest, Request
<1>2. req = [ req EXCEPT ![t] = req[t] ] /\ pc = [ pc EXCEPT ![t] = pc[t] ]
  BY DEF SecInv, Types
<1>3. {"walk", "lock", "libc", "idle"} \subseteq Steps \ Locked
  BY DEF Steps, Locked
<1>4. CASE Walk(t)
  <2>1. /\ pc[t] = "walk" /\ UNCHANGED << poolVars, auto_expand, held, lock >>
        /\ req[t].pool \in Pools /\ req[t].op \in {"free", "realloc"} /\ req[t].ptr # Null
    BY <1>1, <1>4 DEF Walk, At, flagVars, userVars, ThreadOkay
  <2>2. CASE Inside(req[t].ptr, req[t].pool) /\ Goto(t, "lock") /\ UNCHANGED req
    <3>1. req[t].ptr \in Pointers
      BY <1>1, <2>1, <2>2 DEF Inside, Request
    <3> QED
      BY <1>1, <1>2, <1>3, <2>1, <2>2, <3>1, Moves DEF Goto
  <2>3. CASE next[req[t].pool] # Null /\ req' = [ req EXCEPT ![t].pool = next[req[t].pool] ] /\ UNCHANGED pc
    <3> DEFINE r == [ req[t] EXCEPT !.pool = next[req[t].pool] ]
    <3>1. next[req[t].pool] \in Pools
      BY <2>1, <2>3 DEF SecInv, Types
    <3>2. /\ r \in Request /\ r.ptr = req[t].ptr /\ r.op = req[t].op /\ r.new = req[t].new
          /\ r.pool \in Pools
      BY <1>1, <3>1 DEF Request
    <3>3. req' = [ req EXCEPT ![t] = r ]
      BY <2>3
    <3> HIDE DEF r
    <3>4. pc' = [ pc EXCEPT ![t] = "walk" ] /\ "walk" \in Steps /\ "walk" \notin Locked
      BY <1>2, <1>3, <2>1, <2>3
    <3> QED
      BY <2>1, <3>2, <3>3, <3>4, Moves
  <2>4. CASE Goto(t, "libc") /\ UNCHANGED req
    BY <1>1, <1>2, <1>3, <2>1, <2>4, Moves DEF Goto
  <2> QED
    BY <1>4, <2>2, <2>3, <2>4 DEF Walk
<1>5. CASE Libc(t)
  <2>1. /\ pc[t] = "libc" /\ UNCHANGED << poolVars, auto_expand, held, lock >>
        /\ pc' = [ pc EXCEPT ![t] = "idle" ] /\ req' = [ req EXCEPT ![t] = NoRequest ]
    BY <1>5 DEF Libc, At, EndCall, Goto, flagVars
  <2>2. NoRequest.ptr = Null /\ NoRequest.new = req[t].new
    BY <1>1, <2>1 DEF NoRequest, ThreadOkay
  <2> QED
    BY <1>1, <1>3, <2>1, <2>2, Moves
<1> QED
  BY <1>4, <1>5

(* Entering secmem_lock. *)
LEMMA LockOkay == ASSUME SecInv, NEW t \in Threads, Lock(t) PROVE SecInv'
<1>1. /\ req[t] \in Request /\ ThreadOkay(t) /\ pc[t] = "lock" /\ lock = Free /\ lock' = t
      /\ UNCHANGED << poolVars, auto_expand, held >>
  BY DEF SecInv, Types, Lock, At, flagVars, userVars
<1>2. req' = [ req EXCEPT ![t] = req[t] ]
  BY DEF SecInv, Types, Lock
<1>3. PICK step : step = IF req[t].op = "malloc" THEN "main" ELSE req[t].op
  OBVIOUS
<1>4. step \in {"main", "free", "realloc"} /\ (step # "main" => req[t].op # "malloc")
  BY <1>1, <1>3 DEF ThreadOkay, Request
<1>5. step \in Steps /\ pc' = [ pc EXCEPT ![t] = step ]
  BY <1>3, <1>4 DEF Steps, Locked, Lock, Goto
<1>6. step \in Locked /\ (req[t].op # "malloc" => req[t].ptr \in Pointers)
  BY <1>1, <1>4 DEF Locked, ThreadOkay
<1> QED
  BY <1>1, <1>2, <1>4, <1>5, <1>6, Moves

(* Going on to a pool of the list, or past the last one. *)
LEMMA SearchOkay ==
  ASSUME SecInv, NEW t \in Threads, pc[t] \in Locked \ {"free"},
         NEW p \in okay, SearchAt(t, next[p])
  PROVE  SecInv'
<1>1. /\ req[t] \in Request /\ ThreadOkay(t) /\ UNCHANGED << poolVars, auto_expand, held, lock >>
      /\ lock = t /\ p \in Pools
  BY DEF SecInv, Types, SearchAt, flagVars, userVars, ThreadOkay
<1>2. next[p] \in Pools \union {Null} /\ (next[p] # Null => next[p] \in okay)
  BY <1>1 DEF SecInv, Types, LinksOkay
<1> DEFINE r == [ req[t] EXCEPT !.pool = next[p] ]
<1>3. PICK step : step = IF next[p] = Null THEN "expand" ELSE "search"
  OBVIOUS
<1>4. /\ r \in Request /\ r.ptr = req[t].ptr /\ r.op = req[t].op /\ r.new = req[t].new
      /\ r.pool = next[p]
  BY <1>1, <1>2 DEF Request
<1>5. req' = [ req EXCEPT ![t] = r ] /\ pc' = [ pc EXCEPT ![t] = step ]
  BY <1>3 DEF SearchAt, Goto
<1> HIDE DEF r
<1>6. step \in Steps /\ step \in Locked /\ step \in {"expand", "search"}
  BY <1>3 DEF Steps, Locked
<1>7. r.op # "malloc" => r.ptr \in Pointers
  BY <1>1, <1>4 DEF ThreadOkay
<1>8. step = "search" => r.pool \in okay
  BY <1>2, <1>3, <1>4
<1> QED
  BY <1>1, <1>4, <1>5, <1>6, <1>7, <1>8, Moves

(* The search through the pools. *)
LEMMA PoolOkay ==
  ASSUME SecInv, NEW t \in Threads, MainPool(t) \/ SearchPool(t) \/ NewBlock(t)
  PROVE  SecInv'
<1>1. ASSUME pc[t] \in Locked \ {"free"}, ReturnNull(t) PROVE SecInv'
  BY <1>1, BareReturn DEF ReturnNull
<1>2. CASE MainPool(t)
  <2>1. pc[t] = "main" /\ pc[t] \in Locked \ {"free"}
    BY <1>2 DEF MainPool, At, Locked
  <2>2. CASE /\ Main \notin okay /\ SetUpMain(MainSize(Standard))
             /\ UNCHANGED << disable_secmem, no_mlock, auto_expand, fips, no_secure_memory, userVars,
                             lock, pc, req >>
    BY <2>2, SizesAssumption, MainSetUp DEF userVars
  <2>3. CASE NoMainPool /\ UNCHANGED << lock, pc, req >>
    <3>1. UNCHANGED << poolVars, held, auto_expand >>
      BY <2>3 DEF NoMainPool, flagVars
    <3> QED
      BY <2>3, <3>1, FlagStep DEF SecInv, Types
  <2>4. CASE Main \in okay /\ TakeFrom(t, Main)
    BY <2>1, <2>4, TakeOkay
  <2>5. CASE Main \in okay /\ SearchAt(t, next[Main])
    BY <2>1, <2>5, SearchOkay
  <2>6. CASE ReturnNull(t)
    BY <1>1, <2>1, <2>6
  <2> QED
    BY <1>2, <2>2, <2>3, <2>4, <2>5, <2>6 DEF MainPool
<1>3. CASE SearchPool(t)
  <2>1. pc[t] = "search" /\ pc[t] \in Locked \ {"free"} /\ req[t].pool \in okay
    BY <1>3 DEF SearchPool, At, Locked, SecInv, ThreadOkay
  <2> QED
    BY <1>3, <2>1, TakeOkay, SearchOkay DEF SearchPool
<1>4. CASE NewBlock(t)
  <2>1. pc[t] = "take" /\ pc[t] \in Locked \ {"free"} /\ req[t].pool \in okay
    BY <1>4 DEF NewBlock, At, Locked, SecInv, ThreadOkay
  <2> QED
    BY <1>1, <1>4, <2>1, TakeOkay DEF NewBlock
<1> QED
  BY <1>2, <1>3, <1>4

(* A realloc that does not need a larger block. *)
LEMMA ResizeOkay == ASSUME SecInv, NEW t \in Threads, Resize(t) PROVE SecInv'
<1>1. /\ req[t] \in Request /\ ThreadOkay(t) /\ pc[t] = "realloc"
      /\ pc[t] \in Locked \ {"free"} /\ lock = t
      /\ req[t].ptr \in Pointers /\ req[t].ptr \in DOMAIN held
  BY DEF SecInv, Types, Resize, At, ThreadOkay, Locked
<1>2. CASE /\ req[t].n < blocks[req[t].ptr[1]][req[t].ptr[2]].size
           /\ ReturnWith(t, {}, {req[t].ptr}) /\ UNCHANGED << poolVars, flagVars >>
  <2>1. req[t].ptr # Plain /\ Backed(req[t].ptr, held[req[t].ptr])
    BY <1>1, PoolsAssumption DEF SecInv, HeldOkay, Pointers
  <2>2. blocks[req[t].ptr[1]][req[t].ptr[2]].size \in Nat
    <3>1. Tiled(blocks[req[t].ptr[1]], size[req[t].ptr[1]])
      BY <2>1 DEF SecInv, PoolsTiled, Backed
    <3>2. req[t].ptr[2] \in DOMAIN blocks[req[t].ptr[1]]
      BY <2>1 DEF Backed, Active, InUse
    <3> QED
      BY <3>1, <3>2 DEF Tiled, memblock
  <2>3. Backed(req[t].ptr, req[t].n)
    BY <1>1, <1>2, <2>1, <2>2 DEF Backed, Request
  <2>4. {req[t].ptr} \in SUBSET DOMAIN held
    BY <1>1
  <2> QED
    BY <1>1, <1>2, <2>3, <2>4, BareReturn
<1>3. CASE Goto(t, "main") /\ UNCHANGED << poolVars, flagVars, userVars, lock, req >>
  <2>1. UNCHANGED << auto_expand, held >> /\ "main" \in Steps /\ "main" \in Locked
    BY <1>3 DEF flagVars, userVars, Steps, Locked
  <2>2. req' = [ req EXCEPT ![t] = req[t] ]
    BY <1>3 DEF SecInv, Types
  <2>3. req[t].op # "malloc" => req[t].ptr \in Pointers
    BY <1>1
  <2> QED
    BY <1>1, <1>3, <2>1, <2>2, <2>3, Moves DEF Goto
<1> QED
  BY <1>2, <1>3 DEF Resize

(* The two stores that put a new pool into the list. *)
LEMMA LinkOkay == ASSUME SecInv, NEW t \in Threads, Link(t) PROVE SecInv'
<1>1. /\ pc[t] \in {"link", "publish"} /\ Goto(t, IF pc[t] = "link" THEN "publish" ELSE "take")
      /\ \/ next' = [ next EXCEPT ![req[t].pool] = next[Main] ]
         \/ next' = [ next EXCEPT ![Main] = req[t].pool ]
      /\ UNCHANGED << okay, size, blocks, secret, auto_expand, held, lock, req >>
  <2>1. PICK k \in {1, 2} :
          /\ pc[t] = << "link", "publish" >>[k] /\ Goto(t, << "publish", "take" >>[k])
          /\ next' = IF StoreOrder[k] = "own" THEN [ next EXCEPT ![req[t].pool] = next[Main] ]
                     ELSE [ next EXCEPT ![Main] = req[t].pool ]
          /\ UNCHANGED << okay, size, blocks, secret, flagVars, userVars, lock, req >>
    BY DEF Link, At
  <2>2. CASE k = 1
    BY <2>1, <2>2 DEF flagVars, userVars
  <2>3. CASE k = 2
    BY <2>1, <2>3 DEF flagVars, userVars
  <2> QED
    BY <2>2, <2>3
<1>2. PICK step \in {"publish", "take"} : pc' = [ pc EXCEPT ![t] = step ]
  BY <1>1 DEF Goto
<1>3. ThreadOkay(t) /\ req[t].pool \in okay /\ okay \subseteq Pools /\ Main \in Pools
  BY <1>1 DEF SecInv, ThreadOkay, Types, Pools
<1>4. next' \in [ Pools -> Pools \union {Null} ] /\ LinksOkay'
  BY <1>1, <1>3 DEF SecInv, Types, LinksOkay
<1>5. Types' /\ PoolsTiled' /\ HeldOkay' /\ NoneLost' /\ SecretsConfined' /\ UnusedClean' /\ Distinct'
  <2>1. pc' \in [ Threads -> Steps ]
    BY <1>2 DEF SecInv, Types, Steps, Locked
  <2>2. Types'
    BY <1>1, <1>4, <2>1 DEF SecInv, Types
  <2>3. PoolsTiled' /\ SecretsConfined' /\ UnusedClean' /\ Distinct'
    BY <1>1 DEF SecInv, PoolsTiled, SecretsConfined, UsedBytes, UnusedClean, Distinct, Active
  <2>4. HeldOkay'
    BY <1>1 DEF SecInv, HeldOkay, Backed, Active
  <2>5. NoneLost'
    BY <1>1 DEF SecInv, NoneLost, Active
  <2> QED
    BY <2>2, <2>3, <2>4, <2>5
<1>6. ASSUME NEW u \in Threads PROVE ThreadOkay(u)'
  <2>1. ThreadOkay(u) /\ (u # t => pc'[u] = pc[u]) /\ pc'[t] = step
    BY <1>2 DEF SecInv, Types
  <2>2. Backed(req[u].new, req[u].n)' <=> Backed(req[u].new, req[u].n)
    BY <1>1 DEF Backed, Active
  <2>3. CASE u = t
    BY <2>1, <2>2, <2>3, <1>1, <1>2, <1>3 DEF ThreadOkay, Locked
  <2>4. CASE u # t
    BY <2>1, <2>2, <2>4, <1>1 DEF ThreadOkay
  <2> QED
    BY <2>3, <2>4
<1> QED
  BY <1>4, <1>5, <1>6 DEF SecInv

(* Secure memory is given up. *)
LEMMA TermOkay == ASSUME SecInv, Term PROVE SecInv'
<1>1. /\ okay' = {} /\ secret' = [ p \in Pools |-> {} ]
      /\ size' = [ p \in Pools |-> 0 ] /\ blocks' = [ p \in Pools |-> << >> ]
      /\ next' = [ p \in Pools |-> Null ] /\ held' = [ q \in {Plain} |-> 0 ]
      /\ UNCHANGED << auto_expand, lock, pc, req >>
  BY DEF Term, Wiped
<1>2. Types' /\ PoolsTiled' /\ LinksOkay' /\ HeldOkay' /\ NoneLost' /\ UnusedClean' /\ SecretsConfined'
  BY <1>1 DEF SecInv, Types, PoolsTiled, LinksOkay, HeldOkay, NoneLost, UnusedClean,
              SecretsConfined, UsedBytes, Active
<1>3. Distinct'
  BY <1>1 DEF SecInv, Distinct
<1>4. ASSUME NEW t \in Threads PROVE ThreadOkay(t)'
  <2>1. pc[t] = "idle" /\ ThreadOkay(t)
    BY DEF Term, SecInv
  <2> QED
    BY <2>1, <1>1, PoolsAssumption DEF ThreadOkay, Locked, Pointers
<1> QED
  BY <1>2, <1>3, <1>4 DEF SecInv

(* Every step keeps the invariant. *)
LEMMA NextOkay == ASSUME SecInv, [Next]_secVars PROVE SecInv'
<1>1. CASE UNCHANGED secVars
  BY <1>1, FlagStep DEF secVars, userVars, flagVars, SecInv, Types
<1>2. ASSUME NEW t \in Threads, Step(t) PROVE SecInv'
  BY <1>2, WalkOkay, ResizeOkay, FreeOkay, PoolOkay, OverflowSetUp, LinkOkay DEF Step
<1> QED
  BY <1>1, <1>2, SettingOkay, TermOkay, CallOkay, LockOkay DEF Next

(* The invariant holds in every reachable state. *)
LEMMA SecInvariant == SecSpec => []SecInv
<1> QED
  BY InitOkay, NextOkay, PTL DEF SecSpec

(* secmem.c lines 181-276: blocks tile their pools, and freed neighbours   *)
(* are joined.                                                             *)
THEOREM TheoremPoolsTiled == SecSpec => []PoolsTiled
<1>1. SecInv => PoolsTiled
  BY DEF SecInv
<1> QED
  BY <1>1, SecInvariant, PTL

(* secmem.c lines 575-780: whatever users hold is backed by a block in use *)
(* and no block in use is lost.                                            *)
THEOREM TheoremHeldBacked == SecSpec => []HeldBacked
<1>1. SecInv => HeldBacked
  BY DEF SecInv, HeldOkay, NoneLost, HeldBacked, Backed
<1> QED
  BY <1>1, SecInvariant, PTL

(* secmem.c lines 551-554: what users wrote is in blocks in use only.      *)
THEOREM TheoremSecretsConfined == SecSpec => []SecretsConfined
<1>1. SecInv => SecretsConfined
  BY DEF SecInv
<1> QED
  BY <1>1, SecInvariant, PTL

(* The step that takes a block is an allocation of SecAlloc. *)
LEMMA TakeAllocates ==
  ASSUME SecInv, NEW t \in Threads, NEW p \in okay, TakeFrom(t, p)
  PROVE  Abstract!Allocate
<1>1. PICK o \in DOMAIN blocks[p] :
        /\ Fits(blocks[p], o, Rounded(req[t].n))
        /\ blocks' = [ blocks EXCEPT ![p] = mb_get_new(blocks[p], size[p], o, Rounded(req[t].n)) ]
        /\ secret' = [ secret EXCEPT ![p] = @ \union Payload(blocks'[p], o) ]
        /\ UNCHANGED << okay, size, next >>
  BY TakeFromBlock
<1>2. PICK n \in Nat : n = req[t].n
  BY DEF SecInv, Types, Request
<1>3. /\ PoolsTiled'
      /\ Active(p)' = Active(p) \union {o} /\ o \notin Active(p)
      /\ \A r \in okay \ {p} : Active(r)' = Active(r)
      /\ \A r \in okay : \A b \in Active(r) : blocks'[r][b] = blocks[r][b]
  BY <1>1, <1>2, BlockTaken
<1> DEFINE R == << p, o + HeadSize, End(blocks'[p], o) >>
<1>4. \A r \in okay : \A b \in Active(r) : End(blocks'[r], b) = End(blocks[r], b)
  BY <1>3 DEF End
<1>5. Live' = Live \union {R}
  BY <1>1, <1>3, <1>4 DEF Live
<1>6. Tiled(blocks'[p], size'[p])
  BY <1>1, <1>3 DEF PoolsTiled
<1>7. ASSUME NEW s \in Live PROVE Abstract!Apart(R, s) /\ s # R
  <2>1. PICK r \in okay : \E b \in Active(r) : s = << r, b + HeadSize, End(blocks[r], b) >>
    BY DEF Live
  <2>1a. PICK b \in Active(r) : s = << r, b + HeadSize, End(blocks[r], b) >>
    BY <2>1
  <2>2. CASE r # p
    BY <2>1a, <2>2 DEF Abstract!Apart
  <2>3. CASE r = p
    <3>1. b # o /\ b \in DOMAIN blocks'[p] /\ o \in DOMAIN blocks'[p] /\ b \in Nat /\ o \in Nat
      BY <2>3, <1>3, <1>6, NextInPool DEF Active, InUse, Tiled
    <3>2. End(blocks'[p], b) = End(blocks[p], b) /\ End(blocks[p], b) \in Int /\ End(blocks'[p], o) \in Int
      BY <2>3, <3>1, <1>4, <1>6, HeadAssumption DEF End, Tiled, memblock
    <3>3. CASE b < o
      <4>1. End(blocks'[p], b) <= o
        BY <3>1, <3>3, <1>6 DEF Tiled
      <4> QED
        BY <2>1a, <2>3, <3>1, <3>2, <4>1, HeadAssumption DEF Abstract!Apart
    <3>4. CASE o < b
      <4>1. End(blocks'[p], o) <= b
        BY <3>1, <3>4, <1>6 DEF Tiled
      <4> QED
        BY <2>1a, <2>3, <3>1, <3>2, <3>4, <4>1, HeadAssumption DEF Abstract!Apart
    <3> QED
      BY <3>1, <3>3, <3>4
  <2> QED
    BY <2>2, <2>3
<1>8. R[1] = p /\ Abstract!Bytes(R) = Payload(blocks'[p], o)
  BY DEF Abstract!Bytes, Payload
<1>9. R \in Live' \ Live
  BY <1>5, <1>7
<1> QED
  BY <1>1, <1>5, <1>7, <1>8, <1>9 DEF Abstract!Allocate

(* Freeing a block gives its region back. *)
LEMMA FreedGivesBack ==
  ASSUME SecInv, NEW t \in Threads, Freed(t)
  PROVE  Abstract!GiveBack
<1>1. req[t].ptr \in Pointers /\ req[t].ptr \in DOMAIN held
  BY DEF Freed, At, SecInv, ThreadOkay, Locked
<1>2. PICK q, n : q = req[t].ptr /\ n = held[q]
  OBVIOUS
<1>3. q \in Pointers /\ Backed(q, n)
  BY <1>1, <1>2, PoolsAssumption DEF Pointers, SecInv, HeldOkay
<1>4. /\ UNCHANGED << okay, size, next >>
      /\ blocks' = [ blocks EXCEPT ![q[1]] = Release(blocks[q[1]], size[q[1]], q[2]) ]
      /\ secret' = [ secret EXCEPT ![q[1]] = @ \ Payload(blocks[q[1]], q[2]) ]
  BY <1>2 DEF Freed, WipeOut
<1>5. /\ Active(q[1])' = Active(q[1]) \ {q[2]}
      /\ \A r \in okay \ {q[1]} : Active(r)' = Active(r)
      /\ \A r \in okay : \A b \in Active(r)' : blocks'[r][b] = blocks[r][b]
  BY <1>3, <1>4, BlockFreed
<1> DEFINE R == << q[1], q[2] + HeadSize, End(blocks[q[1]], q[2]) >>
<1>6. q[1] \in okay /\ q[2] \in Active(q[1]) /\ q[2] \in Nat
  BY <1>3 DEF Backed, Pointers
<1>7. R \in Live
  BY <1>6 DEF Live
<1>8. \A r \in okay : \A b \in Active(r)' : End(blocks'[r], b) = End(blocks[r], b)
  BY <1>5 DEF End
<1>9. Live' = Live \ {R}
  <2>1. ASSUME NEW s \in Live' PROVE s \in Live /\ s # R
    <3>1. PICK r \in okay : \E b \in Active(r)' : s = << r, b + HeadSize, End(blocks[r], b) >>
      BY <1>4, <1>8 DEF Live
    <3>1a. PICK b \in Active(r)' : s = << r, b + HeadSize, End(blocks[r], b) >>
      BY <3>1
    <3>2. b \in Active(r) /\ (r = q[1] => b # q[2])
      BY <3>1a, <1>5
    <3>3. b \in Nat
      <4>1. Tiled(blocks[r], size[r])
        BY <3>1a DEF SecInv, PoolsTiled
      <4> QED
        BY <3>2, <4>1 DEF Active, InUse, Tiled
    <3> QED
      BY <3>1a, <3>2, <3>3, <1>6, HeadAssumption DEF Live
  <2>2. ASSUME NEW s \in Live, s # R PROVE s \in Live'
    <3>1. PICK r \in okay : \E b \in Active(r) : s = << r, b + HeadSize, End(blocks[r], b) >>
      BY DEF Live
    <3>1a. PICK b \in Active(r) : s = << r, b + HeadSize, End(blocks[r], b) >>
      BY <3>1
    <3>2. b \in Active(r)'
      BY <3>1a, <2>2, <1>5
    <3> QED
      BY <3>1a, <3>2, <1>4, <1>8 DEF Live
  <2> QED
    BY <2>1, <2>2
<1>10. R[1] = q[1] /\ Abstract!Bytes(R) = Payload(blocks[q[1]], q[2])
  BY DEF Abstract!Bytes, Payload
<1> QED
  BY <1>4, <1>7, <1>9, <1>10 DEF Abstract!GiveBack

(* Every other step leaves SecAlloc's state as it is. *)
LEMMA OtherStutters ==
  ASSUME SecInv, UNCHANGED << okay, blocks, secret >>
  PROVE  Live' = Live /\ secret' = secret
<1> QED
  BY DEF Live, Active

(* A new pool is nothing to SecAlloc. *)
LEMMA SetUpStutters ==
  ASSUME SecInv, NEW p \in Pools \ okay, NEW s \in Nat, HeadSize < s,
         okay' = okay \union {p}, size' = [ size EXCEPT ![p] = s ],
         blocks' = [ blocks EXCEPT ![p] = FreshPool(s) ],
         next' = next \/ next' = [ next EXCEPT ![p] = Null ],
         UNCHANGED << secret, held >>
  PROVE  Live' = Live /\ secret' = secret
<1>1. Active(p)' = {} /\ \A r \in okay : Active(r)' = Active(r)
  BY PoolAdded
<1>2. \A r \in okay : blocks'[r] = blocks[r]
  BY DEF SecInv, Types
<1> QED
  BY <1>1, <1>2 DEF Live

(* Every step is a step of SecAlloc, or leaves its state alone. *)
LEMMA StepImplements ==
  ASSUME SecInv, [Next]_secVars
  PROVE  [Abstract!Allocate \/ Abstract!GiveBack \/ Abstract!GiveAllUp]_<< Live, secret >>
<1>1. ASSUME UNCHANGED << okay, blocks, secret >> PROVE UNCHANGED << Live, secret >>
  BY <1>1, OtherStutters
<1>2. ASSUME NEW n \in Nat, SetUpMain(MainSize(n)), Main \notin okay, UNCHANGED held
      PROVE  UNCHANGED << Live, secret >>
  <2>1. Main \in Pools \ okay /\ MainSize(n) \in Nat /\ HeadSize < MainSize(n)
    BY <1>2, PoolSizes DEF Pools
  <2> QED
    BY <1>2, <2>1, SetUpStutters DEF SetUpMain
<1>3. CASE UNCHANGED secVars
  BY <1>1, <1>3 DEF secVars, poolVars
<1>4. CASE Setting
  <2>1. CASE \E n \in InitSizes : InitSecmem(n)
    <3>1. PICK n \in InitSizes : InitSecmem(n)
      BY <2>1
    <3>2. n \in Nat
      BY SizesAssumption
    <3> QED
      BY <1>1, <1>2, <3>1, <3>2 DEF InitSecmem, NoMainPool, userVars, poolVars
  <2>2. CASE DropPrivs \/ DisableSecmem
    BY <1>1, <2>2 DEF DropPrivs, DisableSecmem, poolVars
  <2>3. CASE \E nomlock \in BOOLEAN : SetFlags(nomlock)
    BY <1>1, <2>3 DEF SetFlags, poolVars
  <2>4. CASE \E n \in ChunkSizes : SetAutoExpand(n)
    BY <1>1, <2>4 DEF SetAutoExpand, poolVars
  <2> QED
    BY <1>4, <2>1, <2>2, <2>3, <2>4 DEF Setting
<1>5. CASE Term
  <2>1. okay' = {} /\ secret' = [ p \in Pools |-> {} ] /\ DOMAIN secret = Pools
    BY <1>5 DEF Term, Wiped, SecInv, Types
  <2>2. Live' = {}
    BY <2>1 DEF Live
  <2> QED
    BY <2>1, <2>2 DEF Abstract!GiveAllUp
<1>6. ASSUME NEW t \in Threads, Call(t) \/ Lock(t) PROVE UNCHANGED << Live, secret >>
  BY <1>1, <1>6 DEF Call, Malloc, FreeCall, Realloc, Begin, Lock, poolVars
<1>7. ASSUME NEW t \in Threads, Step(t)
      PROVE  Abstract!Allocate \/ Abstract!GiveBack \/ UNCHANGED << Live, secret >>
  <2>1. CASE Walk(t) \/ Libc(t) \/ Link(t)
    <3>1. UNCHANGED << okay, blocks, secret >>
      BY <2>1 DEF Walk, Libc, Link, poolVars
    <3> QED
      BY <1>1, <3>1
  <2>2. CASE Resize(t)
    BY <1>1, <2>2 DEF Resize, poolVars
  <2>3. CASE Freed(t)
    BY <2>3, FreedGivesBack
  <2>4. CASE MainPool(t)
    <3>1. CASE /\ Main \notin okay /\ SetUpMain(MainSize(Standard)) /\ UNCHANGED userVars
      BY <1>2, <3>1, SizesAssumption DEF userVars
    <3>2. CASE Main \in okay /\ TakeFrom(t, Main)
      BY <3>2, TakeAllocates
    <3>3. CASE UNCHANGED poolVars
      BY <1>1, <3>3 DEF poolVars
    <3> QED
      BY <2>4, <3>1, <3>2, <3>3 DEF MainPool, ReturnNull, SearchAt, NoMainPool
  <2>5. CASE SearchPool(t)
    <3>1. req[t].pool \in okay
      BY <2>5 DEF SearchPool, At, SecInv, ThreadOkay
    <3>2. CASE UNCHANGED poolVars
      BY <1>1, <3>2 DEF poolVars
    <3> QED
      BY <2>5, <3>1, <3>2, TakeAllocates DEF SearchPool, SearchAt
  <2>6. CASE NewBlock(t)
    <3>1. req[t].pool \in okay
      BY <2>6 DEF NewBlock, At, SecInv, ThreadOkay
    <3>2. CASE UNCHANGED poolVars
      BY <1>1, <3>2 DEF poolVars
    <3> QED
      BY <2>6, <3>1, <3>2, TakeAllocates DEF NewBlock, ReturnNull
  <2>7. CASE NewPool(t)
    <3>1. CASE UNCHANGED poolVars
      BY <1>1, <3>1 DEF poolVars
    <3>2. CASE ~UNCHANGED poolVars
      <4> DEFINE s == IF auto_expand > 0 THEN auto_expand ELSE Standard
      <4>1. PICK p \in Overflow \ okay :
              /\ okay' = okay \union {p} /\ size' = [ size EXCEPT ![p] = s ]
              /\ blocks' = [ blocks EXCEPT ![p] = FreshPool(s) ]
              /\ next' = [ next EXCEPT ![p] = Null ]
              /\ secret' = secret /\ held' = held
        BY <2>7, <3>2 DEF NewPool, ReturnNull, userVars
      <4>2. p \in Pools \ okay /\ s \in Nat /\ HeadSize < s
        BY SizesAssumption, HeadAssumption DEF SecInv, Types, Pools
      <4> HIDE DEF s
      <4> QED
        BY <4>1, <4>2, SetUpStutters
    <3> QED
      BY <3>1, <3>2
  <2> QED
    BY <1>7, <2>1, <2>2, <2>3, <2>4, <2>5, <2>6, <2>7 DEF Step
<1> QED
  BY <1>3, <1>4, <1>5, <1>6, <1>7 DEF Next

(* The allocator implements SecAlloc: it hands out regions that overlap no *)
(* region in use, and wipes them when they are given back.                 *)
THEOREM TheoremImplements == SecSpec => ImplementsSecAlloc
<1>1. Init => Abstract!AllocInit
  BY DEF Init, Abstract!AllocInit, Live
<1>2. SecInv /\ [Next]_secVars =>
        [Abstract!Allocate \/ Abstract!GiveBack \/ Abstract!GiveAllUp]_<< Live, secret >>
  BY StepImplements
<1> QED
  BY <1>1, <1>2, SecInvariant, PTL DEF SecSpec, ImplementsSecAlloc, Abstract!AllocSpec
-----------------------------------------------------------------------------
(***************************************************************************)
(* The counters of the pools.                                              *)
(***************************************************************************)

(* The settings, and how the process goes on. *)
Flags ==
  /\ { disable_secmem, not_locked, no_mlock, fips, no_secure_memory, stale } \subseteq BOOLEAN
  /\ terms \in Nat
  /\ lock \in Threads \union {Free} /\ status \in {"ok", "disabled", "no_pool", "bad_free"}

(* The counters of a pool are never below what is in use, so that giving a *)
(* block back does not wrap them, even where term has left them too high.  *)
Covered(p) ==
  /\ Cardinality(UsedBytes(blocks[p])) <= cur_alloced[p]
  /\ Cardinality(Active(p)) <= cur_blocks[p]

(* A main pool that is yet to be set up starts from counters of zero. *)
StartsAtZero ==
  Main \in okay \/ stale \/ (cur_alloced[Main] = 0 /\ cur_blocks[Main] = 0)

Counts ==
  /\ cur_alloced \in [ Pools -> Nat ] /\ cur_blocks \in [ Pools -> Nat ]
  /\ (\A p \in okay : Covered(p)) /\ StatsMatch /\ StartsAtZero

CountInv == Flags /\ Counts

(* The counts of a pool that a step has left alone. *)
LEMMA PoolUntouched ==
  ASSUME NEW p \in Pools, blocks'[p] = blocks[p],
         cur_alloced'[p] = cur_alloced[p], cur_blocks'[p] = cur_blocks[p]
  PROVE  (Covered(p)' <=> Covered(p)) /\ (CountersMatch(p)' <=> CountersMatch(p))
<1> QED
  BY DEF Covered, CountersMatch, Active

LEMMA CountsUntouched ==
  ASSUME Counts, UNCHANGED << okay, blocks, cur_alloced, cur_blocks, stale >>
  PROVE  Counts'
<1> QED
  BY DEF Counts, Covered, StatsMatch, CountersMatch, StartsAtZero, Active

(* The number of bytes and of blocks in use of a pool, as numbers. *)
LEMMA UseCounted ==
  ASSUME SecInv, NEW p \in okay
  PROVE  /\ IsFiniteSet(Active(p)) /\ Cardinality(Active(p)) \in Nat
         /\ Cardinality(UsedBytes(blocks[p])) \in Nat
<1>1. Tiled(blocks[p], size[p]) /\ size[p] \in Nat
  BY DEF SecInv, Types, PoolsTiled
<1> QED
  BY <1>1, UsedFinite, FS_CardinalityType DEF Active

(* A pool has been set up with its counters at zero. *)
LEMMA CountsAdded ==
  ASSUME SecInv, Counts, NEW p \in Pools \ okay, NEW s \in Nat, HeadSize < s,
         okay' = okay \union {p}, blocks' = [ blocks EXCEPT ![p] = FreshPool(s) ],
         cur_alloced' \in [ Pools -> Nat ], cur_blocks' \in [ Pools -> Nat ],
         \A r \in Pools \ {p} : cur_alloced'[r] = cur_alloced[r] /\ cur_blocks'[r] = cur_blocks[r],
         (p = Main /\ stale) \/ (cur_alloced'[p] = 0 /\ cur_blocks'[p] = 0),
         stale' = stale
  PROVE  Counts'
<1>1. blocks'[p] = FreshPool(s) /\ \A r \in okay : blocks'[r] = blocks[r] /\ r \in Pools \ {p}
  BY DEF SecInv, Types
<1>2. Active(p)' = {} /\ UsedBytes(blocks'[p]) = {}
  BY <1>1, FreshTiled DEF Active, UsedBytes
<1>3. Cardinality(Active(p)') = 0 /\ Cardinality(UsedBytes(blocks'[p])) = 0
  BY <1>2, FS_EmptySet
<1>4. Covered(p)' /\ ((p = Main /\ stale) \/ CountersMatch(p)')
  BY <1>3 DEF Covered, CountersMatch
<1>5. \A r \in okay : Covered(r)' /\ ((r = Main /\ stale) \/ CountersMatch(r)')
  BY <1>1, PoolUntouched DEF Counts, StatsMatch
<1>6. StartsAtZero'
  <2>1. CASE p = Main
    BY <2>1 DEF StartsAtZero
  <2>2. CASE p # Main
    BY <2>2 DEF StartsAtZero, Counts, Pools
  <2> QED
    BY <2>1, <2>2
<1> QED
  BY <1>4, <1>5, <1>6 DEF Counts, StatsMatch

(* A block has been taken. *)
LEMMA CountsTaken ==
  ASSUME SecInv, Counts, NEW t \in Threads, NEW p \in okay, TakeFrom(t, p)
  PROVE  Counts'
<1>1. PICK o \in DOMAIN blocks[p] :
        /\ Fits(blocks[p], o, Rounded(req[t].n))
        /\ blocks' = [ blocks EXCEPT ![p] = mb_get_new(blocks[p], size[p], o, Rounded(req[t].n)) ]
        /\ secret' = [ secret EXCEPT ![p] = @ \union Payload(blocks'[p], o) ]
        /\ cur_alloced' = [ cur_alloced EXCEPT ![p] = @ + blocks'[p][o].size ]
        /\ cur_blocks' = [ cur_blocks EXCEPT ![p] = @ + 1 ]
        /\ UNCHANGED << okay, size, next, stale >>
  BY TakeFromBlock
<1>2. PICK n \in Nat : n = req[t].n
  BY DEF SecInv, Types, Request
<1>3. /\ PoolsTiled' /\ Active(p)' = Active(p) \union {o} /\ o \notin Active(p)
      /\ \A b \in Active(p) : blocks'[p][b] = blocks[p][b]
  BY <1>1, <1>2, BlockTaken
<1>4. Tiled(blocks[p], size[p]) /\ Tiled(blocks'[p], size[p]) /\ size[p] \in Nat /\ p \in Pools
  BY <1>1, <1>3 DEF SecInv, Types, PoolsTiled
<1>5. PICK m \in Nat : m = blocks'[p][o].size
  BY <1>3, <1>4, NextInPool DEF Active, InUse
<1>6. /\ Cardinality(Active(p)') = Cardinality(Active(p)) + 1
      /\ Cardinality(UsedBytes(blocks'[p])) = Cardinality(UsedBytes(blocks[p])) + m
  <2>1. PICK B, N : B = blocks[p] /\ N = blocks'[p]
    OBVIOUS
  <2>1a. PICK limit \in Nat : limit = size[p]
    BY <1>4
  <2>2. /\ Tiled(B, limit) /\ Tiled(N, limit)
        /\ InUse(N) = InUse(B) \union {o} /\ o \notin InUse(B)
        /\ \A b \in InUse(B) : N[b] = B[b]
    BY <1>3, <1>4, <2>1, <2>1a DEF Active
  <2>3. /\ Cardinality(InUse(N)) = Cardinality(InUse(B)) + 1
        /\ Cardinality(UsedBytes(N)) = Cardinality(UsedBytes(B)) + N[o].size
    BY <2>2, BytesTaken
  <2> QED
    BY <2>1, <2>3, <1>5 DEF Active
<1>7. /\ cur_alloced'[p] = cur_alloced[p] + m /\ cur_blocks'[p] = cur_blocks[p] + 1
      /\ cur_alloced' \in [ Pools -> Nat ] /\ cur_blocks' \in [ Pools -> Nat ]
  BY <1>1, <1>4, <1>5 DEF Counts
<1>8. Covered(p)' /\ (CountersMatch(p) => CountersMatch(p)')
  BY <1>4, <1>6, <1>7, UseCounted DEF Counts, Covered, CountersMatch
<1>9. ASSUME NEW r \in okay, r # p PROVE Covered(r)' /\ (CountersMatch(r) => CountersMatch(r)')
  <2>1. r \in Pools /\ blocks'[r] = blocks[r] /\ cur_alloced'[r] = cur_alloced[r]
        /\ cur_blocks'[r] = cur_blocks[r]
    BY <1>1, <1>9 DEF SecInv, Types, Counts
  <2> QED
    BY <2>1, PoolUntouched DEF Counts
<1>10. StartsAtZero'
  BY <1>1 DEF StartsAtZero, Counts, Pools
<1> QED
  BY <1>1, <1>7, <1>8, <1>9, <1>10 DEF Counts, StatsMatch

(* A block has been given back: the counters of its pool do not wrap. *)
LEMMA CountsFreed ==
  ASSUME SecInv, Counts, NEW t \in Threads, Freed(t)
  PROVE  Counts'
<1>1. req[t].ptr \in Pointers /\ req[t].ptr \in DOMAIN held
  BY DEF Freed, At, SecInv, ThreadOkay, Locked
<1>2. PICK q, n : q = req[t].ptr /\ n = held[q]
  OBVIOUS
<1>3. q \in Pointers /\ Backed(q, n)
  BY <1>1, <1>2, PoolsAssumption DEF Pointers, SecInv, HeldOkay
<1>4. PICK p, o : p = q[1] /\ o = q[2]
  OBVIOUS
<1>5. /\ UNCHANGED << okay, size, next, stale >>
      /\ blocks' = [ blocks EXCEPT ![q[1]] = Release(blocks[q[1]], size[q[1]], q[2]) ]
      /\ secret' = [ secret EXCEPT ![q[1]] = @ \ Payload(blocks[q[1]], q[2]) ]
      /\ cur_alloced' = [ cur_alloced EXCEPT ![p] = @ - blocks[p][o].size ]
      /\ cur_blocks' = [ cur_blocks EXCEPT ![p] = @ - 1 ]
  BY <1>2, <1>4 DEF Freed, WipeOut, ReturnWith
<1>6. /\ PoolsTiled' /\ Active(p)' = Active(p) \ {o}
      /\ \A r \in okay : \A b \in Active(r)' : blocks'[r][b] = blocks[r][b]
  BY <1>3, <1>4, <1>5, BlockFreed
<1>7. p \in okay /\ o \in Active(p) /\ p \in Pools /\ size[p] \in Nat
      /\ Tiled(blocks[p], size[p]) /\ Tiled(blocks'[p], size[p])
  BY <1>3, <1>4, <1>5, <1>6 DEF SecInv, Types, PoolsTiled, Backed
<1>8. PICK m \in Nat : m = blocks[p][o].size
  BY <1>7, NextInPool DEF Active, InUse
<1>9. /\ Cardinality(Active(p)) = Cardinality(Active(p)') + 1
      /\ Cardinality(UsedBytes(blocks[p])) = Cardinality(UsedBytes(blocks'[p])) + m
  <2>1. PICK B, N : B = blocks[p] /\ N = blocks'[p]
    OBVIOUS
  <2>1a. PICK limit \in Nat : limit = size[p]
    BY <1>7
  <2>2. /\ Tiled(B, limit) /\ Tiled(N, limit)
        /\ InUse(B) = InUse(N) \union {o} /\ o \notin InUse(N)
        /\ \A b \in InUse(N) : B[b] = N[b]
    BY <1>6, <1>7, <2>1, <2>1a DEF Active
  <2>3. /\ Cardinality(InUse(B)) = Cardinality(InUse(N)) + 1
        /\ Cardinality(UsedBytes(B)) = Cardinality(UsedBytes(N)) + B[o].size
    BY <2>2, BytesTaken
  <2> QED
    BY <2>1, <2>3, <1>8 DEF Active
<1>10. Cardinality(Active(p)') \in Nat /\ Cardinality(UsedBytes(blocks'[p])) \in Nat
  BY <1>7, UsedFinite, FS_CardinalityType DEF Active
<1>11. /\ cur_alloced'[p] = cur_alloced[p] - m /\ cur_blocks'[p] = cur_blocks[p] - 1
       /\ Cardinality(UsedBytes(blocks[p])) <= cur_alloced[p]
       /\ Cardinality(Active(p)) <= cur_blocks[p]
       /\ cur_alloced[p] \in Nat /\ cur_blocks[p] \in Nat
  BY <1>5, <1>7, <1>8 DEF Counts, Covered
<1>12. cur_alloced[p] - m \in Nat /\ cur_blocks[p] - 1 \in Nat
  BY <1>9, <1>10, <1>11
<1>13. cur_alloced' \in [ Pools -> Nat ] /\ cur_blocks' \in [ Pools -> Nat ]
  BY <1>5, <1>8, <1>12 DEF Counts
<1>14. Covered(p)' /\ (CountersMatch(p) => CountersMatch(p)')
  BY <1>9, <1>10, <1>11 DEF Covered, CountersMatch
<1>15. ASSUME NEW r \in okay, r # p PROVE Covered(r)' /\ (CountersMatch(r) => CountersMatch(r)')
  <2>1. r \in Pools /\ blocks'[r] = blocks[r] /\ cur_alloced'[r] = cur_alloced[r]
        /\ cur_blocks'[r] = cur_blocks[r]
    BY <1>4, <1>5, <1>15 DEF SecInv, Types, Counts
  <2> QED
    BY <2>1, PoolUntouched DEF Counts
<1>16. StartsAtZero'
  BY <1>5, <1>4, <1>7 DEF StartsAtZero, Counts, Pools
<1> QED
  BY <1>5, <1>13, <1>14, <1>15, <1>16 DEF Counts, StatsMatch

(* Giving secure memory up leaves the counters as they are. *)
LEMMA CountsGivenUp == ASSUME SecInv, CountInv, Term PROVE Counts'
<1>1. /\ okay' = {} /\ UNCHANGED << cur_alloced, cur_blocks >>
      /\ stale' = (stale \/ Active(Main) # {})
  BY DEF Term
<1>2. ASSUME Main \in okay, ~stale, Active(Main) = {}
      PROVE  cur_alloced[Main] = 0 /\ cur_blocks[Main] = 0
  <2>1. CountersMatch(Main) /\ UsedBytes(blocks[Main]) = {}
    BY <1>2 DEF CountInv, Counts, StatsMatch, UsedBytes, Active
  <2> QED
    BY <1>2, <2>1, FS_EmptySet DEF CountersMatch
<1>3. StartsAtZero'
  BY <1>1, <1>2 DEF CountInv, Counts, StartsAtZero
<1> QED
  BY <1>1, <1>3 DEF CountInv, Counts, StatsMatch
(* The beginning of a call changes nothing but its thread's locals. *)
LEMMA CallBegins ==
  ASSUME NEW t \in Threads, Call(t) PROVE UNCHANGED << poolVars, flagVars, userVars, lock >>
<1>1. ASSUME NEW step, NEW r, Begin(t, step, r)
      PROVE  UNCHANGED << poolVars, flagVars, userVars, lock >>
  BY <1>1 DEF Begin
<1>2. CASE \E n \in Requests, xhint \in BOOLEAN : Malloc(t, n, xhint)
  BY <1>1, <1>2, Zenon DEF Malloc
<1>3. CASE \E q \in DOMAIN held : FreeCall(t, q)
  BY <1>1, <1>3, Zenon DEF FreeCall
<1>4. CASE \E q \in DOMAIN held, n \in Requests, xhint \in BOOLEAN : Realloc(t, q, n, xhint)
  BY <1>1, <1>4, Zenon DEF Realloc
<1> QED
  BY <1>2, <1>3, <1>4 DEF Call

(* Every step keeps the settings what they are. *)
LEMMA FlagsKept == ASSUME Flags, [Next]_secVars PROVE Flags'
<1>1. CASE UNCHANGED secVars
  BY <1>1 DEF secVars, flagVars, userVars, Flags
<1>2. CASE Setting
  <2>1. CASE \E n \in InitSizes : InitSecmem(n)
    BY <2>1 DEF InitSecmem, SetUpMain, NoMainPool, flagVars, userVars, Flags
  <2>2. CASE DropPrivs \/ DisableSecmem \/ \E nomlock \in BOOLEAN : SetFlags(nomlock)
    BY <2>2 DEF DropPrivs, DisableSecmem, SetFlags, userVars, Flags
  <2>3. CASE \E n \in ChunkSizes : SetAutoExpand(n)
    BY <2>3 DEF SetAutoExpand, userVars, Flags
  <2> QED
    BY <1>2, <2>1, <2>2, <2>3 DEF Setting
<1>3. CASE Term
  <2>1. stale' = (stale \/ Active(Main) # {}) /\ stale \in BOOLEAN
    BY <1>3 DEF Term, Flags
  <2>2. stale' \in BOOLEAN
    BY <2>1
  <2>3. /\ disable_secmem' = disable_secmem /\ no_mlock' = no_mlock /\ fips' = fips
        /\ no_secure_memory' = no_secure_memory
        /\ not_locked' = FALSE /\ terms' = terms + 1 /\ lock' = lock /\ status' = status
    BY <1>3 DEF Term
  <2>4. { disable_secmem', not_locked', no_mlock', fips', no_secure_memory', stale' } \subseteq BOOLEAN
    <3>1. not_locked' \in BOOLEAN
      BY <2>3
    <3> QED
      BY <2>2, <2>3, <3>1, Zenon DEF Flags
  <2> QED
    BY <2>3, <2>4 DEF Flags
<1>4. ASSUME NEW t \in Threads, Call(t) PROVE Flags'
  BY <1>4, CallBegins DEF flagVars, userVars, Flags
<1>5. ASSUME NEW t \in Threads, Lock(t) PROVE Flags'
  BY <1>5 DEF Lock, flagVars, userVars, Flags
<1>6. ASSUME NEW t \in Threads, Step(t) PROVE Flags'
  <2>1. ASSUME NEW gone, NEW got, ReturnWith(t, gone, got), UNCHANGED flagVars PROVE Flags'
    BY <2>1 DEF ReturnWith, flagVars, Flags
  <2>2. ASSUME UNCHANGED << flagVars, userVars, lock >> PROVE Flags'
    BY <2>2 DEF flagVars, userVars, Flags
  <2>3. CASE Walk(t) \/ Link(t)
    BY <2>2, <2>3 DEF Walk, Link
  <2>4. CASE Libc(t)
    BY <2>4 DEF Libc, flagVars, Flags
  <2>5. CASE Resize(t)
    BY <2>1, <2>2, <2>5 DEF Resize
  <2>6. CASE Freed(t)
    BY <2>1, <2>6 DEF Freed
  <2>7. ASSUME NEW p, TakeFrom(t, p) PROVE Flags'
    BY <2>1, <2>2, <2>7 DEF TakeFrom
  <2>8. CASE MainPool(t)
    <3>1. CASE /\ SetUpMain(MainSize(Standard))
               /\ UNCHANGED << disable_secmem, no_mlock, auto_expand, fips, no_secure_memory, userVars,
                               lock >>
      BY <3>1 DEF SetUpMain, userVars, Flags
    <3>2. CASE NoMainPool /\ UNCHANGED lock
      BY <3>2 DEF NoMainPool, flagVars, Flags
    <3> QED
      BY <2>1, <2>2, <2>7, <2>8, <3>1, <3>2 DEF MainPool, ReturnNull, SearchAt
  <2>9. CASE SearchPool(t)
    BY <2>2, <2>7, <2>9 DEF SearchPool, SearchAt
  <2>10. CASE NewPool(t)
    BY <2>1, <2>2, <2>10 DEF NewPool, ReturnNull
  <2>11. CASE NewBlock(t)
    BY <2>1, <2>7, <2>11 DEF NewBlock, ReturnNull
  <2> QED
    BY <1>6, <2>3, <2>4, <2>5, <2>6, <2>8, <2>9, <2>10, <2>11 DEF Step
<1> QED
  BY <1>1, <1>2, <1>3, <1>4, <1>5, <1>6 DEF Next

(* Every step keeps the counters right. *)
LEMMA CountsKept == ASSUME SecInv, CountInv, [Next]_secVars PROVE Counts'
<1>1. ASSUME UNCHANGED << poolVars, stale >> PROVE Counts'
  BY <1>1, CountsUntouched DEF poolVars, CountInv
<1>2. ASSUME NEW n \in Nat, SetUpMain(MainSize(n)), Main \notin okay, stale' = stale PROVE Counts'
  <2>1. Main \in Pools \ okay /\ MainSize(n) \in Nat /\ HeadSize < MainSize(n)
    BY <1>2, PoolSizes DEF Pools
  <2>2. stale \/ (cur_alloced[Main] = 0 /\ cur_blocks[Main] = 0)
    BY <1>2 DEF CountInv, Counts, StartsAtZero
  <2> QED
    BY <1>2, <2>1, <2>2, CountsAdded DEF SetUpMain, CountInv, Counts
<1>3. CASE UNCHANGED secVars
  BY <1>1, <1>3 DEF secVars, userVars
<1>4. CASE Setting
  <2>1. CASE \E n \in InitSizes : InitSecmem(n)
    <3>1. PICK n \in InitSizes : InitSecmem(n)
      BY <2>1
    <3>2. n \in Nat
      BY SizesAssumption
    <3> QED
      BY <1>1, <1>2, <3>1, <3>2 DEF InitSecmem, NoMainPool, userVars
  <2>2. CASE DropPrivs \/ DisableSecmem
    BY <1>1, <2>2 DEF DropPrivs, DisableSecmem, userVars
  <2>3. CASE \E nomlock \in BOOLEAN : SetFlags(nomlock)
    BY <1>1, <2>3 DEF SetFlags, userVars
  <2>4. CASE \E n \in ChunkSizes : SetAutoExpand(n)
    BY <1>1, <2>4 DEF SetAutoExpand, userVars
  <2> QED
    BY <1>4, <2>1, <2>2, <2>3, <2>4 DEF Setting
<1>5. CASE Term
  BY <1>5, CountsGivenUp
<1>6. ASSUME NEW t \in Threads, Call(t) \/ Lock(t) PROVE Counts'
  BY <1>1, <1>6, CallBegins DEF Lock, userVars
<1>7. ASSUME NEW t \in Threads, Step(t) PROVE Counts'
  <2>1. ASSUME ReturnNull(t) PROVE Counts'
    BY <1>1, <2>1 DEF ReturnNull, ReturnWith
  <2>2. ASSUME NEW p, SearchAt(t, p) PROVE Counts'
    BY <1>1, <2>2 DEF SearchAt, userVars
  <2>3. ASSUME NEW p \in okay, TakeFrom(t, p) PROVE Counts'
    BY <2>3, CountsTaken DEF CountInv
  <2>4. ThreadOkay(t)
    BY DEF SecInv
  <2>5. CASE Walk(t) \/ Libc(t)
    BY <1>1, <2>5 DEF Walk, Libc, userVars
  <2>6. CASE Link(t)
    <3>1. UNCHANGED << okay, blocks, cur_alloced, cur_blocks, stale >>
      BY <2>6 DEF Link, userVars
    <3> QED
      BY <3>1, CountsUntouched DEF CountInv
  <2>7. CASE Resize(t)
    BY <1>1, <2>7 DEF Resize, ReturnWith, userVars
  <2>8. CASE Freed(t)
    BY <2>8, CountsFreed DEF CountInv
  <2>9. CASE MainPool(t)
    <3>1. CASE /\ Main \notin okay /\ SetUpMain(MainSize(Standard)) /\ UNCHANGED userVars
      BY <1>2, <3>1, SizesAssumption DEF userVars
    <3>2. CASE NoMainPool
      BY <1>1, <3>2 DEF NoMainPool
    <3> QED
      BY <2>1, <2>2, <2>3, <2>9, <3>1, <3>2 DEF MainPool
  <2>10. CASE SearchPool(t)
    BY <2>2, <2>3, <2>4, <2>10 DEF SearchPool, At, ThreadOkay
  <2>11. CASE NewBlock(t)
    BY <2>1, <2>3, <2>4, <2>11 DEF NewBlock, At, ThreadOkay
  <2>12. CASE NewPool(t)
    <3>1. CASE ~ReturnNull(t)
      <4> DEFINE s == IF auto_expand > 0 THEN auto_expand ELSE Standard
      <4>1. PICK p \in Overflow \ okay :
              /\ okay' = okay \union {p} /\ blocks' = [ blocks EXCEPT ![p] = FreshPool(s) ]
              /\ cur_alloced' = [ cur_alloced EXCEPT ![p] = 0 ]
              /\ cur_blocks' = [ cur_blocks EXCEPT ![p] = 0 ] /\ stale' = stale
        BY <2>12, <3>1 DEF NewPool, userVars
      <4>2. p \in Pools \ okay /\ s \in Nat /\ HeadSize < s
        BY SizesAssumption, HeadAssumption DEF SecInv, Types, Pools
      <4>3. /\ cur_alloced' \in [ Pools -> Nat ] /\ cur_blocks' \in [ Pools -> Nat ]
            /\ cur_alloced'[p] = 0 /\ cur_blocks'[p] = 0
            /\ \A r \in Pools \ {p} :
                 cur_alloced'[r] = cur_alloced[r] /\ cur_blocks'[r] = cur_blocks[r]
        BY <4>1, <4>2 DEF CountInv, Counts
      <4> HIDE DEF s
      <4> QED
        BY <4>1, <4>2, <4>3, CountsAdded DEF CountInv
    <3> QED
      BY <2>1, <3>1
  <2> QED
    BY <1>7, <2>5, <2>6, <2>7, <2>8, <2>9, <2>10, <2>11, <2>12 DEF Step
<1> QED
  BY <1>3, <1>4, <1>5, <1>6, <1>7 DEF Next

(* The settings and the counters are right in every reachable state. *)
LEMMA CountInvariant == SecSpec => []CountInv
<1>1. Init => CountInv
  <2> SUFFICES ASSUME Init PROVE CountInv
    OBVIOUS
  <2>1. Flags
    BY DEF Init, Flags
  <2>2. Counts
    BY DEF Init, Counts, StatsMatch, StartsAtZero, Pools
  <2> QED
    BY <2>1, <2>2 DEF CountInv
<1>2. SecInv /\ CountInv /\ [Next]_secVars => CountInv'
  BY FlagsKept, CountsKept DEF CountInv
<1> QED
  BY <1>1, <1>2, SecInvariant, PTL DEF SecSpec

(* secmem.c lines 62-95: the pool descriptors, the settings and the locals *)
(* of every call keep their types; in particular no counter is ever taken  *)
(* below zero.                                                             *)
THEOREM TheoremSecTypeOK == SecSpec => []SecTypeOK
<1>1. SecInv /\ CountInv => SecTypeOK
  <2> SUFFICES ASSUME SecInv, CountInv PROVE SecTypeOK
    OBVIOUS
  <2>1. okay \subseteq Pools /\ size \in [ Pools -> Nat ] /\ next \in [ Pools -> Pools \union {Null} ]
        /\ auto_expand \in Nat /\ DOMAIN held \subseteq Pointers \union {Plain}
    BY DEF SecInv, Types
  <2>2. \A t \in Threads : pc[t] \in Steps /\ req[t] \in Request
    BY DEF SecInv, Types
  <2> QED
    BY <2>1, <2>2 DEF SecTypeOK, CountInv, Flags, Counts, Request, Steps, Locked
<1> QED
  BY <1>1, SecInvariant, CountInvariant, PTL

(* secmem.c lines 81-83: the counters of every pool are the bytes and the  *)
(* number of its blocks in use, except those of a main pool that was given *)
(* up while blocks were in use.                                            *)
THEOREM TheoremStatsMatch == SecSpec => []StatsMatch
<1>1. CountInv => StatsMatch
  BY DEF CountInv, Counts
<1> QED
  BY <1>1, CountInvariant, PTL
-----------------------------------------------------------------------------
(***************************************************************************)
(* The list of pools, as the walk that takes no lock sees it.              *)
(***************************************************************************)

(* The new pool that thread t has set up and nobody else can see. *)
Linking(t) == pc[t] \in {"link", "publish"}

(* How far a thread is with the list. *)
ListOkay(t) ==
  /\ pc[t] \in {"search", "expand", "link", "publish", "take"} => Main \in okay
  /\ Linking(t) => req[t].pool # Main /\ Active(req[t].pool) = {}
  /\ pc[t] = "link" => next[req[t].pool] = Null
  /\ pc[t] = "publish" => next[req[t].pool] = next[Main]
  /\ pc[t] = "walk" /\ req[t].ptr # Plain => Reaches(req[t].pool, req[t].ptr[1])
  /\ pc[t] = "libc" => req[t].ptr = Plain

(* Every pool that is ready is in the list, or about to be. *)
Listed ==
  \A p \in okay : Reaches(Main, p) \/ \E t \in Threads : Linking(t) /\ req[t].pool = p

ListInv ==
  /\ NeverMissed /\ Listed
  /\ \A p \in Pools \ okay : next[p] = Null
  /\ \A t \in Threads : ListOkay(t)

(* A pool is reached from itself, and the pool after one that is reached   *)
(* is reached; what is reached from a pool but is not that pool is reached *)
(* from the next one, and there is a next one.                             *)
LEMMA WalkReaches ==
  ASSUME SecInv, NEW a \in Pools, NEW p \in Pools, Reaches(a, p), a # p
  PROVE  next[a] # Null /\ Reaches(next[a], p)
<1>1. next[a] # Null
  <2> SUFFICES ASSUME next[a] = Null PROVE FALSE
    OBVIOUS
  <2>1. {a} \in SUBSET Pools /\ a \in {a} /\ Closed({a})
    BY DEF Closed
  <2>2. p \in {a}
    BY <2>1 DEF Reaches
  <2> QED
    BY <2>2
<1>2. ASSUME NEW S \in SUBSET Pools, next[a] \in S, Closed(S) PROVE p \in S
  <2>1. S \union {a} \in SUBSET Pools /\ Closed(S \union {a})
    BY <1>2 DEF Closed
  <2>2. p \in S \union {a}
    BY <2>1 DEF Reaches
  <2> QED
    BY <2>2
<1> QED
  BY <1>1, <1>2 DEF Reaches

(* What is reached stays reached while sets that the new links stay in are *)
(* sets that the old ones stayed in.                                       *)
LEMMA ReachesKept ==
  ASSUME NEW a, NEW p, Reaches(a, p), \A S \in SUBSET Pools : Closed(S)' => Closed(S)
  PROVE  Reaches(a, p)'
<1> QED
  BY DEF Reaches

LEMMA SameLinks == ASSUME next' = next, NEW a, NEW p PROVE Reaches(a, p)' <=> Reaches(a, p)
<1> QED
  BY DEF Reaches, Closed

(* No two threads are linking a pool, and none is while another has the    *)
(* lock.                                                                   *)
LEMMA OneLinks ==
  ASSUME SecInv, NEW t \in Threads, lock = t, NEW u \in Threads \ {t}
  PROVE  pc[u] \notin Locked /\ ~Linking(u)
<1> QED
  BY DEF SecInv, ThreadOkay, Linking, Locked

(* A thread that takes no step keeps its place in the list, if pools that  *)
(* it is linking are left alone and what was reached still is.             *)
LEMMA OthersPlace ==
  ASSUME ListInv, NEW u \in Threads, pc'[u] = pc[u], req'[u] = req[u], okay \subseteq okay',
         \A a, p : Reaches(a, p) => Reaches(a, p)',
         Linking(u) => next' = next /\ blocks' = blocks
  PROVE  ListOkay(u)'
<1>1. ListOkay(u)
  BY DEF ListInv
<1> QED
  BY <1>1 DEF ListOkay, Linking, Active

(* A step of thread t that links nothing. *)
LEMMA PlaceStep ==
  ASSUME SecInv, ListInv, NEW t \in Threads, UNCHANGED << okay, next >>,
         blocks' = blocks \/ lock = t, ~Linking(t),
         \A u \in Threads \ {t} : pc'[u] = pc[u] /\ req'[u] = req[u],
         NeverMissed', ListOkay(t)'
  PROVE  ListInv'
<1>1. \A a, p : Reaches(a, p)' <=> Reaches(a, p)
  BY SameLinks
<1>2. ASSUME NEW u \in Threads, u # t PROVE ListOkay(u)'
  BY <1>1, <1>2, OneLinks, OthersPlace
<1>3. Listed'
  <2> SUFFICES ASSUME NEW p \in okay, ~Reaches(Main, p)
               PROVE  \E u \in Threads : Linking(u)' /\ req'[u].pool = p
    BY <1>1 DEF Listed
  <2>1. PICK u \in Threads : Linking(u) /\ req[u].pool = p
    BY DEF ListInv, Listed
  <2> QED
    BY <2>1 DEF Linking
<1> QED
  BY <1>2, <1>3 DEF ListInv

(* A step that keeps the list, the threads and the blocks as they are. *)
LEMMA PlaceKept ==
  ASSUME ListInv, UNCHANGED << okay, next, blocks, pc, req >>, NeverMissed'
  PROVE  ListInv'
<1>1. \A a, p : Reaches(a, p)' <=> Reaches(a, p)
  BY SameLinks
<1>2. ASSUME NEW u \in Threads PROVE ListOkay(u)'
  BY <1>1, OthersPlace
<1>3. Listed'
  BY <1>1 DEF ListInv, Listed, Linking
<1> QED
  BY <1>2, <1>3 DEF ListInv

(* The main pool is set up: it starts the list. *)
LEMMA MainListed ==
  ASSUME SecInv, ListInv, NEW s, SetUpMain(s), UNCHANGED << pc, req, status >>
  PROVE  ListInv'
<1>1. okay' = okay \union {Main} /\ next' = next /\ \A p \in Pools \ {Main} : blocks'[p] = blocks[p]
  BY DEF SetUpMain, SecInv, Types
<1>2. \A a, p : Reaches(a, p)' <=> Reaches(a, p)
  BY <1>1, SameLinks
<1>3. Reaches(Main, Main)
  BY DEF Reaches
<1>4. ASSUME NEW u \in Threads PROVE ListOkay(u)'
  <2>1. ListOkay(u) /\ (Linking(u) => req[u].pool \in Pools \ {Main})
    BY DEF ListInv, ListOkay, Linking, SecInv, ThreadOkay, Types
  <2> QED
    BY <2>1, <1>1, <1>2 DEF ListOkay, Linking, Active
<1>5. Listed'
  BY <1>1, <1>2, <1>3 DEF ListInv, Listed, Linking
<1> QED
  BY <1>1, <1>4, <1>5 DEF ListInv, NeverMissed

(* A new overflow pool is the one its thread is linking. *)
LEMMA NewPoolListed == ASSUME SecInv, ListInv, NEW t \in Threads, NewPool(t) PROVE ListInv'
<1>1. pc[t] = "expand" /\ lock = t /\ Main \in okay /\ req[t] \in Request /\ ~Linking(t)
  BY DEF NewPool, At, SecInv, ThreadOkay, Types, ListInv, ListOkay, Linking, Locked
<1>2. CASE ReturnNull(t)
  <2>1. /\ UNCHANGED << okay, next, blocks, status >>
        /\ pc' = [ pc EXCEPT ![t] = "idle" ] /\ req' = [ req EXCEPT ![t] = NoRequest ]
    BY <1>2 DEF ReturnNull, ReturnWith, EndCall, Goto, poolVars
  <2>2. pc'[t] = "idle" /\ \A u \in Threads \ {t} : pc'[u] = pc[u] /\ req'[u] = req[u]
    BY <2>1 DEF SecInv, Types
  <2>3. ListOkay(t)'
    BY <2>2 DEF ListOkay, Linking
  <2> QED
    BY <1>1, <2>1, <2>2, <2>3, PlaceStep DEF ListInv, NeverMissed
<1>3. CASE ~ReturnNull(t)
  <2>1. PICK p \in Overflow \ okay :
          /\ okay' = okay \union {p} /\ next' = [ next EXCEPT ![p] = Null ]
          /\ \E s : blocks' = [ blocks EXCEPT ![p] = FreshPool(s) ]
          /\ pc' = [ pc EXCEPT ![t] = "link" ] /\ req' = [ req EXCEPT ![t].pool = p ]
          /\ status' = status
    BY <1>3 DEF NewPool, Goto, userVars
  <2>2. p \in Pools \ okay /\ p # Main /\ next[p] = Null
    BY <2>1, PoolsAssumption DEF Pools, ListInv
  <2>3. next' = next
    BY <2>1, <2>2 DEF SecInv, Types
  <2>4. \A a, b : Reaches(a, b)' <=> Reaches(a, b)
    BY <2>3, SameLinks
  <2>5. pc'[t] = "link" /\ req'[t].pool = p /\ req'[t].ptr = req[t].ptr
    BY <1>1, <2>1 DEF SecInv, Types, Request
  <2>6. \A u \in Threads \ {t} : pc'[u] = pc[u] /\ req'[u] = req[u]
    BY <2>1 DEF SecInv, Types
  <2>7. Active(p)' = {}
    <3>1. PICK s : blocks' = [ blocks EXCEPT ![p] = FreshPool(s) ]
      BY <2>1
    <3>2. blocks'[p] = FreshPool(s)
      BY <3>1, <2>2 DEF SecInv, Types
    <3> QED
      BY <3>2 DEF Active, InUse, FreshPool
  <2>8. ASSUME NEW u \in Threads PROVE ListOkay(u)'
    <3>1. CASE u = t
      BY <3>1, <1>1, <2>1, <2>2, <2>3, <2>5, <2>7 DEF ListOkay, Linking
    <3>2. CASE u # t
      BY <3>2, <1>1, <2>1, <2>4, <2>6, OneLinks, OthersPlace
    <3> QED
      BY <3>1, <3>2
  <2>9. Listed'
    <3> SUFFICES ASSUME NEW r \in okay', ~Reaches(Main, r)
                 PROVE  \E u \in Threads : Linking(u)' /\ req'[u].pool = r
      BY <2>4 DEF Listed
    <3>1. CASE r = p
      BY <3>1, <2>5 DEF Linking
    <3>2. CASE r # p
      <4>1. PICK u \in Threads : Linking(u) /\ req[u].pool = r
        BY <3>2, <2>1 DEF ListInv, Listed
      <4>2. u # t
        BY <4>1, <1>1
      <4> QED
        BY <4>1, <4>2, <2>6 DEF Linking
    <3> QED
      BY <3>1, <3>2
  <2> QED
    BY <2>1, <2>3, <2>8, <2>9 DEF ListInv, NeverMissed
<1> QED
  BY <1>2, <1>3

(* The first store: the new pool leads to where the main pool does.  The   *)
(* second: the main pool leads to the new one.  Nothing that was reached   *)
(* is out of reach between or after them.                                  *)
LEMMA LinkListed == ASSUME SecInv, ListInv, NEW t \in Threads, Link(t) PROVE ListInv'
<1> DEFINE p == req[t].pool
<1>1. /\ Linking(t) /\ lock = t /\ p \in okay /\ p \in Pools /\ Main \in okay /\ Main \in Pools
      /\ p # Main /\ Active(p) = {} /\ req[t] \in Request
  <2>1. Linking(t)
    BY DEF Link, At, Linking
  <2>2. ThreadOkay(t) /\ ListOkay(t) /\ okay \subseteq Pools /\ req[t] \in Request
    BY DEF SecInv, Types, ListInv
  <2> QED
    BY <2>1, <2>2 DEF Linking, ThreadOkay, ListOkay, Pools, Locked
<1>2. UNCHANGED << okay, blocks, status, req >>
  BY DEF Link, userVars
<1>3. \/ pc[t] = "link" /\ pc' = [ pc EXCEPT ![t] = "publish" ] /\ next' = [ next EXCEPT ![p] = next[Main] ]
      \/ pc[t] = "publish" /\ pc' = [ pc EXCEPT ![t] = "take" ] /\ next' = [ next EXCEPT ![Main] = p ]
  <2>1. PICK k \in {1, 2} :
          /\ pc[t] = << "link", "publish" >>[k] /\ pc' = [ pc EXCEPT ![t] = << "publish", "take" >>[k] ]
          /\ next' = IF StoreOrder[k] = "own" THEN [ next EXCEPT ![p] = next[Main] ]
                     ELSE [ next EXCEPT ![Main] = p ]
    BY DEF Link, At, Goto
  <2>2. CASE k = 1
    BY <2>1, <2>2 DEF StoreOrder
  <2>3. CASE k = 2
    BY <2>1, <2>3 DEF StoreOrder
  <2> QED
    BY <2>2, <2>3
<1>4. \A u \in Threads \ {t} : pc'[u] = pc[u] /\ req'[u] = req[u] /\ ~Linking(u)
  BY <1>1, <1>2, <1>3, OneLinks DEF SecInv, Types
<1>5. \A q \in Pools \ okay : next'[q] = Null
  BY <1>1, <1>3 DEF ListInv, SecInv, Types
<1>6. CASE pc[t] = "link"
  <2>1. /\ next[p] = Null /\ next'[p] = next[Main] /\ next'[Main] = next[Main] /\ pc'[t] = "publish"
        /\ \A x \in Pools \ {p} : next'[x] = next[x]
    BY <1>1, <1>3, <1>6 DEF ListInv, ListOkay, SecInv, Types
  <2>2. \A S \in SUBSET Pools : Closed(S)' => Closed(S)
    BY <2>1 DEF Closed
  <2>3. \A a, b : Reaches(a, b) => Reaches(a, b)'
    BY <2>2, ReachesKept
  <2>4. ListOkay(t)'
    BY <1>1, <1>2, <2>1 DEF ListOkay, Linking, Active
  <2>5. \A u \in Threads \ {t} : ListOkay(u)'
    BY <1>2, <1>4, <2>3, OthersPlace
  <2>6. Listed'
    BY <1>2, <1>4, <2>1, <2>3 DEF ListInv, Listed, Linking
  <2> QED
    BY <1>2, <1>5, <2>4, <2>5, <2>6 DEF ListInv, NeverMissed
<1>7. CASE pc[t] = "publish"
  <2>1. /\ next[p] = next[Main] /\ next'[p] = next[p] /\ next'[Main] = p /\ pc'[t] = "take"
        /\ \A x \in Pools \ {Main} : next'[x] = next[x]
    BY <1>1, <1>3, <1>7 DEF ListInv, ListOkay, SecInv, Types
  <2>2. ASSUME NEW S \in SUBSET Pools, Closed(S)' PROVE Closed(S)
    <3> SUFFICES ASSUME NEW x \in S, next[x] # Null PROVE next[x] \in S
      BY DEF Closed
    <3>1. CASE x = Main
      <4>1. p \in S
        BY <3>1, <2>1, <2>2, <1>1, PoolsAssumption DEF Closed
      <4> QED
        BY <3>1, <4>1, <2>1, <2>2 DEF Closed
    <3>2. CASE x # Main
      BY <3>2, <2>1, <2>2 DEF Closed
    <3> QED
      BY <3>1, <3>2
  <2>3. \A a, b : Reaches(a, b) => Reaches(a, b)'
    BY <2>2, ReachesKept
  <2>4. ListOkay(t)'
    BY <1>1, <1>2, <2>1 DEF ListOkay, Linking
  <2>5. \A u \in Threads \ {t} : ListOkay(u)'
    BY <1>2, <1>4, <2>3, OthersPlace
  <2>6. Reaches(Main, p)'
    <3> SUFFICES ASSUME NEW S \in SUBSET Pools, Main \in S, Closed(S)' PROVE p \in S
      BY <1>2 DEF Reaches
    <3> QED
      BY <1>1, <2>1, PoolsAssumption DEF Closed
  <2>7. Listed'
    BY <1>2, <1>4, <2>3, <2>6 DEF ListInv, Listed
  <2> QED
    BY <1>2, <1>5, <2>4, <2>5, <2>7 DEF ListInv, NeverMissed
<1> QED
  BY <1>1, <1>6, <1>7 DEF Linking

(* A walk begins at the main pool, from which the pool of every block in   *)
(* use is reached.                                                         *)
LEMMA CallListed == ASSUME SecInv, ListInv, NEW t \in Threads, Call(t) PROVE ListInv'
<1>1. UNCHANGED << poolVars, flagVars, userVars, lock >>
  BY CallBegins
<1>2. ASSUME NEW step, NEW r, Begin(t, step, r),
             step = "lock" \/ (step = "walk" /\ r.pool = Main /\ r.ptr \in DOMAIN held)
      PROVE  ListInv'
  <2>1. pc[t] = "idle" /\ pc' = [ pc EXCEPT ![t] = step ] /\ req' = [ req EXCEPT ![t] = r ]
    BY <1>2 DEF Begin, At, Goto
  <2>2. /\ pc'[t] = step /\ req'[t] = r /\ ~Linking(t)
        /\ \A u \in Threads \ {t} : pc'[u] = pc[u] /\ req'[u] = req[u]
    BY <2>1 DEF SecInv, Types, Linking
  <2>3. UNCHANGED << okay, next, blocks, status >>
    BY <1>1 DEF poolVars, userVars
  <2>4. step = "walk" /\ r.ptr # Plain => Reaches(Main, r.ptr[1])
    <3> SUFFICES ASSUME r.ptr \in DOMAIN held \ {Plain} PROVE Reaches(Main, r.ptr[1])
      BY <1>2
    <3>1. r.ptr[1] \in okay /\ Active(r.ptr[1]) # {}
      BY DEF SecInv, HeldOkay, Backed
    <3> QED
      BY <3>1 DEF ListInv, Listed, ListOkay
  <2>5. ListOkay(t)'
    <3>1. \A a, p : Reaches(a, p)' <=> Reaches(a, p)
      BY <2>3, SameLinks
    <3> QED
      BY <1>2, <2>2, <2>4, <3>1 DEF ListOkay, Linking
  <2> QED
    BY <2>2, <2>3, <2>5, PlaceStep DEF ListInv, NeverMissed
<1>3. CASE \E n \in Requests, xhint \in BOOLEAN : Malloc(t, n, xhint)
  BY <1>2, <1>3, Zenon DEF Malloc
<1>4. CASE \E q \in DOMAIN held : FreeCall(t, q)
  <2>1. PICK q \in DOMAIN held : FreeCall(t, q)
    BY <1>4
  <2>2. PICK r : r = [ NoRequest EXCEPT !.op = "free", !.ptr = q, !.pool = Main ]
    OBVIOUS
  <2>3. r.pool = Main /\ r.ptr = q
    BY <2>2 DEF NoRequest
  <2>4. Begin(t, "walk", r)
    BY <2>1, <2>2 DEF FreeCall
  <2> QED
    BY <1>2, <2>3, <2>4
<1>5. CASE \E q \in DOMAIN held, n \in Requests, xhint \in BOOLEAN : Realloc(t, q, n, xhint)
  <2>1. PICK q \in DOMAIN held, n \in Requests, xhint \in BOOLEAN : Realloc(t, q, n, xhint)
    BY <1>5
  <2>2. PICK r : r = [ op |-> "realloc", ptr |-> q, n |-> n, xhint |-> xhint,
                       pool |-> Main, new |-> Null ]
    OBVIOUS
  <2>3. r.pool = Main /\ r.ptr = q
    BY <2>2
  <2>4. Begin(t, "walk", r)
    BY <2>1, <2>2 DEF Realloc
  <2> QED
    BY <1>2, <2>3, <2>4
<1> QED
  BY <1>3, <1>4, <1>5 DEF Call

(* The walk goes on to where the pointer's pool is still ahead, and ends   *)
(* without finding it only for a pointer of the C library.                 *)
LEMMA WalkListed ==
  ASSUME SecInv, ListInv, NEW t \in Threads, Walk(t) \/ Libc(t) PROVE ListInv'
<1>1. req[t] \in Request /\ ThreadOkay(t) /\ ListOkay(t) /\ ~Linking(t)
  BY DEF SecInv, Types, ListInv, Walk, Libc, At, Linking
<1>2. UNCHANGED << okay, next, blocks >>
  BY DEF Walk, Libc, poolVars
<1>3. \A a, p : Reaches(a, p)' <=> Reaches(a, p)
  BY <1>2, SameLinks
<1>4. CASE Walk(t)
  <2>1. pc[t] = "walk" /\ req[t].pool \in Pools /\ status' = status
    BY <1>1, <1>4 DEF Walk, At, ThreadOkay, userVars
  <2>2. \A u \in Threads \ {t} : pc'[u] = pc[u] /\ req'[u] = req[u]
    BY <1>4 DEF Walk, Goto, SecInv, Types
  <2>3. ASSUME ~Inside(req[t].ptr, req[t].pool), req[t].ptr # Plain
        PROVE  next[req[t].pool] # Null /\ Reaches(next[req[t].pool], req[t].ptr[1])
    <3>1. req[t].ptr \in DOMAIN held \ {Plain}
      BY <1>1, <2>1, <2>3 DEF ThreadOkay, Request
    <3>2. req[t].ptr[1] \in okay /\ req[t].ptr[1] \in Pools
      BY <3>1 DEF SecInv, HeldOkay, Backed, Types
    <3>3. req[t].ptr[1] # req[t].pool
      BY <2>3, <3>2 DEF Inside
    <3> QED
      BY <1>1, <2>1, <2>3, <3>2, <3>3, WalkReaches DEF ListOkay
  <2>4. ListOkay(t)'
    <3>1. CASE Goto(t, "lock")
      <4>1. pc'[t] = "lock"
        BY <3>1 DEF Goto, SecInv, Types
      <4> QED
        BY <4>1 DEF ListOkay, Linking
    <3>2. CASE /\ ~Inside(req[t].ptr, req[t].pool) /\ UNCHANGED pc
               /\ req' = [ req EXCEPT ![t].pool = next[req[t].pool] ]
      <4>1. pc'[t] = "walk" /\ req'[t].ptr = req[t].ptr /\ req'[t].pool = next[req[t].pool]
        BY <1>1, <2>1, <3>2 DEF SecInv, Types, Request
      <4> QED
        BY <1>3, <2>3, <3>2, <4>1 DEF ListOkay, Linking
    <3>3. CASE /\ ~Inside(req[t].ptr, req[t].pool) /\ next[req[t].pool] = Null
               /\ Goto(t, "libc") /\ UNCHANGED req
      <4>1. pc'[t] = "libc" /\ req'[t].ptr = Plain
        BY <2>3, <3>3 DEF Goto, SecInv, Types
      <4> QED
        BY <4>1 DEF ListOkay, Linking
    <3> QED
      BY <1>4, <3>1, <3>2, <3>3 DEF Walk
  <2> QED
    BY <1>1, <1>2, <2>1, <2>2, <2>4, PlaceStep DEF ListInv, NeverMissed
<1>5. CASE Libc(t)
  <2>1. /\ req[t].ptr = Plain /\ status' = "ok"
        /\ pc' = [ pc EXCEPT ![t] = "idle" ] /\ req' = [ req EXCEPT ![t] = NoRequest ]
    BY <1>1, <1>5 DEF Libc, At, ListOkay, EndCall, Goto
  <2>2. pc'[t] = "idle" /\ \A u \in Threads \ {t} : pc'[u] = pc[u] /\ req'[u] = req[u]
    BY <2>1 DEF SecInv, Types
  <2>3. ListOkay(t)' /\ NeverMissed'
    BY <2>1, <2>2 DEF ListOkay, Linking, NeverMissed
  <2> QED
    BY <1>1, <1>2, <2>2, <2>3, PlaceStep
<1> QED
  BY <1>4, <1>5

(* A call that returns, or goes on to a step that has nothing to do with   *)
(* the list, leaves it as it is.                                           *)
LEMMA StepListed ==
  ASSUME SecInv, ListInv, NEW t \in Threads, UNCHANGED << okay, next, status >>,
         blocks' = blocks \/ lock = t, ~Linking(t),
         NEW step \in Steps \ {"walk", "libc", "link", "publish"}, pc' = [ pc EXCEPT ![t] = step ],
         step \in {"search", "expand", "take"} => Main \in okay,
         \A u \in Threads \ {t} : req'[u] = req[u]
  PROVE  ListInv'
<1>1. pc'[t] = step /\ \A u \in Threads \ {t} : pc'[u] = pc[u]
  BY DEF SecInv, Types
<1>2. ListOkay(t)'
  BY <1>1 DEF ListOkay, Linking
<1> QED
  BY <1>1, <1>2, PlaceStep DEF ListInv, NeverMissed

LEMMA ReturnListed ==
  ASSUME SecInv, ListInv, NEW t \in Threads, NEW gone, NEW got, ReturnWith(t, gone, got),
         UNCHANGED << okay, next >>, blocks' = blocks \/ lock = t, ~Linking(t)
  PROVE  ListInv'
<1>1. /\ pc' = [ pc EXCEPT ![t] = "idle" ] /\ req' = [ req EXCEPT ![t] = NoRequest ]
      /\ status' = status
  BY DEF ReturnWith, EndCall, Goto
<1>2. \A u \in Threads \ {t} : req'[u] = req[u]
  BY <1>1 DEF SecInv, Types
<1>3. "idle" \in Steps \ {"walk", "libc", "link", "publish"}
  BY DEF Steps
<1> QED
  BY <1>1, <1>2, <1>3, StepListed

LEMMA TakeListed ==
  ASSUME SecInv, ListInv, NEW t \in Threads, NEW p \in okay, TakeFrom(t, p), lock = t, ~Linking(t)
  PROVE  ListInv'
<1>1. UNCHANGED << okay, next >>
  BY DEF TakeFrom
<1>2. ASSUME NEW got, ReturnWith(t, {}, got) PROVE ListInv'
  BY <1>1, <1>2, ReturnListed
<1>3. CASE \E o : /\ pc' = [ pc EXCEPT ![t] = "free" ] /\ req' = [ req EXCEPT ![t].new = << p, o >> ]
                  /\ UNCHANGED status
  <2>1. \A u \in Threads \ {t} : req'[u] = req[u]
    BY <1>3 DEF SecInv, Types
  <2>2. "free" \in Steps \ {"walk", "libc", "link", "publish"}
    BY DEF Steps, Locked
  <2> QED
    BY <1>1, <1>3, <2>1, <2>2, StepListed
<1> QED
  BY <1>2, <1>3 DEF TakeFrom, Goto, userVars

(* Every step keeps the list whole. *)
LEMMA ListKept == ASSUME SecInv, ListInv, [Next]_secVars PROVE ListInv'
<1>1. CASE UNCHANGED secVars
  BY <1>1, PlaceKept DEF secVars, poolVars, userVars, ListInv, NeverMissed
<1>2. CASE Setting
  <2>1. CASE \E n \in InitSizes : InitSecmem(n)
    <3>1. PICK n \in InitSizes : InitSecmem(n)
      BY <2>1
    <3>2. CASE SetUpMain(MainSize(n)) /\ UNCHANGED userVars
      BY <3>1, <3>2, MainListed DEF InitSecmem, userVars
    <3>3. CASE NoMainPool
      BY <3>1, <3>3, PlaceKept DEF InitSecmem, NoMainPool, poolVars, NeverMissed
    <3> QED
      BY <3>1, <3>2, <3>3 DEF InitSecmem
  <2>2. CASE DropPrivs \/ DisableSecmem \/ \E nomlock \in BOOLEAN : SetFlags(nomlock)
    BY <2>2, PlaceKept DEF DropPrivs, DisableSecmem, SetFlags, poolVars, userVars, ListInv, NeverMissed
  <2>3. CASE \E n \in ChunkSizes : SetAutoExpand(n)
    BY <2>3, PlaceKept DEF SetAutoExpand, poolVars, userVars, ListInv, NeverMissed
  <2> QED
    BY <1>2, <2>1, <2>2, <2>3 DEF Setting
<1>3. CASE Term
  <2>1. /\ okay' = {} /\ next' = [ p \in Pools |-> Null ]
        /\ UNCHANGED << pc, req, status >> /\ \A t \in Threads : pc[t] = "idle"
    BY <1>3 DEF Term
  <2>2. \A t \in Threads : ListOkay(t)'
    BY <2>1 DEF ListOkay, Linking
  <2> QED
    BY <2>1, <2>2 DEF ListInv, NeverMissed, Listed
<1>4. ASSUME NEW t \in Threads, Call(t) PROVE ListInv'
  BY <1>4, CallListed
<1>5. ASSUME NEW t \in Threads, Lock(t) PROVE ListInv'
  <2>1. /\ UNCHANGED << okay, next, blocks, status, req >> /\ ~Linking(t)
        /\ pc' = [ pc EXCEPT ![t] = IF req[t].op = "malloc" THEN "main" ELSE req[t].op ]
    BY <1>5 DEF Lock, At, Goto, Linking, poolVars, userVars
  <2>2. req[t] \in Request /\ req[t].op # "none"
    BY <1>5 DEF Lock, At, SecInv, ThreadOkay, Types
  <2>3. PICK step \in {"main", "free", "realloc"} : pc' = [ pc EXCEPT ![t] = step ]
    BY <2>1, <2>2 DEF Request
  <2>4. step \in Steps \ {"walk", "libc", "link", "publish"}
    BY DEF Steps, Locked
  <2> QED
    BY <2>1, <2>3, <2>4, StepListed
<1>6. ASSUME NEW t \in Threads, Step(t) PROVE ListInv'
  <2>1. ThreadOkay(t) /\ ListOkay(t)
    BY DEF SecInv, ListInv
  <2>2. ASSUME ReturnNull(t), ~Linking(t) PROVE ListInv'
    BY <2>2, ReturnListed DEF ReturnNull, poolVars
  <2>3. ASSUME NEW p \in okay, SearchAt(t, next[p]), ~Linking(t), Main \in okay PROVE ListInv'
    <3>1. PICK step \in {"expand", "search"} : pc' = [ pc EXCEPT ![t] = step ]
      BY <2>3 DEF SearchAt, Goto
    <3>2. \A u \in Threads \ {t} : req'[u] = req[u]
      BY <2>3 DEF SearchAt, SecInv, Types
    <3>3. step \in Steps \ {"walk", "libc", "link", "publish"}
      BY DEF Steps, Locked
    <3>4. UNCHANGED << okay, next, blocks, status >>
      BY <2>3 DEF SearchAt, poolVars, userVars
    <3> QED
      BY <2>3, <3>1, <3>2, <3>3, <3>4, StepListed
  <2>4. CASE Walk(t) \/ Libc(t)
    BY <2>4, WalkListed
  <2>5. CASE Link(t)
    BY <2>5, LinkListed
  <2>6. CASE NewPool(t)
    BY <2>6, NewPoolListed
  <2>7. CASE Resize(t)
    <3>1. pc[t] = "realloc" /\ ~Linking(t) /\ UNCHANGED << okay, next, blocks >>
      BY <2>7 DEF Resize, At, Linking, poolVars
    <3>2. "main" \in Steps \ {"walk", "libc", "link", "publish"}
      BY DEF Steps, Locked
    <3>3. CASE /\ pc' = [ pc EXCEPT ![t] = "main" ] /\ UNCHANGED << userVars, req >>
      BY <3>1, <3>2, <3>3, StepListed DEF userVars
    <3> QED
      BY <2>7, <3>1, <3>3, ReturnListed DEF Resize, Goto
  <2>8. CASE Freed(t)
    <3>1. pc[t] = "free" /\ ~Linking(t) /\ lock = t /\ UNCHANGED << okay, next >>
      BY <2>1, <2>8 DEF Freed, At, Linking, ThreadOkay, Locked
    <3> QED
      BY <2>8, <3>1, ReturnListed DEF Freed
  <2>9. CASE MainPool(t)
    <3>1. pc[t] = "main" /\ ~Linking(t) /\ lock = t
      BY <2>1, <2>9 DEF MainPool, At, Linking, ThreadOkay, Locked
    <3>2. CASE SetUpMain(MainSize(Standard)) /\ UNCHANGED << userVars, pc, req >>
      BY <3>2, MainListed DEF userVars
    <3>3. CASE NoMainPool /\ UNCHANGED << pc, req >>
      BY <3>3, PlaceKept DEF NoMainPool, poolVars, NeverMissed
    <3> QED
      BY <2>2, <2>3, <2>9, <3>1, <3>2, <3>3, TakeListed DEF MainPool
  <2>10. CASE SearchPool(t)
    <3>1. pc[t] = "search" /\ ~Linking(t) /\ lock = t /\ req[t].pool \in okay /\ Main \in okay
      BY <2>1, <2>10 DEF SearchPool, At, Linking, ThreadOkay, ListOkay, Locked
    <3> QED
      BY <2>3, <2>10, <3>1, TakeListed DEF SearchPool
  <2>11. CASE NewBlock(t)
    <3>1. pc[t] = "take" /\ ~Linking(t) /\ lock = t /\ req[t].pool \in okay
      BY <2>1, <2>11 DEF NewBlock, At, Linking, ThreadOkay, Locked
    <3> QED
      BY <2>2, <2>11, <3>1, TakeListed DEF NewBlock
  <2> QED
    BY <1>6, <2>4, <2>5, <2>6, <2>7, <2>8, <2>9, <2>10, <2>11 DEF Step
<1> QED
  BY <1>1, <1>2, <1>3, <1>4, <1>5, <1>6 DEF Next

(* The list is whole in every reachable state. *)
LEMMA ListInvariant == SecSpec => []ListInv
<1>1. Init => ListInv
  <2> SUFFICES ASSUME Init PROVE ListInv
    OBVIOUS
  <2>1. \A t \in Threads : ListOkay(t)
    BY DEF Init, ListOkay, Linking
  <2> QED
    BY <2>1 DEF Init, ListInv, NeverMissed, Listed
<1>2. SecInv /\ ListInv /\ [Next]_secVars => ListInv'
  BY ListKept
<1> QED
  BY <1>1, <1>2, SecInvariant, PTL DEF SecSpec

(* secmem.c lines 802-816: the walk through the pool list, which takes no  *)
(* lock, finds the pool of every block in use, between any two steps of a  *)
(* thread that is putting a new pool into the list.                        *)
THEOREM TheoremNeverMissed == SecSpec => []NeverMissed
<1>1. ListInv => NeverMissed
  BY DEF ListInv
<1> QED
  BY <1>1, ListInvariant, PTL

(* secmem.c lines 658-669: a pool that is ready for use is reached by the  *)
(* links from the main pool, from the moment its thread has published it.  *)
THEOREM TheoremListed == SecSpec => []Listed
<1>1. ListInv => Listed
  BY DEF ListInv
<1> QED
  BY <1>1, ListInvariant, PTL

(* secmem.c lines 239-276: no byte is two users'.                          *)
RegionsApart == \A r, s \in Live : r # s => Abstract!Apart(r, s)

(* Two regions that users hold never overlap. *)
THEOREM TheoremRegionsApart == SecSpec => []RegionsApart
<1>1. SecInv => RegionsApart
  <2> SUFFICES ASSUME SecInv, NEW r \in Live, NEW s \in Live, r # s PROVE Abstract!Apart(r, s)
    BY DEF RegionsApart
  <2>a. PICK p \in okay : \E a \in Active(p) : r = << p, a + HeadSize, End(blocks[p], a) >>
    BY DEF Live
  <2>b. PICK a \in Active(p) : r = << p, a + HeadSize, End(blocks[p], a) >>
    BY <2>a
  <2>c. PICK q \in okay : \E b \in Active(q) : s = << q, b + HeadSize, End(blocks[q], b) >>
    BY DEF Live
  <2>d. PICK b \in Active(q) : s = << q, b + HeadSize, End(blocks[q], b) >>
    BY <2>c
  <2>1. CASE p # q
    BY <2>1, <2>b, <2>d DEF Abstract!Apart
  <2>2. CASE p = q
    <3>1. /\ Tiled(blocks[p], size[p]) /\ size[p] \in Nat /\ a # b
          /\ a \in DOMAIN blocks[p] /\ b \in DOMAIN blocks[p]
      BY <2>2, <2>b, <2>d DEF SecInv, Types, PoolsTiled, Active, InUse
    <3>2. End(blocks[p], a) <= b \/ End(blocks[p], b) <= a
      BY <3>1, BlocksApart
    <3>3. a \in Nat /\ b \in Nat /\ End(blocks[p], a) \in Nat /\ End(blocks[p], b) \in Nat
      BY <3>1, NextInPool
    <3> QED
      BY <2>2, <2>b, <2>d, <3>2, <3>3, HeadAssumption DEF Abstract!Apart
  <2> QED
    BY <2>1, <2>2
<1> QED
  BY <1>1, SecInvariant, PTL
-----------------------------------------------------------------------------
(***************************************************************************)
(* The list of pools has an end.                                           *)
(***************************************************************************)

(* No link leads to the main pool, nor to a pool that is being linked.     *)
LinkedOnce ==
  \A x \in Pools : next[x] # Main /\ \A t \in Threads : Linking(t) => next[x] # req[t].pool

ChainInv == NoCycle /\ LinkedOnce

(* Pool p is met once on the way from it if some set of pools that has the *)
(* next one but not p is never left.                                       *)
LEMMA MetOnce ==
  ASSUME NEW p \in Pools
  PROVE  ~Reaches(next[p], p) <=> \E S \in SUBSET Pools : next[p] \in S /\ Closed(S) /\ p \notin S
<1> QED
  BY DEF Reaches

(* A step that stores nothing into the list, and begins no linking.        *)
LEMMA ChainKept ==
  ASSUME ChainInv, next' = next, \A t \in Threads : Linking(t)' => Linking(t) /\ req'[t].pool = req[t].pool
  PROVE  ChainInv'
<1>1. \A a, p : Reaches(a, p)' <=> Reaches(a, p)
  BY SameLinks
<1>2. NoCycle'
  BY <1>1 DEF ChainInv, NoCycle
<1>3. LinkedOnce'
  BY DEF ChainInv, LinkedOnce
<1> QED
  BY <1>2, <1>3 DEF ChainInv

(* A pool that is not ready has no link to it, so its thread is the first  *)
(* to link it.                                                             *)
LEMMA NewPoolChained ==
  ASSUME SecInv, ListInv, ChainInv, NEW t \in Threads, NewPool(t) PROVE ChainInv'
<1>1. pc[t] = "expand" /\ req[t] \in Request
  BY DEF NewPool, At, SecInv, Types
<1>2. CASE ReturnNull(t)
  <2>1. next' = next /\ pc' = [ pc EXCEPT ![t] = "idle" ] /\ req' = [ req EXCEPT ![t] = NoRequest ]
    BY <1>2 DEF ReturnNull, ReturnWith, EndCall, Goto, poolVars
  <2> QED
    BY <2>1, ChainKept DEF Linking, SecInv, Types
<1>3. CASE ~ReturnNull(t)
  <2>1. PICK p \in Overflow \ okay :
          /\ next' = [ next EXCEPT ![p] = Null ]
          /\ pc' = [ pc EXCEPT ![t] = "link" ] /\ req' = [ req EXCEPT ![t].pool = p ]
    BY <1>3 DEF NewPool, Goto
  <2>2. p \in Pools \ okay /\ next[p] = Null
    BY <2>1 DEF Pools, ListInv
  <2>3. next' = next
    BY <2>1, <2>2 DEF SecInv, Types
  <2>4. /\ req'[t].pool = p
        /\ \A u \in Threads \ {t} : pc'[u] = pc[u] /\ req'[u] = req[u]
    BY <1>1, <2>1 DEF SecInv, Types, Request
  <2>5. \A x \in Pools : next[x] # p
    <3>1. \A x \in Pools : next[x] = Null \/ next[x] \in okay
      BY DEF SecInv, LinksOkay
    <3> QED
      BY <2>2, <3>1, PoolsAssumption
  <2>6. NoCycle'
    <3>1. \A a, q : Reaches(a, q)' <=> Reaches(a, q)
      BY <2>3, SameLinks
    <3> QED
      BY <2>3, <3>1 DEF ChainInv, NoCycle
  <2>7. LinkedOnce'
    <3> SUFFICES ASSUME NEW x \in Pools, NEW u \in Threads, Linking(u)' PROVE next'[x] # req'[u].pool
      BY <2>3 DEF ChainInv, LinkedOnce
    <3> QED
      BY <2>3, <2>4, <2>5 DEF ChainInv, LinkedOnce, Linking
  <2> QED
    BY <2>6, <2>7 DEF ChainInv
<1> QED
  BY <1>2, <1>3

(* The first store.  No link leads to the new pool, so a set that is never *)
(* left is not left either when the new pool is taken from it.             *)
LEMMA OwnChained ==
  ASSUME SecInv, ChainInv, NEW p \in Pools \ {Main},
         \A x \in Pools : next[x] # p, next' = [ next EXCEPT ![p] = next[Main] ]
  PROVE  NoCycle'
<1>1. Main \in Pools /\ next'[p] = next[Main] /\ \A x \in Pools \ {p} : next'[x] = next[x]
  BY DEF Pools, SecInv, Types
<1>2. ASSUME NEW S \in SUBSET Pools, Closed(S) PROVE Closed(S \ {p})'
  <2>1. \A x \in S \ {p} : next'[x] = next[x] /\ next[x] # p
    BY <1>1
  <2> QED
    BY <1>2, <2>1 DEF Closed
<1>3. ASSUME NEW x \in Pools, next'[x] # Null PROVE ~Reaches(next[x], x)'
  <2>1. PICK y \in Pools : next'[x] = next[y] /\ y = IF x = p THEN Main ELSE x
    BY <1>1
  <2>2. next[y] # Null /\ ~Reaches(next[y], y)
    BY <1>3, <2>1 DEF ChainInv, NoCycle
  <2>3. PICK S \in SUBSET Pools : next[y] \in S /\ Closed(S) /\ y \notin S
    BY <2>2, MetOnce
  <2>4. next'[x] \in S \ {p} /\ x \notin S \ {p}
    BY <2>1, <2>3
  <2>5. Closed(S \ {p})' /\ S \ {p} \in SUBSET Pools
    BY <1>2, <2>3
  <2> QED
    BY <2>4, <2>5 DEF Reaches
<1> QED
  BY <1>3 DEF NoCycle

(* The second store.  No link leads to the main pool, and the new pool     *)
(* leads to where the main pool led.                                       *)
LEMMA HeadChained ==
  ASSUME SecInv, ChainInv, NEW p \in Pools \ {Main},
         next[p] = next[Main], next' = [ next EXCEPT ![Main] = p ]
  PROVE  NoCycle'
<1>1. Main \in Pools /\ next'[Main] = p /\ \A x \in Pools \ {Main} : next'[x] = next[x]
  BY DEF Pools, SecInv, Types
<1>2. ASSUME NEW S \in SUBSET Pools, Closed(S) PROVE Closed(S \ {Main})'
  <2>1. \A x \in S \ {Main} : next'[x] = next[x] /\ next[x] # Main
    BY <1>1 DEF ChainInv, LinkedOnce
  <2> QED
    BY <1>2, <2>1 DEF Closed
<1>3. ASSUME NEW x \in Pools \ {Main}, next'[x] # Null PROVE ~Reaches(next[x], x)'
  <2>1. next'[x] = next[x] /\ next[x] # Main /\ ~Reaches(next[x], x)
    BY <1>1, <1>3 DEF ChainInv, NoCycle, LinkedOnce
  <2>2. PICK S \in SUBSET Pools : next[x] \in S /\ Closed(S) /\ x \notin S
    BY <2>1, MetOnce
  <2>3. Closed(S \ {Main})' /\ S \ {Main} \in SUBSET Pools /\ next'[x] \in S \ {Main}
    BY <1>2, <2>1, <2>2
  <2> QED
    BY <2>2, <2>3 DEF Reaches
<1>4. ~Reaches(next[Main], Main)'
  <2>1. PICK S \in SUBSET Pools : Closed(S) /\ Main \notin S /\ (next[Main] # Null => next[Main] \in S)
    <3>1. CASE next[Main] = Null
      <4>1. {} \in SUBSET Pools /\ Closed({})
        BY DEF Closed
      <4> QED
        BY <3>1, <4>1
    <3>2. CASE next[Main] # Null
      <4>1. ~Reaches(next[Main], Main)
        BY <1>1, <3>2 DEF ChainInv, NoCycle
      <4> QED
        BY <1>1, <4>1, MetOnce
    <3> QED
      BY <3>1, <3>2
  <2>2. next'[p] = next[Main] /\ \A x \in S : next'[x] = next[x]
    BY <1>1, <2>1
  <2>3. Closed(S \union {p})' /\ S \union {p} \in SUBSET Pools /\ Main \notin S \union {p}
    BY <2>1, <2>2 DEF Closed
  <2> QED
    BY <1>1, <2>3 DEF Reaches
<1> QED
  BY <1>3, <1>4 DEF NoCycle

LEMMA LinkChained == ASSUME SecInv, ListInv, ChainInv, NEW t \in Threads, Link(t) PROVE ChainInv'
<1> DEFINE p == req[t].pool
<1>1. Linking(t) /\ lock = t /\ req' = req
  BY DEF Link, At, Linking, SecInv, ThreadOkay, Locked
<1>2. /\ p \in Pools \ {Main} /\ Main \in Pools
      /\ \A x \in Pools : next[x] # p /\ next[x] # Main
  BY <1>1 DEF ChainInv, LinkedOnce, ListInv, ListOkay, SecInv, ThreadOkay, Types, Pools, Linking
<1>3. \/ pc[t] = "link" /\ pc' = [ pc EXCEPT ![t] = "publish" ] /\ next' = [ next EXCEPT ![p] = next[Main] ]
      \/ /\ pc[t] = "publish" /\ pc' = [ pc EXCEPT ![t] = "take" ] /\ next' = [ next EXCEPT ![Main] = p ]
         /\ next[p] = next[Main]
  <2>1. PICK k \in {1, 2} :
          /\ pc[t] = << "link", "publish" >>[k] /\ pc' = [ pc EXCEPT ![t] = << "publish", "take" >>[k] ]
          /\ next' = IF StoreOrder[k] = "own" THEN [ next EXCEPT ![p] = next[Main] ]
                     ELSE [ next EXCEPT ![Main] = p ]
    BY DEF Link, At, Goto
  <2>2. CASE k = 1
    BY <2>1, <2>2 DEF StoreOrder
  <2>3. CASE k = 2
    BY <2>1, <2>3 DEF StoreOrder, ListInv, ListOkay
  <2> QED
    BY <2>2, <2>3
<1>4. \A u \in Threads \ {t} : ~Linking(u)'
  BY <1>1, <1>3, OneLinks DEF SecInv, Types, Linking
<1> HIDE DEF p
<1>5. CASE pc[t] = "link" /\ next' = [ next EXCEPT ![p] = next[Main] ]
  <2>1. NoCycle'
    BY <1>2, <1>5, OwnChained
  <2>2. \A x \in Pools : next'[x] # p /\ next'[x] # Main
    BY <1>2, <1>5 DEF SecInv, Types
  <2>3. LinkedOnce'
    BY <1>1, <1>4, <2>2 DEF LinkedOnce, p
  <2> QED
    BY <2>1, <2>3 DEF ChainInv
<1>6. CASE /\ pc' = [ pc EXCEPT ![t] = "take" ] /\ next' = [ next EXCEPT ![Main] = p ]
           /\ next[p] = next[Main]
  <2>1. NoCycle'
    BY <1>2, <1>6, HeadChained
  <2>2. \A x \in Pools : next'[x] # Main
    BY <1>2, <1>6 DEF SecInv, Types
  <2>3. \A u \in Threads : ~Linking(u)'
    BY <1>4, <1>6 DEF Linking, SecInv, Types
  <2>4. LinkedOnce'
    BY <2>2, <2>3 DEF LinkedOnce
  <2> QED
    BY <2>1, <2>4 DEF ChainInv
<1> QED
  BY <1>3, <1>5, <1>6
(* A thread goes on to a step that is not about linking. *)
LEMMA StepChained ==
  ASSUME SecInv, ChainInv, NEW t \in Threads, next' = next,
         NEW step \in Steps \ {"link", "publish"},
         pc' = [ pc EXCEPT ![t] = step ], \A u \in Threads \ {t} : req'[u] = req[u]
  PROVE  ChainInv'
<1>1. pc'[t] = step /\ \A u \in Threads \ {t} : pc'[u] = pc[u]
  BY DEF SecInv, Types
<1> QED
  BY <1>1, ChainKept DEF Linking

LEMMA ReturnChained ==
  ASSUME SecInv, ChainInv, NEW t \in Threads, next' = next, EndCall(t) PROVE ChainInv'
<1>1. pc' = [ pc EXCEPT ![t] = "idle" ] /\ \A u \in Threads \ {t} : req'[u] = req[u]
  BY DEF EndCall, Goto, SecInv, Types
<1>2. "idle" \in Steps \ {"link", "publish"}
  BY DEF Steps
<1> QED
  BY <1>1, <1>2, StepChained

LEMMA TakeChained ==
  ASSUME SecInv, ChainInv, NEW t \in Threads, NEW p, TakeFrom(t, p) PROVE ChainInv'
<1>1. next' = next
  BY DEF TakeFrom
<1>2. CASE EndCall(t)
  BY <1>1, <1>2, ReturnChained
<1>3. CASE \E o : Goto(t, "free") /\ req' = [ req EXCEPT ![t].new = << p, o >> ]
  <2>1. "free" \in Steps \ {"link", "publish"} /\ \A u \in Threads \ {t} : req'[u] = req[u]
    BY <1>3 DEF Steps, Locked, SecInv, Types
  <2> QED
    BY <1>1, <1>3, <2>1, StepChained DEF Goto
<1> QED
  BY <1>2, <1>3 DEF TakeFrom, ReturnWith

(* Every call begins by walking the pools or by asking for the lock, and leaves
   everything else as it was, the other threads' requests too. *)
LEMMA CallTurnsTo ==
  ASSUME SecInv, NEW t \in Threads, Call(t)
  PROVE  /\ pc[t] = "idle" /\ next' = next /\ lock' = lock
         /\ \A u \in Threads \ {t} : req'[u] = req[u]
         /\ \E step \in {"walk", "lock"} : pc' = [ pc EXCEPT ![t] = step ]
<1>1. ASSUME NEW n \in Requests, NEW xhint \in BOOLEAN, Malloc(t, n, xhint)
      PROVE  /\ pc[t] = "idle" /\ next' = next /\ lock' = lock
             /\ \A u \in Threads \ {t} : req'[u] = req[u]
             /\ pc' = [ pc EXCEPT ![t] = "lock" ]
  BY <1>1 DEF Malloc, Begin, At, Goto, poolVars, SecInv, Types
<1>2. ASSUME NEW q \in DOMAIN held, FreeCall(t, q)
      PROVE  /\ pc[t] = "idle" /\ next' = next /\ lock' = lock
             /\ \A u \in Threads \ {t} : req'[u] = req[u]
             /\ pc' = [ pc EXCEPT ![t] = "walk" ]
  BY <1>2 DEF FreeCall, Begin, At, Goto, poolVars, SecInv, Types
<1>3. ASSUME NEW q \in DOMAIN held, NEW n \in Requests, NEW xhint \in BOOLEAN,
             Realloc(t, q, n, xhint)
      PROVE  /\ pc[t] = "idle" /\ next' = next /\ lock' = lock
             /\ \A u \in Threads \ {t} : req'[u] = req[u]
             /\ pc' = [ pc EXCEPT ![t] = "walk" ]
  BY <1>3 DEF Realloc, Begin, At, Goto, poolVars, SecInv, Types
<1>4. CASE \E n \in Requests, xhint \in BOOLEAN : Malloc(t, n, xhint)
  <2>1. PICK n \in Requests, xhint \in BOOLEAN : Malloc(t, n, xhint)
    BY <1>4
  <2> QED
    BY <1>1, <2>1
<1>5. CASE \E q \in DOMAIN held : FreeCall(t, q)
  <2>1. PICK q \in DOMAIN held : FreeCall(t, q)
    BY <1>5
  <2> QED
    BY <1>2, <2>1
<1>6. CASE \E q \in DOMAIN held, n \in Requests, xhint \in BOOLEAN : Realloc(t, q, n, xhint)
  <2>1. PICK q \in DOMAIN held, n \in Requests, xhint \in BOOLEAN : Realloc(t, q, n, xhint)
    BY <1>6
  <2> QED
    BY <1>3, <2>1
<1> QED
  BY <1>4, <1>5, <1>6 DEF Call

(* Every step keeps the list from going round. *)
LEMMA ChainStep == ASSUME SecInv, ListInv, ChainInv, [Next]_secVars PROVE ChainInv'
<1>1. CASE UNCHANGED << next, pc, req >>
  BY <1>1, ChainKept DEF Linking
<1>2. CASE Setting
  <2>1. UNCHANGED << next, pc, req >>
    BY <1>2 DEF Setting, InitSecmem, SetUpMain, NoMainPool, DropPrivs, DisableSecmem, SetFlags,
                   SetAutoExpand, poolVars
  <2> QED
    BY <1>1, <2>1
<1>3. CASE Term
  <2>1. next' = [ p \in Pools |-> Null ]
    BY <1>3 DEF Term
  <2>2. \A t \in Threads : ~Linking(t)'
    BY <1>3 DEF Term, Linking
  <2> QED
    BY <2>1, <2>2, PoolsAssumption DEF ChainInv, NoCycle, LinkedOnce, Pools
<1>4. ASSUME NEW t \in Threads, Call(t) PROVE ChainInv'
  <2>1. next' = next /\ \A u \in Threads \ {t} : req'[u] = req[u]
    BY <1>4, CallTurnsTo
  <2>2. PICK step \in {"walk", "lock"} : pc' = [ pc EXCEPT ![t] = step ]
    BY <1>4, CallTurnsTo
  <2>3. step \in Steps \ {"link", "publish"}
    BY DEF Steps, Locked
  <2> QED
    BY <2>1, <2>2, <2>3, StepChained
<1>5. ASSUME NEW t \in Threads, Lock(t) PROVE ChainInv'
  <2>1. next' = next /\ req' = req
    BY <1>5 DEF Lock, poolVars
  <2>2. req[t] \in Request /\ req[t].op # "none"
    BY <1>5 DEF Lock, At, SecInv, ThreadOkay, Types
  <2>3. PICK step \in {"main", "free", "realloc"} : pc' = [ pc EXCEPT ![t] = step ]
    BY <1>5, <2>2 DEF Lock, Goto, Request
  <2>4. step \in Steps \ {"link", "publish"}
    BY DEF Steps, Locked
  <2> QED
    BY <2>1, <2>3, <2>4, StepChained
<1>6. ASSUME NEW t \in Threads, Step(t) PROVE ChainInv'
  <2>1. ASSUME NEW step \in {"main", "search", "expand", "lock", "libc"}, Goto(t, step),
               next' = next, \A u \in Threads \ {t} : req'[u] = req[u]
        PROVE  ChainInv'
    <3>1. step \in Steps \ {"link", "publish"}
      BY DEF Steps, Locked
    <3> QED
      BY <2>1, <3>1, StepChained DEF Goto
  <2>2. ASSUME ReturnNull(t) PROVE ChainInv'
    BY <2>2, ReturnChained DEF ReturnNull, ReturnWith, poolVars
  <2>3. ASSUME NEW p, SearchAt(t, p) PROVE ChainInv'
    <3>1. PICK step \in {"expand", "search"} : Goto(t, step)
      BY <2>3 DEF SearchAt
    <3>2. next' = next /\ \A u \in Threads \ {t} : req'[u] = req[u]
      BY <2>3 DEF SearchAt, poolVars, SecInv, Types
    <3> QED
      BY <2>1, <3>1, <3>2
  <2>4. CASE Walk(t)
    <3>1. CASE Goto(t, "lock") \/ Goto(t, "libc")
      <4>1. next' = next /\ \A u \in Threads \ {t} : req'[u] = req[u]
        BY <2>4 DEF Walk, poolVars, SecInv, Types
      <4> QED
        BY <2>1, <3>1, <4>1
    <3>2. CASE UNCHANGED pc
      <4>1. pc[t] = "walk" /\ next' = next /\ \A u \in Threads \ {t} : req'[u] = req[u]
        BY <2>4 DEF Walk, At, poolVars, SecInv, Types
      <4> QED
        BY <3>2, <4>1, ChainKept DEF Linking
    <3> QED
      BY <2>4, <3>1, <3>2 DEF Walk
  <2>5. CASE Libc(t)
    BY <2>5, ReturnChained DEF Libc, poolVars
  <2>6. CASE Link(t)
    BY <2>6, LinkChained
  <2>7. CASE NewPool(t)
    BY <2>7, NewPoolChained
  <2>8. CASE Resize(t)
    BY <2>8, <2>1, ReturnChained DEF Resize, ReturnWith, poolVars
  <2>9. CASE Freed(t)
    BY <2>9, ReturnChained DEF Freed, ReturnWith
  <2>10. CASE MainPool(t)
    <3>1. CASE SetUpMain(MainSize(Standard)) /\ UNCHANGED << pc, req >>
      BY <3>1, <1>1 DEF SetUpMain
    <3>2. CASE NoMainPool /\ UNCHANGED << pc, req >>
      BY <3>2, <1>1 DEF NoMainPool, poolVars
    <3> QED
      BY <2>10, <2>2, <2>3, <3>1, <3>2, TakeChained DEF MainPool
  <2>11. CASE SearchPool(t)
    BY <2>11, <2>3, TakeChained DEF SearchPool
  <2>12. CASE NewBlock(t)
    BY <2>12, <2>2, TakeChained DEF NewBlock
  <2> QED
    BY <1>6, <2>4, <2>5, <2>6, <2>7, <2>8, <2>9, <2>10, <2>11, <2>12 DEF Step
<1> QED
  BY <1>1, <1>2, <1>3, <1>4, <1>5, <1>6 DEF Next, secVars, poolVars

(* secmem.c lines 602, 628, 658-669, 802: for every number of pools and    *)
(* threads, a walk along the links never meets a pool again, the store     *)
(* that has yet to come included.                                          *)
THEOREM TheoremNoCycle == SecSpec => []NoCycle
<1>1. Init => ChainInv
  <2> SUFFICES ASSUME Init PROVE ChainInv
    OBVIOUS
  <2>1. \A p \in Pools : next[p] = Null /\ Main # Null
    BY PoolsAssumption DEF Init, Pools
  <2>2. \A t \in Threads : ~Linking(t)
    BY DEF Init, Linking
  <2> QED
    BY <2>1, <2>2 DEF ChainInv, NoCycle, LinkedOnce
<1>2. SecInv /\ ListInv /\ ChainInv /\ [Next]_secVars => ChainInv'
  BY ChainStep
<1>3. ChainInv => NoCycle
  BY DEF ChainInv
<1> QED
  BY <1>1, <1>2, <1>3, SecInvariant, ListInvariant, PTL DEF SecSpec
-----------------------------------------------------------------------------
(* secmem.c lines 574-780 and 692-696: a thread that has the lock is       *)
(* inside a call of the allocator, so that no way out of a call, those     *)
(* without memory included, keeps the lock.                                *)
LockReleased == \A t \in Threads : lock = t <=> pc[t] \in Locked

(* The thread with the lock goes on inside, and nobody else gets it. *)
LEMMA StaysInside ==
  ASSUME SecInv, LockReleased, NEW t \in Threads, lock' = lock, pc[t] \in Locked,
         NEW step \in Locked, pc' = [ pc EXCEPT ![t] = step ]
  PROVE  LockReleased'
<1>1. pc'[t] = step /\ \A u \in Threads \ {t} : pc'[u] = pc[u]
  BY DEF SecInv, Types
<1> QED
  BY <1>1 DEF LockReleased

(* A thread outside stays outside. *)
LEMMA StaysOutside ==
  ASSUME SecInv, LockReleased, NEW t \in Threads, lock' = lock, pc[t] \notin Locked,
         NEW step \in Steps \ Locked, pc' = [ pc EXCEPT ![t] = step ]
  PROVE  LockReleased'
<1>1. pc'[t] = step /\ \A u \in Threads \ {t} : pc'[u] = pc[u]
  BY DEF SecInv, Types
<1> QED
  BY <1>1 DEF LockReleased

LEMMA ReturnReleases ==
  ASSUME SecInv, LockReleased, NEW t \in Threads, pc[t] \in Locked,
         NEW gone, NEW got, ReturnWith(t, gone, got)
  PROVE  LockReleased'
<1>1. lock = t /\ lock' = Free /\ Free \notin Threads
  BY PoolsAssumption DEF LockReleased, ReturnWith
<1>2. pc'[t] = "idle" /\ \A u \in Threads \ {t} : pc'[u] = pc[u]
  BY DEF ReturnWith, EndCall, Goto, SecInv, Types
<1> QED
  BY <1>1, <1>2 DEF LockReleased, Locked

LEMMA TakeReleases ==
  ASSUME SecInv, LockReleased, NEW t \in Threads, pc[t] \in Locked, NEW p, TakeFrom(t, p)
  PROVE  LockReleased'
<1>1. CASE \E o : ReturnWith(t, {}, { << p, o >> })
  BY <1>1, ReturnReleases
<1>2. CASE Goto(t, "free") /\ UNCHANGED << userVars, lock >>
  <2>1. "free" \in Locked
    BY DEF Locked
  <2> QED
    BY <1>2, <2>1, StaysInside DEF Goto
<1> QED
  BY <1>1, <1>2 DEF TakeFrom

LEMMA LockKept == ASSUME SecInv, LockReleased, [Next]_secVars PROVE LockReleased'
<1>1. CASE UNCHANGED << lock, pc >>
  BY <1>1 DEF LockReleased
<1>2. CASE Setting \/ Term
  <2>1. UNCHANGED << lock, pc >>
    BY <1>2 DEF Setting, InitSecmem, DropPrivs, DisableSecmem, SetFlags, SetAutoExpand, Term
  <2> QED
    BY <1>1, <2>1
<1>3. ASSUME NEW t \in Threads, Call(t) PROVE LockReleased'
  <2>1. lock' = lock /\ pc[t] \notin Locked
    BY <1>3, CallTurnsTo DEF Locked
  <2>2. PICK step \in {"walk", "lock"} : pc' = [ pc EXCEPT ![t] = step ]
    BY <1>3, CallTurnsTo
  <2>3. step \in Steps \ Locked
    BY DEF Steps, Locked
  <2> QED
    BY <2>1, <2>2, <2>3, StaysOutside
<1>4. ASSUME NEW t \in Threads, Lock(t) PROVE LockReleased'
  <2>1. req[t] \in Request /\ req[t].op # "none"
    BY <1>4 DEF Lock, At, SecInv, ThreadOkay, Types
  <2>2. PICK step \in {"main", "free", "realloc"} : pc' = [ pc EXCEPT ![t] = step ]
    BY <1>4, <2>1 DEF Lock, Goto, Request
  <2>3. pc'[t] \in Locked /\ \A u \in Threads \ {t} : pc'[u] = pc[u]
    BY <2>2 DEF SecInv, Types, Locked
  <2>4. lock = Free /\ lock' = t /\ Free \notin Threads
    BY <1>4, PoolsAssumption DEF Lock
  <2> QED
    BY <2>3, <2>4 DEF LockReleased
<1>5. ASSUME NEW t \in Threads, Step(t) PROVE LockReleased'
  <2>1. CASE Walk(t)
    <3>1. pc[t] = "walk" /\ lock' = lock
      BY <2>1 DEF Walk, At
    <3>2. {"lock", "libc"} \subseteq Steps \ Locked /\ pc[t] \notin Locked
      BY <3>1 DEF Steps, Locked
    <3> QED
      BY <2>1, <3>1, <3>2, <1>1, StaysOutside DEF Walk, Goto
  <2>2. CASE Libc(t)
    <3>1. pc[t] \notin Locked /\ lock' = lock /\ "idle" \in Steps \ Locked
      BY <2>2 DEF Libc, At, Steps, Locked
    <3> QED
      BY <2>2, <3>1, StaysOutside DEF Libc, EndCall, Goto
  <2>3. CASE pc[t] \in Locked
    <3>1. ASSUME NEW step \in Locked, Goto(t, step), lock' = lock PROVE LockReleased'
      BY <2>3, <3>1, StaysInside DEF Goto
    <3>2. {"main", "search", "expand", "link", "publish", "take"} \subseteq Locked
      BY DEF Locked
    <3>3. ASSUME ReturnNull(t) PROVE LockReleased'
      BY <2>3, <3>3, ReturnReleases DEF ReturnNull
    <3>4. ASSUME NEW p, SearchAt(t, p) PROVE LockReleased'
      BY <3>1, <3>2, <3>4 DEF SearchAt
    <3>5. ASSUME NEW p, TakeFrom(t, p) PROVE LockReleased'
      BY <2>3, <3>5, TakeReleases
    <3>6. CASE Resize(t)
      BY <2>3, <3>1, <3>2, <3>6, ReturnReleases DEF Resize
    <3>7. CASE Freed(t)
      BY <2>3, <3>7, ReturnReleases DEF Freed
    <3>8. CASE MainPool(t)
      BY <1>1, <3>3, <3>4, <3>5, <3>8 DEF MainPool
    <3>9. CASE SearchPool(t)
      BY <3>4, <3>5, <3>9 DEF SearchPool
    <3>10. CASE NewPool(t)
      BY <3>1, <3>2, <3>3, <3>10 DEF NewPool
    <3>11. CASE Link(t)
      <4>1. PICK k \in {1, 2} : Goto(t, << "publish", "take" >>[k]) /\ lock' = lock
        BY <3>11 DEF Link
      <4>2. << "publish", "take" >>[k] \in Locked
        BY <3>2, <4>1
      <4> QED
        BY <3>1, <4>1, <4>2
    <3>12. CASE NewBlock(t)
      BY <3>3, <3>5, <3>12 DEF NewBlock
    <3>13. ~Walk(t) /\ ~Libc(t)
      BY <2>3 DEF Walk, Libc, At, Locked
    <3> QED
      BY <1>5, <3>6, <3>7, <3>8, <3>9, <3>10, <3>11, <3>12, <3>13 DEF Step
  <2>4. Walk(t) \/ Libc(t) \/ pc[t] \in Locked
    <3>1. CASE Resize(t) \/ Freed(t) \/ MainPool(t) \/ SearchPool(t) \/ NewPool(t)
      BY <3>1 DEF Resize, Freed, MainPool, SearchPool, NewPool, At, Locked
    <3>2. CASE Link(t)
      <4>1. PICK k \in {1, 2} : At(t, << "link", "publish" >>[k])
        BY <3>2 DEF Link
      <4> QED
        BY <4>1 DEF At, Locked
    <3>3. CASE NewBlock(t)
      BY <3>3 DEF NewBlock, At, Locked
    <3> QED
      BY <1>5, <3>1, <3>2, <3>3 DEF Step
  <2> QED
    BY <2>1, <2>2, <2>3, <2>4
<1> QED
  BY <1>1, <1>2, <1>3, <1>4, <1>5 DEF Next, secVars

(* Whatever a call meets on its way, it leaves without the lock.           *)
THEOREM TheoremLockReleased == SecSpec => []LockReleased
<1>1. Init => LockReleased
  BY PoolsAssumption DEF Init, LockReleased, Locked
<1>2. SecInv /\ LockReleased /\ [Next]_secVars => LockReleased'
  BY LockKept
<1> QED
  BY <1>1, <1>2, SecInvariant, PTL DEF SecSpec
=============================================================================
