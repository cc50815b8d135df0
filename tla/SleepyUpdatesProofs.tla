------------------------- MODULE SleepyUpdatesProofs -------------------------
(***************************************************************************)
(* Proofs about SleepyUpdates, for any modules and objects, any sleep      *)
(* times and any number of frames.                                         *)
(*                                                                         *)
(* The argument: while a rebalancing loop runs only the edges of the heap  *)
(* at its position may be out of order, and the parent of that position    *)
(* comes before its children (HeapInv), so one swap moves the disorder one *)
(* level and the end of the loop removes it.  In an ordered heap the root  *)
(* comes before every module (RootIsFirst, by induction over positions),   *)
(* so the module called is the next one of the timetable.  What is woken   *)
(* or created during the call does not come before it (OrderInv) and never *)
(* takes the root from it (CurInv).                                        *)
(***************************************************************************)
EXTENDS SleepyUpdates, TLAPS, WellFoundedInduction, SequenceTheorems

-----------------------------------------------------------------------------
(* Numbers and positions. *)

(* Induction for sets of naturals, from the well-foundedness of <. *)
LEMMA SetInduction ==
  ASSUME NEW S, 0 \in S, \A n \in Nat : n \in S => n + 1 \in S
  PROVE  \A n \in Nat : n \in S
<1> DEFINE R == OpToRel(<, Nat)
           T == Nat \ S
<1>1. IsWellFoundedOn(R, Nat)
  BY NatLessThanWellFounded, Zenon
<1> SUFFICES ASSUME T # {} PROVE FALSE
  OBVIOUS
<1>2. PICK x \in T : \A y \in T : ~(<<y, x>> \in R)
  <2> HIDE DEF R, T
  <2>1. T \subseteq Nat
    BY DEF T
  <2> QED BY <1>1, <2>1, WFMin
<1>3. x - 1 \in T /\ x - 1 < x /\ x - 1 \in Nat
  OBVIOUS
<1> QED BY <1>2, <1>3 DEF OpToRel

(* The parent of a position. *)
LEMMA Parent ==
  ASSUME NEW p \in Nat \ {0}
  PROVE  /\ p \div 2 \in Nat
         /\ p \div 2 < p
         /\ p = 2 * (p \div 2) \/ p = 2 * (p \div 2) + 1
         /\ p > 1 => p \div 2 >= 1
         /\ (2 * p) \div 2 = p
         /\ (2 * p + 1) \div 2 = p
BY SMT

LEMMA FunctionSeq ==
  ASSUME NEW S, NEW n \in Nat, NEW f \in [1..n -> S]
  PROVE  f \in Seq(S) /\ Len(f) = n /\ DOMAIN f = 1..n
<1>1. f \in Seq(S)
  BY SeqDef
<1>2. Len(f) \in Nat /\ DOMAIN f = 1..Len(f)
  BY <1>1, LenProperties
<1>3. DOMAIN f = 1..n
  OBVIOUS
<1>4. Len(f) = n
  <2>1. \A k \in Int : k \in 1..n <=> k \in 1..Len(f)
    BY <1>2, <1>3
  <2> QED BY <2>1, <1>2
<1> QED BY <1>1, <1>3, <1>4

-----------------------------------------------------------------------------
(* The inductive invariant. *)

(* What the rebalancing loops work on. *)
EngineInv ==
  /\ mode # "idle" => pos \in 1..Len(heap)
  /\ mode # "remake" => low = 1
  /\ mode = "remake" => loc = "before" /\ low <= pos

(* Exactly the modules of the listed objects are scheduled, but for those  *)
(* about to be entered, and those about to be erased.                      *)
EnteredInv ==
  /\ pushing # {} => loc \in {"before", "update", "after", "tail"}
  /\ erasing # {} => loc = "destroy"
  /\ \A u \in pushing : Owner[u] \in inList
  /\ \A u \in erasing : Owner[u] \notin inList
  /\ \A u \in Modules : index[u] # 0 <=>
        (u \in erasing \/ (Owner[u] \in inList /\ u \notin pushing))

(* The priorities of the modules in the heap, by position. *)
Pris == [p \in 1..Len(heap) |-> friend_getPriority(heap[p])]

(* In a heap with the n priorities f only the edges at the position k of   *)
(* the loop m may be out of order, and k's parent comes before k's children. *)
Heaped(f, n, m, k, l) ==
  /\ m = "idle" => \A p \in 2..n : f[p \div 2] <= f[p]
  /\ m = "push" => \A p \in 2..n : p # k => f[p \div 2] <= f[p]
  /\ m = "up" => \A p \in 2..n : p # k /\ p \div 2 # k => f[p \div 2] <= f[p]
  /\ m \in {"down", "remake"} =>
        \A p \in 2..n : p \div 2 >= l /\ p \div 2 # k => f[p \div 2] <= f[p]
  /\ m # "idle" => \A p \in 2..n : p \div 2 = k /\ k \div 2 >= l => f[k \div 2] <= f[p]

HeapInv == Heaped(Pris, Len(heap), mode, pos, low)

(* The module that is being updated. *)
CurInv ==
  /\ cur # None <=> loc = "update"
  /\ cur # None => /\ heap # <<>>
                   /\ heap[1] = cur
                   /\ next[cur] <= frame
                   /\ last = friend_getPriority(cur)

(* Nothing scheduled comes before the last call, and nothing to be entered *)
(* is due before the current one.                                          *)
OrderInv ==
  /\ loc \in {"loop", "update"} =>
        /\ last <= 4 * frame + 3
        /\ \A u \in Scheduled : friend_getPriority(u) >= last
  /\ \A u \in pushing : (next[u] = 0 /\ MayBeDueNow(u)) \/ next[u] > frame

IInv == /\ TypeOK /\ IndexMatches /\ EngineInv /\ EnteredInv
        /\ HeapInv /\ CurInv /\ OrderInv /\ OnTime

-----------------------------------------------------------------------------
(* Lemmas about the heap. *)

LEMMA Priorities ==
  ASSUME TypeOK, NEW u \in Modules
  PROVE  /\ friend_getPriority(u) \in Nat
         /\ 4 * next[u] <= friend_getPriority(u)
         /\ friend_getPriority(u) <= 4 * next[u] + 3
<1>1. next[u] \in Nat
  BY FrameAssumption DEF TypeOK
<1>2. Phase[u] \in 0..3
  BY PhaseAssumption
<1> QED BY <1>1, <1>2 DEF friend_getPriority

LEMMA Members ==
  ASSUME TypeOK
  PROVE  /\ heap \in Seq(Modules) /\ Len(heap) \in Nat /\ DOMAIN heap = 1..Len(heap)
         /\ \A p \in 1..Len(heap) : heap[p] \in Modules
         /\ index \in [Modules -> 0..Len(heap)]
<1>1. heap \in Seq(Modules)
  BY DEF TypeOK
<1>2. index \in [Modules -> 0..Len(heap)]
  BY DEF TypeOK
<1> QED BY <1>1, <1>2

LEMMA PrisType ==
  ASSUME TypeOK
  PROVE  /\ Pris \in [1..Len(heap) -> Nat]
         /\ \A p \in 1..Len(heap) : Pris[p] = friend_getPriority(heap[p])
<1>1. \A p \in 1..Len(heap) : friend_getPriority(heap[p]) \in Nat
  BY Members, Priorities
<1> QED BY <1>1 DEF Pris

(* In an ordered heap no module comes before the root. *)
LEMMA RootIsFirst ==
  ASSUME NEW n \in Nat, NEW f \in [1..n -> Nat], \A p \in 2..n : f[p \div 2] <= f[p]
  PROVE  \A p \in 1..n : f[1] <= f[p]
<1> DEFINE S == {k \in Nat : \A p \in 1..n : p <= k => f[1] <= f[p]}
<1>1. 0 \in S
  OBVIOUS
<1>2. ASSUME NEW k \in Nat, k \in S PROVE k + 1 \in S
  <2> SUFFICES ASSUME NEW p \in 1..n, p <= k + 1 PROVE f[1] <= f[p]
    OBVIOUS
  <2>1. CASE p <= 1
    BY <2>1
  <2>2. CASE p > 1
    <3>1. p \div 2 \in 1..n /\ p \div 2 <= k
      BY <2>2, Parent
    <3>2. f[p \div 2] <= f[p] /\ f[1] <= f[p \div 2]
      BY <3>1, <2>2, <1>2
    <3>3. f[1] \in Nat /\ f[p \div 2] \in Nat /\ f[p] \in Nat
      BY <3>1
    <3> QED BY <3>2, <3>3
  <2> QED BY <2>1, <2>2
<1>3. \A k \in Nat : k \in S
  <2> HIDE DEF S
  <2> QED BY <1>1, <1>2, SetInduction
<1>4. n \in S
  BY <1>3
<1> QED BY <1>4

(* A swap exchanges two modules, their positions with them. *)
LEMMA SwapKeeps ==
  ASSUME TypeOK, IndexMatches,
         NEW p \in 1..Len(heap), NEW q \in 1..Len(heap), p # q, Swap(p, q)
  PROVE  /\ heap' \in Seq(Modules) /\ Len(heap') = Len(heap)
         /\ index' \in [Modules -> 0..Len(heap)]
         /\ IndexMatches' /\ Scheduled' = Scheduled
         /\ heap'[p] = heap[q] /\ heap'[q] = heap[p]
         /\ \A r \in 1..Len(heap) : r # p /\ r # q => heap'[r] = heap[r]
<1> USE Members
<1>1. heap[p] \in Modules /\ heap[q] \in Modules /\ heap[p] # heap[q]
  BY DEF IndexMatches
<1>2. /\ heap' \in Seq(Modules) /\ Len(heap') = Len(heap) /\ DOMAIN heap' = 1..Len(heap)
      /\ DOMAIN heap = 1..Len(heap)
      /\ heap'[p] = heap[q] /\ heap'[q] = heap[p]
      /\ \A r \in 1..Len(heap) : r # p /\ r # q => heap'[r] = heap[r]
  BY <1>1 DEF Swap
<1>3. /\ index' \in [Modules -> 0..Len(heap)]
      /\ index'[heap[p]] = q /\ index'[heap[q]] = p
      /\ \A u \in Modules : u # heap[p] /\ u # heap[q] => index'[u] = index[u]
  BY <1>1 DEF Swap
<1>4. \A r \in 1..Len(heap) : heap[r] \in Modules /\ index[heap[r]] = r
  BY DEF IndexMatches
<1>5. \A u \in Modules : index'[u] # 0 <=> index[u] # 0
  BY <1>3, <1>4
<1>6. Scheduled' = Scheduled
  BY <1>5 DEF Scheduled
<1>7. ASSUME NEW r \in 1..Len(heap) PROVE index'[heap'[r]] = r
  <2>1. CASE r = p
    BY <2>1, <1>2, <1>3
  <2>2. CASE r = q
    BY <2>2, <1>2, <1>3
  <2>3. CASE r # p /\ r # q
    <3>1. heap[r] # heap[p] /\ heap[r] # heap[q] /\ heap[r] \in Modules
      BY <2>3, <1>4
    <3> QED BY <3>1, <2>3, <1>2, <1>3, <1>4
  <2> QED BY <2>1, <2>2, <2>3
<1>8. ASSUME NEW u \in Scheduled PROVE heap'[index'[u]] = u
  <2>1. u \in Modules /\ index[u] \in 1..Len(heap) /\ heap[index[u]] = u
    BY DEF Scheduled, IndexMatches
  <2> QED BY <2>1, <1>2, <1>3
<1> QED BY <1>2, <1>3, <1>6, <1>7, <1>8 DEF IndexMatches

(* The child that SiftDown compares with. *)
LEMMA Child ==
  ASSUME TypeOK, pos \in 1..Len(heap), 2 * pos <= Len(heap)
  PROVE  LET c == HigherPriorityChild(pos)
         IN  /\ c \in 2..Len(heap) /\ c \div 2 = pos /\ c # pos
             /\ \A p \in 2..Len(heap) : p \div 2 = pos =>
                   friend_getPriority(heap[c]) <= friend_getPriority(heap[p])
<1> DEFINE Pri(p) == friend_getPriority(heap[p])
<1> USE Members
<1>1. \A p \in 1..Len(heap) : Pri(p) \in Nat
  BY Priorities
<1>2. \A p \in 2..Len(heap) : p \div 2 = pos => p = 2 * pos \/ p = 2 * pos + 1
  BY Parent
<1>3. (2 * pos) \div 2 = pos /\ (2 * pos + 1) \div 2 = pos
  BY Parent
<1>4. CASE 2 * pos < Len(heap) /\ Pri(2 * pos) > Pri(2 * pos + 1)
  <2>1. HigherPriorityChild(pos) = 2 * pos + 1
    BY <1>4 DEF HigherPriorityChild, isLowerPriority
  <2>2. 2 * pos \in 1..Len(heap) /\ 2 * pos + 1 \in 2..Len(heap)
    BY <1>4
  <2> HIDE DEF Pri
  <2>3. ASSUME NEW p \in 2..Len(heap), p \div 2 = pos PROVE Pri(2 * pos + 1) <= Pri(p)
    <3>1. p = 2 * pos \/ p = 2 * pos + 1
      BY <2>3, <1>2
    <3>2. Pri(2 * pos) \in Nat /\ Pri(2 * pos + 1) \in Nat
      BY <2>2, <1>1
    <3>3. CASE p = 2 * pos
      BY <3>2, <3>3, <1>4
    <3>4. CASE p = 2 * pos + 1
      BY <3>2, <3>4
    <3> QED BY <3>1, <3>3, <3>4
  <2> QED BY <1>3, <2>1, <2>2, <2>3 DEF Pri
<1>5. CASE ~(2 * pos < Len(heap) /\ Pri(2 * pos) > Pri(2 * pos + 1))
  <2>1. HigherPriorityChild(pos) = 2 * pos
    BY <1>5 DEF HigherPriorityChild, isLowerPriority
  <2>2. 2 * pos \in 2..Len(heap)
    OBVIOUS
  <2> HIDE DEF Pri
  <2>3. ASSUME NEW p \in 2..Len(heap), p \div 2 = pos PROVE Pri(2 * pos) <= Pri(p)
    <3>1. p = 2 * pos \/ p = 2 * pos + 1
      BY <2>3, <1>2
    <3>2. Pri(2 * pos) \in Nat
      BY <2>2, <1>1
    <3>3. CASE p = 2 * pos
      BY <3>2, <3>3
    <3>4. CASE p = 2 * pos + 1
      <4>1. 2 * pos < Len(heap) /\ Pri(2 * pos + 1) \in Nat
        BY <3>4, <1>1
      <4> QED BY <4>1, <3>2, <3>4, <1>5
    <3> QED BY <3>1, <3>3, <3>4
  <2> QED BY <1>3, <2>1, <2>2, <2>3 DEF Pri
<1> QED BY <1>4, <1>5

-----------------------------------------------------------------------------
(* Types and positions are preserved. *)

LEMMA SiftUpSwaps ==
  ASSUME TypeOK, IndexMatches, EngineInv, SiftUp,
         pos > 1, isLowerPriority(heap[pos \div 2], heap[pos])
  PROVE  /\ pos \in 1..Len(heap) /\ pos \div 2 \in 1..Len(heap) /\ pos # pos \div 2
         /\ Swap(pos, pos \div 2) /\ pos' = pos \div 2 /\ mode' = mode
BY Parent, Members DEF SiftUp, EngineInv, Rebalance

LEMMA SiftDownSwaps ==
  ASSUME TypeOK, IndexMatches, EngineInv, SiftDown,
         2 * pos <= Len(heap), isLowerPriority(heap[pos], heap[HigherPriorityChild(pos)])
  PROVE  LET c == HigherPriorityChild(pos)
         IN  /\ pos \in 1..Len(heap) /\ c \in 2..Len(heap) /\ pos # c /\ c \div 2 = pos
             /\ Swap(pos, c) /\ pos' = c /\ mode' = mode /\ low' = low
BY Child, Members DEF SiftDown, EngineInv, Rebalance

LEMMA SiftKeeps ==
  ASSUME TypeOK, IndexMatches, EngineInv, Rebalancing
  PROVE  /\ TypeOK' /\ IndexMatches' /\ EngineInv'
         /\ Scheduled' = Scheduled /\ Len(heap') = Len(heap)
         /\ \A u \in Modules : index'[u] # 0 <=> index[u] # 0
         /\ UNCHANGED <<next, clock, world>>
<1> USE Members
<1>1. CASE SiftUp /\ pos > 1 /\ isLowerPriority(heap[pos \div 2], heap[pos])
  <2>1. /\ pos \in 1..Len(heap) /\ pos \div 2 \in 1..Len(heap) /\ pos # pos \div 2
        /\ Swap(pos, pos \div 2) /\ pos' = pos \div 2 /\ mode' = mode
    BY <1>1, SiftUpSwaps
  <2>2. UNCHANGED <<next, low, clock, world>> /\ mode \in {"push", "up"}
    BY <1>1 DEF SiftUp
  <2>3. /\ heap' \in Seq(Modules) /\ Len(heap') = Len(heap)
        /\ index' \in [Modules -> 0..Len(heap)] /\ IndexMatches' /\ Scheduled' = Scheduled
    BY <2>1, SwapKeeps
  <2>6. pos' \in Nat \ {0} /\ index' \in [Modules -> 0..Len(heap')]
    BY <2>1, <2>3
  <2>4. TypeOK'
    BY <2>1, <2>2, <2>3, <2>6 DEF TypeOK, clock, world
  <2>5. EngineInv'
    BY <2>1, <2>2, <2>3 DEF EngineInv, clock
  <2> QED BY <2>2, <2>3, <2>4, <2>5 DEF Scheduled
<1>2. CASE SiftUp /\ ~(pos > 1 /\ isLowerPriority(heap[pos \div 2], heap[pos]))
  <2>1. UNCHANGED <<heap, index, next, low, clock, world>> /\ pos' = pos
    BY <1>2 DEF SiftUp, Rebalance
  <2>2. mode' \in {"idle", "down"} /\ mode \in {"push", "up"}
    BY <1>2 DEF SiftUp, Rebalance
  <2>5. heap' \in Seq(Modules) /\ index' \in [Modules -> 0..Len(heap')]
    BY <2>1
  <2>3. TypeOK'
    BY <2>1, <2>2, <2>5 DEF TypeOK, clock, world
  <2>4. EngineInv'
    BY <2>1, <2>2 DEF EngineInv, clock
  <2> QED BY <2>1, <2>3, <2>4 DEF IndexMatches, Scheduled
<1>3. CASE SiftDown /\ 2 * pos <= Len(heap) /\ isLowerPriority(heap[pos], heap[HigherPriorityChild(pos)])
  <2> DEFINE c == HigherPriorityChild(pos)
  <2>1. /\ pos \in 1..Len(heap) /\ c \in 2..Len(heap) /\ pos # c /\ c \div 2 = pos
        /\ Swap(pos, c) /\ pos' = c /\ mode' = mode /\ low' = low
    BY <1>3, SiftDownSwaps
  <2>2. UNCHANGED <<next, clock, world>> /\ mode \in {"down", "remake"}
    BY <1>3 DEF SiftDown
  <2> HIDE DEF c
  <2>0. c \in 1..Len(heap) /\ pos < c
    BY <2>1, Parent
  <2>3. /\ heap' \in Seq(Modules) /\ Len(heap') = Len(heap)
        /\ index' \in [Modules -> 0..Len(heap)] /\ IndexMatches' /\ Scheduled' = Scheduled
    BY <2>0, <2>1, SwapKeeps
  <2>7. pos' \in Nat \ {0} /\ index' \in [Modules -> 0..Len(heap')]
    BY <2>0, <2>1, <2>3
  <2>4. TypeOK'
    BY <2>1, <2>2, <2>3, <2>7 DEF TypeOK, clock, world
  <2>5. low \in Nat
    BY DEF TypeOK
  <2>6. EngineInv'
    BY <2>0, <2>1, <2>2, <2>3, <2>5 DEF EngineInv, clock
  <2> QED BY <2>2, <2>3, <2>4, <2>6 DEF Scheduled
<1>4. CASE SiftDown /\ ~(2 * pos <= Len(heap) /\ isLowerPriority(heap[pos], heap[HigherPriorityChild(pos)]))
  <2>1. UNCHANGED <<heap, index, next, clock, world>> /\ mode \in {"down", "remake"}
    BY <1>4 DEF SiftDown
  <2>2. \/ /\ mode = "remake" /\ low > 1 /\ mode' = "remake"
           /\ pos' = low - 1 /\ low' = low - 1
        \/ /\ mode = "down" \/ ~(low > 1)
           /\ mode' = "idle" /\ pos' = pos /\ low' = low
    BY <1>4 DEF SiftDown, Rebalance, MoreParents
  <2>3. low \in Nat \ {0} /\ pos \in Nat \ {0}
    BY DEF TypeOK
  <2>6. heap' \in Seq(Modules) /\ index' \in [Modules -> 0..Len(heap')]
    BY <2>1
  <2>7. mode' \in {"idle", "remake"} /\ pos' \in Nat \ {0} /\ low' \in Nat \ {0}
    BY <2>2, <2>3
  <2>4. TypeOK'
    BY <2>1, <2>6, <2>7 DEF TypeOK, clock, world
  <2>5. EngineInv'
    BY <2>1, <2>2, <2>3 DEF EngineInv, clock
  <2> QED BY <2>1, <2>4, <2>5 DEF IndexMatches, Scheduled
<1> QED BY <1>1, <1>2, <1>3, <1>4 DEF Rebalancing

LEMMA PushKeeps ==
  ASSUME TypeOK, IndexMatches, EnteredInv, NEW u \in pushing, pushSleepyUpdate(u)
  PROVE  /\ heap' \in Seq(Modules) /\ Len(heap') = Len(heap) + 1
         /\ index' \in [Modules -> 0..Len(heap')] /\ IndexMatches'
         /\ heap'[Len(heap) + 1] = u
         /\ \A p \in 1..Len(heap) : heap'[p] = heap[p]
         /\ index[u] = 0
         /\ \A v \in Modules : index'[v] # 0 <=> (index[v] # 0 \/ v = u)
<1> USE Members
<1>1. u \in Modules /\ index[u] = 0
  BY DEF TypeOK, EnteredInv
<1>2. heap' = Append(heap, u) /\ index' = [index EXCEPT ![u] = Len(heap) + 1]
  BY DEF pushSleepyUpdate
<1>3. /\ heap' \in Seq(Modules) /\ Len(heap') = Len(heap) + 1 /\ DOMAIN heap' = 1..(Len(heap) + 1)
      /\ heap'[Len(heap) + 1] = u
      /\ \A p \in 1..Len(heap) : heap'[p] = heap[p]
  BY <1>1, <1>2
<1>4. /\ index' \in [Modules -> 0..Len(heap')] /\ index'[u] = Len(heap) + 1
      /\ \A v \in Modules : v # u => index'[v] = index[v]
  BY <1>1, <1>2, <1>3
<1>5. \A p \in 1..Len(heap) : heap[p] \in Modules /\ heap[p] # u /\ index[heap[p]] = p
  BY <1>1 DEF IndexMatches
<1>6. \A v \in Modules : index'[v] # 0 <=> (index[v] # 0 \/ v = u)
  BY <1>4
<1>7. ASSUME NEW p \in DOMAIN heap' PROVE index'[heap'[p]] = p
  <2>1. CASE p = Len(heap) + 1
    BY <2>1, <1>3, <1>4
  <2>2. CASE p \in 1..Len(heap)
    BY <2>2, <1>3, <1>4, <1>5
  <2> QED BY <2>1, <2>2, <1>3
<1>8. ASSUME NEW v \in Scheduled' PROVE heap'[index'[v]] = v
  <2>1. CASE v = u
    BY <2>1, <1>3, <1>4
  <2>2. CASE v # u
    <3>1. v \in Modules /\ index[v] \in 1..Len(heap) /\ index'[v] = index[v] /\ heap[index[v]] = v
      BY <2>2, <1>4 DEF Scheduled, IndexMatches
    <3> QED BY <3>1, <1>3
  <2> QED BY <2>1, <2>2
<1> QED BY <1>1, <1>3, <1>4, <1>6, <1>7, <1>8 DEF IndexMatches

LEMMA EraseKeeps ==
  ASSUME TypeOK, IndexMatches, EnteredInv, NEW u \in erasing, eraseSleepyUpdate(u)
  PROVE  /\ heap' \in Seq(Modules) /\ Len(heap') = Len(heap) - 1
         /\ index' \in [Modules -> 0..Len(heap')] /\ IndexMatches'
         /\ u \in Modules /\ index[u] \in 1..Len(heap)
         /\ \A p \in 1..Len(heap') : heap'[p] = IF p = index[u] THEN heap[Len(heap)] ELSE heap[p]
         /\ \A v \in Modules : index'[v] # 0 <=> (index[v] # 0 /\ v # u)
<1> USE Members
<1> DEFINE final == Len(heap)
           i == index[u]
<1>1. u \in Modules /\ i \in 1..final /\ heap[i] = u
  BY DEF TypeOK, EnteredInv, IndexMatches, Scheduled
<1>2. heap' = [p \in 1..(final - 1) |-> IF p = i THEN heap[final] ELSE heap[p]]
  BY DEF eraseSleepyUpdate
<1>3. heap' \in [1..(final - 1) -> Modules] /\ final - 1 \in Nat
  BY <1>1, <1>2
<1>4. heap' \in Seq(Modules) /\ Len(heap') = final - 1 /\ DOMAIN heap' = 1..(final - 1)
  <2> DEFINE n == final - 1
  <2>1. n \in Nat /\ heap' \in [1..n -> Modules]
    BY <1>3
  <2> HIDE DEF n
  <2>2. heap' \in Seq(Modules) /\ Len(heap') = n /\ DOMAIN heap' = 1..n
    BY <2>1, FunctionSeq
  <2> QED BY <2>2 DEF n
<1>5. \A p \in 1..Len(heap') : heap'[p] = IF p = i THEN heap[final] ELSE heap[p]
  BY <1>2, <1>4
<1>6. \A p \in 1..final : heap[p] \in Modules /\ index[heap[p]] = p
  BY DEF IndexMatches
<1>7. index' \in [Modules -> 0..(final - 1)] /\ index'[u] = 0
      /\ (i < final => index'[heap[final]] = i)
      /\ \A v \in Modules : v # u /\ v # heap[final] => index'[v] = index[v]
  <2>1. ASSUME NEW v \in Modules, v # heap[final] PROVE index[v] # final
    BY <2>1, <1>1 DEF IndexMatches, Scheduled
  <2>2. CASE i < final
    <3>1. index' = [index EXCEPT ![heap[final]] = i, ![u] = 0] /\ heap[final] \in Modules /\ heap[final] # u
      BY <1>1, <1>6, <2>2 DEF eraseSleepyUpdate
    <3>2. \A v \in Modules : index'[v] = IF v = u THEN 0 ELSE IF v = heap[final] THEN i ELSE index[v]
      BY <3>1
    <3>3. DOMAIN index' = Modules /\ index' = [v \in Modules |-> index'[v]]
      BY <3>1
    <3>4. \A v \in Modules : index'[v] \in 0..(final - 1)
      BY <3>2, <2>1, <2>2, <1>1
    <3> QED BY <3>1, <3>2, <3>3, <3>4, <1>1
  <2>3. CASE i = final
    <3>1. index' = [index EXCEPT ![u] = 0]
      BY <2>3 DEF eraseSleepyUpdate
    <3>2. \A v \in Modules : index'[v] = IF v = u THEN 0 ELSE index[v]
      BY <3>1
    <3>3. index' = [v \in Modules |-> index'[v]]
      BY <3>1
    <3>4. u = heap[final]
      BY <2>3, <1>1
    <3>5. \A v \in Modules : index'[v] \in 0..(final - 1)
      BY <3>2, <3>4, <2>1, <1>1
    <3> QED BY <3>2, <3>3, <3>5, <2>3, <1>1
  <2> QED BY <2>2, <2>3, <1>1
<1>8. \A v \in Modules : index'[v] # 0 <=> (index[v] # 0 /\ v # u)
  <2>1. CASE i < final
    BY <2>1, <1>1, <1>6, <1>7
  <2>2. CASE i = final
    BY <2>2, <1>1, <1>7
  <2> QED BY <2>1, <2>2, <1>1
<1>9. ASSUME NEW p \in DOMAIN heap' PROVE index'[heap'[p]] = p
  <2>1. CASE p = i
    <3>1. i < final /\ heap'[p] = heap[final]
      BY <2>1, <1>1, <1>4, <1>5
    <3> QED BY <3>1, <2>1, <1>7
  <2>2. CASE p # i
    <3>1. heap'[p] = heap[p] /\ p \in 1..final /\ p # final
      BY <2>2, <1>1, <1>4, <1>5
    <3>2. heap[p] # u /\ heap[p] # heap[final] /\ heap[p] \in Modules
      BY <2>2, <3>1, <1>1, <1>6
    <3> QED BY <3>1, <3>2, <1>6, <1>7
  <2> QED BY <2>1, <2>2
<1>10. ASSUME NEW v \in Scheduled' PROVE heap'[index'[v]] = v
  <2>1. v \in Modules /\ index[v] \in 1..final /\ v # u /\ heap[index[v]] = v
    BY <1>8 DEF Scheduled, IndexMatches
  <2>2. CASE v = heap[final]
    <3>1. i < final /\ index'[v] = i
      BY <2>1, <2>2, <1>1, <1>7
    <3> QED BY <3>1, <2>2, <1>1, <1>4, <1>5
  <2>3. CASE v # heap[final]
    <3>1. index'[v] = index[v] /\ index[v] # final /\ index[v] # i
      BY <2>1, <2>3, <1>1, <1>7
    <3> QED BY <3>1, <2>1, <1>4, <1>5
  <2> QED BY <2>2, <2>3
<1> QED BY <1>1, <1>4, <1>5, <1>7, <1>8, <1>9, <1>10 DEF IndexMatches

LEMMA LoadKeeps ==
  ASSUME TypeOK, IndexMatches, loadPostProcess
  PROVE  /\ heap' \in Seq(Modules) /\ Len(heap') = Len(heap) /\ Len(heap) >= 1
         /\ index' \in [Modules -> 0..Len(heap')] /\ IndexMatches'
         /\ \A v \in Modules : index'[v] # 0 <=> index[v] # 0
<1> USE Members
<1>1. PICK order \in [1..Len(heap) -> Scheduled] :
         /\ \A u \in Scheduled : \E p \in 1..Len(heap) : order[p] = u
         /\ \A p, q \in 1..Len(heap) : order[p] = order[q] => p = q
         /\ heap' = order
         /\ index' = [u \in Modules |-> IF u \in Scheduled
                                        THEN CHOOSE p \in 1..Len(heap) : order[p] = u
                                        ELSE 0]
  BY DEF loadPostProcess
<1>2. heap' \in Seq(Modules) /\ Len(heap') = Len(heap) /\ DOMAIN heap' = 1..Len(heap)
  <2>1. heap' \in [1..Len(heap) -> Modules]
    BY <1>1 DEF Scheduled
  <2> QED BY <2>1, FunctionSeq
<1>3. Len(heap) >= 1
  BY DEF loadPostProcess
<1>4. ASSUME NEW u \in Scheduled PROVE index'[u] \in 1..Len(heap) /\ order[index'[u]] = u
  <2>1. \E p \in 1..Len(heap) : order[p] = u
    BY <1>1
  <2>2. index'[u] = CHOOSE p \in 1..Len(heap) : order[p] = u
    BY <1>1 DEF Scheduled
  <2> QED BY <2>1, <2>2
<1>5. \A u \in Modules \ Scheduled : index'[u] = 0
  BY <1>1
<1>6. \A u \in Modules : index'[u] \in 0..Len(heap')
  BY <1>2, <1>4, <1>5
<1>7. index' \in [Modules -> 0..Len(heap')]
  BY <1>1, <1>6
<1>8. \A v \in Modules : index'[v] # 0 <=> index[v] # 0
  BY <1>4, <1>5 DEF Scheduled
<1>9. ASSUME NEW p \in DOMAIN heap' PROVE index'[heap'[p]] = p
  <2>1. order[p] \in Scheduled /\ heap'[p] = order[p] /\ p \in 1..Len(heap)
    BY <1>1, <1>2
  <2>2. index'[order[p]] \in 1..Len(heap) /\ order[index'[order[p]]] = order[p]
    BY <2>1, <1>4
  <2> QED BY <2>1, <2>2, <1>1
<1>10. ASSUME NEW v \in Scheduled' PROVE heap'[index'[v]] = v
  BY <1>1, <1>4, <1>8 DEF Scheduled
<1> QED BY <1>2, <1>3, <1>7, <1>8, <1>9, <1>10 DEF IndexMatches

-----------------------------------------------------------------------------
(* Each part of the invariant is preserved. *)

(* The actions that leave the heap and its positions alone. *)
Aside == \/ \E o \in Objects : \E d \in [ModulesOf(o) -> Delays \cup {0}] : registerObject(o, d)
         \/ \E o \in Objects : destroyObject(o)
         \/ \E u \in Modules, d \in Delays \cup {0} : friend_awakenUpdateModule(u, d)
         \/ BeginLoop \/ Return \/ Loop \/ Cleanup
         \/ UNCHANGED vars

LEMMA Steps ==
  ASSUME [Next]_vars
  PROVE  \/ Rebalancing \/ Aside \/ loadPostProcess
         \/ \E u \in pushing : pushSleepyUpdate(u)
         \/ \E u \in erasing : eraseSleepyUpdate(u)
BY DEF Next, Others, Entries, Aside, pushSleepyUpdate, eraseSleepyUpdate

LEMMA AsideKeepsHeap ==
  ASSUME Aside
  PROVE  heap' = heap /\ index' = index
BY DEF Aside, registerObject, destroyObject, friend_awakenUpdateModule, BeginLoop, Return,
       ReturnFromUpdate, Requeue, Loop, CallUpdate, SkipDisabled, EndLoop, Cleanup,
       BeginDestroy, EndDestroy, EndFrame, processDestroyList, heapVars, vars

LEMMA IndexStep ==
  ASSUME TypeOK, IndexMatches, EngineInv, EnteredInv, [Next]_vars
  PROVE  /\ heap' \in Seq(Modules) /\ index' \in [Modules -> 0..Len(heap')]
         /\ IndexMatches'
<1>1. CASE Rebalancing
  BY <1>1, SiftKeeps DEF TypeOK
<1>2. CASE Aside
  BY <1>2, AsideKeepsHeap DEF TypeOK, IndexMatches, Scheduled
<1>3. CASE loadPostProcess
  BY <1>3, LoadKeeps
<1>4. ASSUME NEW u \in pushing, pushSleepyUpdate(u)
      PROVE  heap' \in Seq(Modules) /\ index' \in [Modules -> 0..Len(heap')] /\ IndexMatches'
  BY <1>4, PushKeeps
<1>5. ASSUME NEW u \in erasing, eraseSleepyUpdate(u)
      PROVE  heap' \in Seq(Modules) /\ index' \in [Modules -> 0..Len(heap')] /\ IndexMatches'
  BY <1>5, EraseKeeps
<1> QED BY <1>1, <1>2, <1>3, <1>4, <1>5, Steps

(* The call frames stay below Forever. *)
LEMMA ClampType ==
  ASSUME NEW f \in Nat
  PROVE  Clamp(f) \in 0..Forever /\ Clamp(f) <= f /\ (f <= Forever => Clamp(f) = f)
         /\ (frame < Forever /\ frame \in Nat /\ f > frame => Clamp(f) > frame)
BY FrameAssumption DEF Clamp

LEMMA Numbers ==
  ASSUME TypeOK
  PROVE  /\ next \in [Modules -> 0..Forever] /\ frame \in 0..MaxFrame
         /\ frame \in Nat /\ frame + 1 \in Nat /\ frame < Forever /\ frame <= Forever
         /\ pos \in Nat \ {0} /\ low \in Nat \ {0} /\ last \in Nat
         /\ \A d \in Delays \cup {0} : d \in Nat /\ frame + d \in Nat
         /\ \A d \in Delays : d >= 1
<1>1. /\ next \in [Modules -> 0..Forever] /\ frame \in 0..MaxFrame
      /\ pos \in Nat \ {0} /\ low \in Nat \ {0} /\ last \in Nat
  BY DEF TypeOK
<1>2. frame \in Nat /\ frame + 1 \in Nat /\ frame < Forever /\ frame <= Forever
  BY <1>1, FrameAssumption
<1>3. \A d \in Delays : d \in Nat /\ d >= 1
  BY DelaysAssumption
<1> QED BY <1>1, <1>2, <1>3

(* A module that has been called sleeps for a frame at least. *)
LEMMA RequeueKeeps ==
  ASSUME TypeOK, NEW u \in Modules, NEW d \in Nat, Requeue(u, d)
  PROVE  /\ next' \in [Modules -> 0..Forever] /\ next'[u] > frame
         /\ \A v \in Modules : v # u => next'[v] = next[v]
         /\ mode' = "up" /\ pos' = 1 /\ low' = low /\ late' = late \ {u}
         /\ heap' = heap /\ index' = index
         /\ UNCHANGED <<frame, last, inList, doomed, pushing, erasing>>
<1> DEFINE f == frame + (IF d < 1 THEN 1 ELSE d)
<1>1. f \in Nat /\ f > frame
  BY Numbers
<1>2. next' = [next EXCEPT ![u] = Clamp(f)]
  BY DEF Requeue
<1>3. /\ mode' = "up" /\ pos' = 1 /\ low' = low /\ late' = late \ {u}
      /\ heap' = heap /\ index' = index
      /\ UNCHANGED <<frame, last, inList, doomed, pushing, erasing>>
  BY DEF Requeue, Rebalance, world
<1> HIDE DEF f
<1>4. Clamp(f) \in 0..Forever /\ Clamp(f) > frame
  BY <1>1, ClampType, Numbers
<1>5. next \in [Modules -> 0..Forever]
  BY Numbers
<1> QED BY <1>2, <1>3, <1>4, <1>5

(* The call frames after registerObject, a wake-up and an entry. *)
LEMMA RegisterNext ==
  ASSUME TypeOK, NEW o \in Objects, NEW d \in [ModulesOf(o) -> Delays \cup {0}],
         registerObject(o, d)
  PROVE  /\ next' \in [Modules -> 0..Forever]
         /\ \A u \in Modules : Owner[u] # o => next'[u] = next[u]
         /\ \A u \in ModulesOf(o) : \/ d[u] = 0 /\ next'[u] = 0 /\ MayBeDueNow(u)
                                    \/ next'[u] > frame
<1>1. next' = [u \in Modules |-> IF u \notin ModulesOf(o) THEN next[u]
                                 ELSE IF d[u] = 0 THEN 0 ELSE Clamp(frame + d[u])]
  BY DEF registerObject
<1>2. ASSUME NEW u \in ModulesOf(o), d[u] # 0
      PROVE  Clamp(frame + d[u]) \in 0..Forever /\ Clamp(frame + d[u]) > frame
  <2>1. d[u] \in Nat /\ d[u] >= 1 /\ frame + d[u] \in Nat /\ frame + d[u] > frame
    BY <1>2, Numbers
  <2> QED BY <2>1, Numbers, ClampType
<1>3. 0 \in 0..Forever /\ \A u \in Modules : next[u] \in 0..Forever
  BY Numbers, FrameAssumption
<1>4. \A u \in Modules : /\ u \notin ModulesOf(o) => next'[u] = next[u]
                         /\ u \in ModulesOf(o) /\ d[u] = 0 => next'[u] = 0
                         /\ u \in ModulesOf(o) /\ d[u] # 0 => next'[u] = Clamp(frame + d[u])
  BY <1>1
<1>5. \A u \in Modules : next'[u] \in 0..Forever
  BY <1>2, <1>3, <1>4
<1>6. next' \in [Modules -> 0..Forever]
  BY <1>1, <1>5
<1>7. \A u \in ModulesOf(o) : d[u] = 0 => MayBeDueNow(u)
  BY DEF registerObject
<1> QED BY <1>2, <1>4, <1>6, <1>7 DEF ModulesOf

LEMMA AwakenNext ==
  ASSUME TypeOK, EnteredInv, NEW u \in Modules, NEW d \in Delays \cup {0},
         friend_awakenUpdateModule(u, d)
  PROVE  /\ next' \in [Modules -> 0..Forever]
         /\ next'[u] >= frame /\ (d # 0 => next'[u] > frame) /\ (d = 0 => next'[u] = frame)
         /\ \A v \in Modules : v # u => next'[v] = next[v]
         /\ index[u] \in 1..Len(heap) /\ mode = "idle" /\ mode' = "up" /\ pos' = index[u]
         /\ (d = 0 => MayBeDueNow(u))
         /\ heap' = heap /\ index' = index
         /\ UNCHANGED <<low, frame, loc, cur, last, inList, doomed, pushing, erasing>>
<1>1. frame + d \in Nat /\ (d # 0 => frame + d > frame) /\ (d = 0 => frame + d = frame)
  BY Numbers
<1>2. next' = [next EXCEPT ![u] = Clamp(frame + d)]
  BY DEF friend_awakenUpdateModule
<1>3. /\ Clamp(frame + d) \in 0..Forever /\ Clamp(frame + d) >= frame
      /\ (d # 0 => Clamp(frame + d) > frame) /\ (d = 0 => Clamp(frame + d) = frame)
  BY <1>1, ClampType, Numbers
<1>4. index[u] \in 1..Len(heap) /\ mode = "idle"
  <2>1. mode = "idle" /\ pushing = {} /\ Owner[u] \in inList
    BY DEF friend_awakenUpdateModule, OthersRun, DestructorsRun, Idle
  <2> QED BY <2>1, Members DEF EnteredInv
<1>5. mode' = "up" /\ pos' = index[u] /\ (d = 0 => MayBeDueNow(u))
      /\ heap' = heap /\ index' = index
      /\ UNCHANGED <<low, frame, loc, cur, last, inList, doomed, pushing, erasing>>
  BY DEF friend_awakenUpdateModule, Rebalance, AfterWake, world
<1>6. next \in [Modules -> 0..Forever]
  BY Numbers
<1> QED BY <1>2, <1>3, <1>4, <1>5, <1>6

LEMMA PushNext ==
  ASSUME TypeOK, NEW u \in pushing, pushSleepyUpdate(u)
  PROVE  /\ u \in Modules /\ next' \in [Modules -> 0..Forever]
         /\ next'[u] = (IF next[u] # 0 THEN next[u] ELSE IF frame = 0 THEN 1 ELSE frame)
         /\ \A v \in Modules : v # u => next'[v] = next[v]
         /\ mode = "idle" /\ mode' = "push" /\ pos' = Len(heap) + 1
         /\ pushing' = pushing \ {u}
         /\ UNCHANGED <<low, frame, loc, cur, inList, doomed, erasing, last>>
<1>1. u \in Modules
  BY DEF TypeOK
<1>2. next' = [next EXCEPT ![u] = IF @ # 0 THEN @ ELSE IF frame = 0 THEN 1 ELSE frame]
  BY DEF pushSleepyUpdate
<1>3. next \in [Modules -> 0..Forever] /\ frame \in 0..Forever /\ 1 \in 0..Forever
  BY Numbers, FrameAssumption
<1>4. /\ mode = "idle" /\ mode' = "push" /\ pos' = Len(heap) + 1
      /\ pushing' = pushing \ {u}
      /\ UNCHANGED <<low, frame, loc, cur, inList, doomed, erasing, last>>
  BY DEF pushSleepyUpdate, Rebalance
<1> QED BY <1>1, <1>2, <1>3, <1>4

LEMMA EraseNext ==
  ASSUME TypeOK, IndexMatches, EnteredInv, NEW u \in erasing, eraseSleepyUpdate(u)
  PROVE  /\ next' \in [Modules -> 0..Forever] /\ next'[u] = 0
         /\ \A v \in Modules : v # u => next'[v] = next[v]
         /\ erasing' = erasing \ {u} /\ late' = late \ {u} /\ mode = "idle"
         /\ index[u] < Len(heap) => mode' = "up" /\ pos' = index[u]
         /\ index[u] = Len(heap) => mode' = mode /\ pos' = pos
         /\ UNCHANGED <<low, frame, loc, cur, last, inList, doomed, pushing>>
<1>1. u \in Modules
  BY EraseKeeps
<1>2. next' = [next EXCEPT ![u] = 0] /\ next \in [Modules -> 0..Forever] /\ 0 \in 0..Forever
  BY Numbers, FrameAssumption DEF eraseSleepyUpdate
<1>3. /\ erasing' = erasing \ {u} /\ late' = late \ {u} /\ mode = "idle"
      /\ index[u] < Len(heap) => mode' = "up" /\ pos' = index[u]
      /\ UNCHANGED <<low, frame, loc, cur, last, inList, doomed, pushing>>
  BY DEF eraseSleepyUpdate, Rebalance
<1>4. index[u] = Len(heap) => mode' = mode /\ pos' = pos
  BY Members DEF eraseSleepyUpdate
<1> QED BY <1>1, <1>2, <1>3, <1>4

LEMMA TypeStep ==
  ASSUME TypeOK, IndexMatches, EngineInv, EnteredInv, CurInv, [Next]_vars
  PROVE  TypeOK'
<1>0. heap' \in Seq(Modules) /\ index' \in [Modules -> 0..Len(heap')]
  BY IndexStep
<1>1. CASE Rebalancing
  BY <1>1, SiftKeeps
<1>2. ASSUME NEW o \in Objects, NEW d \in [ModulesOf(o) -> Delays \cup {0}], registerObject(o, d)
      PROVE  TypeOK'
  <2>1. next' \in [Modules -> 0..Forever]
    BY <1>2, RegisterNext
  <2>2. /\ inList' = inList \cup {o} /\ pushing' = ModulesOf(o)
        /\ UNCHANGED <<heap, index, mode, pos, low, doomed, erasing, clock>>
    BY <1>2 DEF registerObject
  <2>3. pushing' \subseteq Modules
    BY <2>2 DEF ModulesOf
  <2> QED BY <1>0, <2>1, <2>2, <2>3 DEF TypeOK, clock
<1>3. ASSUME NEW o \in Objects, destroyObject(o) PROVE TypeOK'
  BY <1>0, <1>3 DEF TypeOK, destroyObject, heapVars, clock
<1>4. ASSUME NEW u \in Modules, NEW d \in Delays \cup {0}, friend_awakenUpdateModule(u, d)
      PROVE  TypeOK'
  <2>1. /\ next' \in [Modules -> 0..Forever] /\ mode' = "up" /\ pos' \in Nat \ {0}
        /\ UNCHANGED <<low, frame, loc, cur, last, inList, doomed, pushing, erasing>>
    BY <1>4, AwakenNext, Members
  <2>2. late' \subseteq Modules
    BY <1>4 DEF friend_awakenUpdateModule, TypeOK
  <2> QED BY <1>0, <2>1, <2>2 DEF TypeOK
<1>5. CASE BeginLoop
  BY <1>0, <1>5 DEF TypeOK, BeginLoop, heapVars, world
<1>7. ASSUME NEW d \in Delays \cup {0}, ReturnFromUpdate(d) PROVE TypeOK'
  <2>1. cur \in Modules /\ Requeue(cur, d) /\ cur' = None /\ loc' = "loop"
    BY <1>7 DEF ReturnFromUpdate, CurInv, TypeOK
  <2>2. d \in Nat
    BY Numbers
  <2>3. /\ next' \in [Modules -> 0..Forever] /\ mode' = "up" /\ pos' = 1 /\ low' = low
        /\ late' = late \ {cur}
        /\ UNCHANGED <<frame, last, inList, doomed, pushing, erasing>>
    BY <2>1, <2>2, RequeueKeeps
  <2> QED BY <1>0, <2>1, <2>3 DEF TypeOK
<1>8. CASE SkipDisabled
  <2>1. heap[1] \in Modules /\ Requeue(heap[1], 1) /\ cur' = cur /\ loc' = loc
    BY <1>8, Members DEF SkipDisabled, RootIsDue
  <2>2. /\ next' \in [Modules -> 0..Forever] /\ mode' = "up" /\ pos' = 1 /\ low' = low
        /\ late' = late \ {heap[1]}
        /\ UNCHANGED <<frame, last, inList, doomed, pushing, erasing>>
    BY <2>1, RequeueKeeps
  <2>3. mode' \in {"idle", "push", "up", "down", "remake"} /\ pos' \in Nat \ {0}
        /\ late' \subseteq Modules
    BY <2>2 DEF TypeOK
  <2> QED BY <1>0, <2>1, <2>2, <2>3 DEF TypeOK
<1>9. CASE CallUpdate
  <2>1. heap[1] \in Modules
    BY <1>9, Members DEF CallUpdate, RootIsDue
  <2>2. friend_getPriority(heap[1]) \in Nat
    BY <2>1, Priorities
  <2> QED BY <1>0, <1>9, <2>1, <2>2 DEF TypeOK, CallUpdate, heapVars, world
<1>10. CASE EndLoop
  BY <1>0, <1>10 DEF TypeOK, EndLoop, heapVars, world
<1>11. CASE BeginDestroy \/ EndDestroy
  BY <1>0, <1>11 DEF TypeOK, BeginDestroy, EndDestroy, heapVars, world
<1>12. CASE EndFrame
  BY <1>0, <1>12, FrameAssumption DEF TypeOK, EndFrame, heapVars, world
<1>13. ASSUME NEW o \in Objects, processDestroyList(o) PROVE TypeOK'
  <2>1. /\ doomed' = doomed \ {o} /\ inList' = inList \ {o} /\ erasing' \subseteq Modules
        /\ UNCHANGED <<heapVars, clock, pushing>>
    BY <1>13 DEF processDestroyList, ModulesOf
  <2> QED BY <1>0, <2>1 DEF TypeOK, heapVars, clock
<1>14. CASE loadPostProcess
  <2>1. (Len(heap) \div 2) + 1 \in Nat \ {0}
    BY Members
  <2>2. /\ mode' = "remake" /\ pos' = (Len(heap) \div 2) + 1 /\ low' = (Len(heap) \div 2) + 1
        /\ UNCHANGED <<next, world, clock>>
    BY <1>14 DEF loadPostProcess, Rebalance
  <2>3. mode' \in {"idle", "push", "up", "down", "remake"} /\ pos' \in Nat \ {0} /\ low' \in Nat \ {0}
    BY <2>1, <2>2
  <2> QED BY <1>0, <2>2, <2>3 DEF TypeOK, world, clock
<1>15. ASSUME NEW u \in pushing, pushSleepyUpdate(u) PROVE TypeOK'
  <2>1. /\ next' \in [Modules -> 0..Forever] /\ mode' = "push" /\ pos' \in Nat \ {0}
        /\ pushing' = pushing \ {u} /\ u \in Modules
        /\ UNCHANGED <<low, frame, loc, cur, inList, doomed, erasing, last>>
    BY <1>15, PushNext, Members
  <2>2. late' \subseteq Modules
    BY <1>15, <2>1 DEF pushSleepyUpdate, TypeOK
  <2> QED BY <1>0, <2>1, <2>2 DEF TypeOK
<1>16. ASSUME NEW u \in erasing, eraseSleepyUpdate(u) PROVE TypeOK'
  <2>1. /\ next' \in [Modules -> 0..Forever] /\ erasing' = erasing \ {u} /\ late' = late \ {u}
        /\ UNCHANGED <<low, frame, loc, cur, last, inList, doomed, pushing>>
    BY <1>16, EraseNext
  <2>2. pos' \in Nat \ {0} /\ mode' \in {"idle", "up"}
    <3>1. index[u] \in 1..Len(heap) /\ Len(heap) \in Nat /\ pos \in Nat \ {0} /\ mode = "idle"
      BY <1>16, EraseNext, EraseKeeps, Members, Numbers
    <3>2. CASE index[u] < Len(heap)
      BY <3>1, <3>2, <1>16, EraseNext
    <3>3. CASE index[u] = Len(heap)
      BY <3>1, <3>3, <1>16, EraseNext
    <3> QED BY <3>1, <3>2, <3>3
  <2> QED BY <1>0, <2>1, <2>2 DEF TypeOK
<1>17. CASE UNCHANGED vars
  BY <1>0, <1>17 DEF TypeOK, vars
<1> QED BY <1>1, <1>2, <1>3, <1>4, <1>5, <1>7, <1>8, <1>9, <1>10, <1>11, <1>12, <1>13, <1>14,
           <1>15, <1>16, <1>17, Steps DEF Aside, Return, Loop, Cleanup

-----------------------------------------------------------------------------
(* The order of the heap, step by step of the rebalancing loops. *)

(* g is f with the values of p and q exchanged. *)
Swapped(f, g, n, p, q) ==
  g[p] = f[q] /\ g[q] = f[p] /\ \A r \in 1..n : r # p /\ r # q => g[r] = f[r]

(* No child of k comes before c. *)
Least(f, n, k, c) == \A p \in 2..n : p \div 2 = k => f[c] <= f[p]

LEMMA UpSwap ==
  ASSUME NEW n \in Nat, NEW f \in [1..n -> Nat], NEW g \in [1..n -> Nat],
         NEW m \in {"push", "up"}, NEW k \in 2..n, NEW q, q = k \div 2,
         Heaped(f, n, m, k, 1), f[q] > f[k], Swapped(f, g, n, k, q)
  PROVE  Heaped(g, n, m, q, 1)
<1> USE DEF Swapped
<1>1. q \in 1..n /\ q < k
  BY Parent
<1>2. f[q] \in Nat /\ f[k] \in Nat /\ k \in 1..n
  BY <1>1
<1>3. /\ \A p \in 2..n : p # k /\ p \div 2 # k => f[p \div 2] <= f[p]
      /\ \A p \in 2..n : p \div 2 = k /\ q >= 1 => f[q] <= f[p]
      /\ m = "push" => \A p \in 2..n : p # k => f[p \div 2] <= f[p]
  BY DEF Heaped
<1>4. ASSUME NEW p \in 2..n, p # q, m = "push" \/ p \div 2 # q PROVE g[p \div 2] <= g[p]
  <2>0. p \div 2 \in 1..n /\ p \div 2 < p /\ p \in 1..n
    BY Parent
  <2>1. CASE p = k
    <3>1. p \div 2 = q
      BY <2>1
    <3>2. g[p \div 2] = f[k] /\ g[p] = f[q]
      BY <2>1, <3>1
    <3>3. f[k] <= f[q]
      BY <1>2
    <3> QED BY <3>2, <3>3
  <2>2. CASE p # k /\ p \div 2 = k
    <3>1. f[q] <= f[p]
      BY <2>2, <1>1, <1>3
    <3>2. g[p] = f[p]
      BY <2>0, <2>2, <1>4
    <3> QED BY <3>1, <3>2, <2>2
  <2>3. CASE p # k /\ p \div 2 = q
    <3>0. p \div 2 # k
      BY <2>3, <1>1
    <3>1. f[p \div 2] <= f[p]
      BY <2>3, <3>0, <1>3
    <3>2. g[p] = f[p] /\ f[p \div 2] = f[q] /\ g[p \div 2] = f[k]
      BY <2>0, <2>3, <1>4
    <3>3. f[p] \in Nat /\ f[q] <= f[p] /\ f[k] <= f[q]
      BY <2>0, <3>1, <3>2, <1>2
    <3> QED BY <3>2, <3>3, <1>2
  <2>4. CASE p # k /\ p \div 2 # k /\ p \div 2 # q
    <3>1. f[p \div 2] <= f[p]
      BY <2>4, <1>3
    <3>2. g[p] = f[p] /\ g[p \div 2] = f[p \div 2]
      BY <2>0, <2>4, <1>4
    <3> QED BY <3>1, <3>2
  <2> QED BY <2>1, <2>2, <2>3, <2>4
<1>5. ASSUME NEW p \in 2..n, p \div 2 = q, q \div 2 >= 1 PROVE g[q \div 2] <= g[p]
  <2>1. q \div 2 \in 1..n /\ q \div 2 < q /\ q \in 2..n
    BY <1>1, <1>5, Parent
  <2>2. f[q \div 2] <= f[q]
    BY <2>1, <1>1, <1>3
  <2>3. g[q \div 2] = f[q \div 2] /\ f[q \div 2] \in Nat
    BY <2>1, <1>1
  <2>4. CASE p = k
    BY <2>2, <2>3, <2>4
  <2>5. CASE p # k
    <3>1. f[q] <= f[p]
      BY <2>5, <1>1, <1>3, <1>5
    <3>2. p # q /\ p \in 1..n
      BY <1>5, Parent
    <3>3. g[p] = f[p] /\ f[p] \in Nat
      BY <2>5, <3>2
    <3> QED BY <2>2, <2>3, <3>1, <3>3, <1>2
  <2> QED BY <2>4, <2>5
<1> QED BY <1>4, <1>5 DEF Heaped

LEMMA UpStop ==
  ASSUME NEW n \in Nat, NEW f \in [1..n -> Nat],
         NEW m \in {"push", "up"}, NEW k \in 1..n,
         Heaped(f, n, m, k, 1), ~(k > 1 /\ f[k \div 2] > f[k])
  PROVE  Heaped(f, n, IF m = "push" THEN "idle" ELSE "down", k, 1)
<1>1. k > 1 => f[k \div 2] <= f[k]
  <2>1. k > 1 => k \div 2 \in 1..n
    BY Parent
  <2> QED BY <2>1
<1>2. \A p \in 2..n : p = k => f[p \div 2] <= f[p]
  BY <1>1
<1> QED BY <1>2 DEF Heaped

LEMMA DownSwap ==
  ASSUME NEW n \in Nat, NEW f \in [1..n -> Nat], NEW g \in [1..n -> Nat],
         NEW m \in {"down", "remake"}, NEW k \in 1..n, NEW l \in Nat \ {0}, l <= k,
         NEW c \in 2..n, c \div 2 = k, f[k] > f[c],
         Least(f, n, k, c), Heaped(f, n, m, k, l), Swapped(f, g, n, k, c)
  PROVE  Heaped(g, n, m, c, l)
<1> USE DEF Swapped, Least
<1>1. c > k /\ c \in 1..n /\ f[c] \in Nat /\ f[k] \in Nat
  BY Parent
<1>2. /\ \A p \in 2..n : p \div 2 >= l /\ p \div 2 # k => f[p \div 2] <= f[p]
      /\ \A p \in 2..n : p \div 2 = k /\ k \div 2 >= l => f[k \div 2] <= f[p]
  BY DEF Heaped
<1>3. ASSUME NEW p \in 2..n, p \div 2 >= l, p \div 2 # c PROVE g[p \div 2] <= g[p]
  <2>0. p \div 2 \in 1..n /\ p \div 2 < p /\ p \in 1..n
    BY Parent
  <2>1. CASE p = c
    <3>1. p \div 2 = k
      BY <2>1
    <3>2. g[p \div 2] = f[c] /\ g[p] = f[k]
      BY <2>1, <3>1
    <3> QED BY <3>2, <1>1
  <2>2. CASE p # c /\ p \div 2 = k
    <3>1. p # k
      BY <2>0, <2>2
    <3>2. g[p] = f[p] /\ f[c] <= f[p]
      BY <2>0, <2>2, <3>1
    <3>3. g[p \div 2] = g[k]
      BY <2>2
    <3> QED BY <3>2, <3>3
  <2>3. CASE p = k
    <3>1. f[k \div 2] <= f[c]
      BY <2>3, <1>2, <1>3
    <3>2. p \div 2 # k
      BY <2>0, <2>3
    <3>3. g[p \div 2] = f[p \div 2]
      BY <2>0, <3>2, <1>3
    <3> QED BY <3>1, <3>3, <2>3
  <2>4. CASE p # c /\ p # k /\ p \div 2 # k
    <3>1. f[p \div 2] <= f[p]
      BY <2>4, <1>2, <1>3
    <3>2. g[p] = f[p] /\ g[p \div 2] = f[p \div 2]
      BY <2>0, <2>4, <1>3
    <3> QED BY <3>1, <3>2
  <2> QED BY <2>1, <2>2, <2>3, <2>4
<1>4. ASSUME NEW p \in 2..n, p \div 2 = c PROVE g[c \div 2] <= g[p]
  <2>1. p > c /\ p \in 1..n
    BY <1>4, Parent
  <2>2. p \div 2 >= l /\ p \div 2 # k
    BY <1>1, <1>4
  <2>3. f[c] <= f[p]
    BY <2>2, <1>2, <1>4
  <2>4. g[p] = f[p]
    BY <2>1, <1>1
  <2> QED BY <2>3, <2>4
<1> QED BY <1>3, <1>4 DEF Heaped

LEMMA DownStop ==
  ASSUME NEW n \in Nat, NEW f \in [1..n -> Nat],
         NEW m \in {"down", "remake"}, NEW k \in 1..n, NEW l \in Nat \ {0},
         Least(f, n, k, k), Heaped(f, n, m, k, l)
  PROVE  /\ l = 1 => Heaped(f, n, "idle", k, l)
         /\ l > 1 => Heaped(f, n, "remake", l - 1, l - 1)
<1>1. \A p \in 2..n : p \div 2 >= l => f[p \div 2] <= f[p]
  BY DEF Heaped, Least
<1>2. ASSUME l = 1 PROVE Heaped(f, n, "idle", k, l)
  <2>1. \A p \in 2..n : p \div 2 >= 1
    BY Parent
  <2> QED BY <2>1, <1>1, <1>2 DEF Heaped
<1>3. ASSUME l > 1 PROVE Heaped(f, n, "remake", l - 1, l - 1)
  <2>1. l - 1 \in Nat \ {0} /\ (l - 1) \div 2 < l - 1
    BY <1>3, Parent
  <2>2. ASSUME NEW p \in 2..n, p \div 2 >= l - 1, p \div 2 # l - 1 PROVE f[p \div 2] <= f[p]
    <3>1. p \div 2 \in Nat
      BY Parent
    <3> QED BY <3>1, <2>2, <1>1
  <2>3. ~((l - 1) \div 2 >= l - 1)
    BY <2>1, Parent
  <2> QED BY <2>2, <2>3 DEF Heaped
<1> QED BY <1>2, <1>3

(* One module of an ordered heap gets another priority. *)
LEMMA Replaced ==
  ASSUME NEW n \in Nat, NEW f \in [1..n -> Nat], \A p \in 2..n : f[p \div 2] <= f[p],
         NEW j \in Nat, j <= n, NEW g \in [1..j -> Nat], NEW i \in 1..j,
         \A p \in 1..j : p # i => g[p] = f[p]
  PROVE  Heaped(g, j, "up", i, 1)
<1>1. ASSUME NEW p \in 2..j, p # i, p \div 2 # i PROVE g[p \div 2] <= g[p]
  <2>1. p \div 2 \in 1..j
    BY Parent
  <2> QED BY <2>1, <1>1
<1>2. ASSUME NEW p \in 2..j, p \div 2 = i, i \div 2 >= 1 PROVE g[i \div 2] <= g[p]
  <2>1. i \div 2 \in 1..j /\ i \div 2 < i /\ i < p /\ i \in 2..n
    BY <1>2, Parent
  <2>2. g[i \div 2] = f[i \div 2] /\ g[p] = f[p]
    BY <2>1
  <2>3. f[i \div 2] <= f[i] /\ f[i] <= f[p]
    <3>1. p \in 2..n
      OBVIOUS
    <3>2. f[p \div 2] <= f[p]
      BY <3>1
    <3> QED BY <2>1, <3>2, <1>2
  <2>4. f[i \div 2] \in Nat /\ f[i] \in Nat /\ f[p] \in Nat
    BY <2>1
  <2> QED BY <2>2, <2>3, <2>4
<1> QED BY <1>1, <1>2 DEF Heaped

-----------------------------------------------------------------------------
(* The order of the heap, step by step of the specification. *)

LEMMA PrisPrime ==
  /\ Pris = [p \in 1..Len(heap) |-> 4 * next[heap[p]] + Phase[heap[p]]]
  /\ Pris' = [p \in 1..Len(heap') |-> 4 * next'[heap'[p]] + Phase[heap'[p]]]
BY DEF Pris, friend_getPriority

LEMMA PrisTypePrime ==
  ASSUME TypeOK'
  PROVE  Pris' \in [1..Len(heap') -> Nat]
<1>1. heap' \in Seq(Modules) /\ next' \in [Modules -> 0..Forever]
  BY DEF TypeOK
<1>2. \A u \in Modules : next'[u] \in Nat /\ Phase[u] \in Nat
  BY <1>1, FrameAssumption, PhaseAssumption
<1>3. \A p \in 1..Len(heap') : heap'[p] \in Modules
  BY <1>1
<1>4. \A p \in 1..Len(heap') : 4 * next'[heap'[p]] + Phase[heap'[p]] \in Nat
  BY <1>2, <1>3
<1> QED BY <1>4, PrisPrime

LEMMA SwapPris ==
  ASSUME TypeOK, IndexMatches, NEW p \in 1..Len(heap), NEW q \in 1..Len(heap), p # q,
         Swap(p, q), next' = next
  PROVE  Swapped(Pris, Pris', Len(heap), p, q)
<1>1. /\ Len(heap') = Len(heap) /\ heap'[p] = heap[q] /\ heap'[q] = heap[p]
      /\ \A r \in 1..Len(heap) : r # p /\ r # q => heap'[r] = heap[r]
  BY SwapKeeps
<1>2. \A r \in 1..Len(heap) : /\ Pris'[r] = 4 * next[heap'[r]] + Phase[heap'[r]]
                              /\ Pris[r] = 4 * next[heap[r]] + Phase[heap[r]]
  BY <1>1, PrisPrime
<1>3. Pris'[p] = Pris[q] /\ Pris'[q] = Pris[p]
  BY <1>1, <1>2
<1>4. \A r \in 1..Len(heap) : r # p /\ r # q => Pris'[r] = Pris[r]
  BY <1>1, <1>2
<1> QED BY <1>3, <1>4 DEF Swapped

LEMMA SamePris ==
  ASSUME TypeOK, heap' = heap, \A p \in 1..Len(heap) : next'[heap[p]] = next[heap[p]]
  PROVE  Pris' = Pris
<1>1. \A p \in 1..Len(heap) :
         4 * next'[heap'[p]] + Phase[heap'[p]] = 4 * next[heap[p]] + Phase[heap[p]]
  OBVIOUS
<1> QED BY <1>1, PrisPrime

(* The comparisons of the loops are comparisons of priorities. *)
LEMMA Lower ==
  ASSUME TypeOK, NEW p \in 1..Len(heap), NEW q \in 1..Len(heap)
  PROVE  isLowerPriority(heap[p], heap[q]) <=> Pris[p] > Pris[q]
BY PrisType DEF isLowerPriority

LEMMA SiftHeap ==
  ASSUME IInv, Rebalancing
  PROVE  HeapInv'
<1> DEFINE n == Len(heap)
<1> USE DEF IInv
<1>0. /\ n \in Nat /\ Pris \in [1..n -> Nat] /\ low \in Nat \ {0} /\ pos \in Nat \ {0}
      /\ Heaped(Pris, n, mode, pos, low)
  BY PrisType, Members, Numbers DEF HeapInv
<1>k. Len(heap') = n /\ UNCHANGED <<next, clock, world>> /\ TypeOK'
  BY SiftKeeps
<1>t. Pris' \in [1..n -> Nat]
  BY <1>k, PrisTypePrime
<1>1. CASE SiftUp /\ pos > 1 /\ isLowerPriority(heap[pos \div 2], heap[pos])
  <2>1. /\ pos \in 1..n /\ pos \div 2 \in 1..n /\ pos # pos \div 2
        /\ Swap(pos, pos \div 2) /\ pos' = pos \div 2 /\ mode' = mode
    BY <1>1, SiftUpSwaps
  <2>2. mode \in {"push", "up"} /\ low' = low /\ low = 1
    BY <1>1 DEF SiftUp, EngineInv
  <2>3. Swapped(Pris, Pris', n, pos, pos \div 2)
    BY <1>k, <2>1, SwapPris
  <2>4. Pris[pos \div 2] > Pris[pos] /\ pos \in 2..n
    BY <1>1, <2>1, Lower
  <2>5. Heaped(Pris', n, mode, pos \div 2, 1)
    <3> DEFINE q == pos \div 2
    <3>1. q = pos \div 2 /\ Pris[q] > Pris[pos] /\ Swapped(Pris, Pris', n, pos, q)
      BY <2>3, <2>4
    <3>2. Heaped(Pris, n, mode, pos, 1) /\ pos \in 2..n /\ n \in Nat
      BY <1>0, <2>2, <2>4
    <3> HIDE DEF n, q
    <3>3. Heaped(Pris', n, mode, q, 1)
      BY <1>0, <1>t, <2>2, <3>1, <3>2, UpSwap
    <3> QED BY <3>3 DEF q
  <2> QED BY <1>k, <2>1, <2>2, <2>5 DEF HeapInv
<1>2. CASE SiftUp /\ ~(pos > 1 /\ isLowerPriority(heap[pos \div 2], heap[pos]))
  <2>1. /\ UNCHANGED <<heap, index>> /\ low' = low /\ pos' = pos /\ pos \in 1..n /\ low = 1
        /\ mode' = IF mode = "push" THEN "idle" ELSE "down"
        /\ mode \in {"push", "up"}
    BY <1>2 DEF SiftUp, Rebalance, EngineInv
  <2>2. Pris' = Pris
    BY <1>k, <2>1, SamePris
  <2>3. ~(pos > 1 /\ Pris[pos \div 2] > Pris[pos])
    <3>1. pos > 1 => pos \div 2 \in 1..n
      BY <2>1, Parent
    <3> QED BY <3>1, <1>2, <2>1, Lower
  <2>4. Heaped(Pris, n, mode', pos, 1)
    <3> HIDE DEF n
    <3> QED BY <1>0, <2>1, <2>3, UpStop
  <2> QED BY <1>k, <2>1, <2>2, <2>4 DEF HeapInv
<1>3. CASE SiftDown /\ 2 * pos <= n /\ isLowerPriority(heap[pos], heap[HigherPriorityChild(pos)])
  <2> DEFINE c == HigherPriorityChild(pos)
  <2>1. /\ pos \in 1..n /\ c \in 2..n /\ pos # c /\ c \div 2 = pos
        /\ Swap(pos, c) /\ pos' = c /\ mode' = mode /\ low' = low
    BY <1>3, SiftDownSwaps
  <2>2. mode \in {"down", "remake"} /\ low <= pos
    BY <1>3, <2>1 DEF SiftDown, EngineInv
  <2>3. c \in 1..n /\ \A p \in 2..n : p \div 2 = pos => friend_getPriority(heap[c]) <= friend_getPriority(heap[p])
    BY <1>3, <2>1, Child
  <2> HIDE DEF c
  <2>4. Swapped(Pris, Pris', n, pos, c)
    BY <1>k, <2>1, <2>3, SwapPris
  <2>5. Least(Pris, n, pos, c)
    BY <2>3, PrisType DEF Least
  <2>6. Pris[pos] > Pris[c]
    BY <1>3, <2>1, <2>3, Lower DEF c
  <2>7. Heaped(Pris', n, mode, c, low)
    <3>1. pos \in 1..n /\ c \in 2..n /\ c \div 2 = pos /\ n \in Nat
      BY <1>0, <2>1
    <3> HIDE DEF n
    <3> QED BY <1>0, <1>t, <2>2, <2>4, <2>5, <2>6, <3>1, DownSwap
  <2> QED BY <1>k, <2>1, <2>7 DEF HeapInv
<1>4. CASE SiftDown /\ ~(2 * pos <= n /\ isLowerPriority(heap[pos], heap[HigherPriorityChild(pos)]))
  <2>1. UNCHANGED <<heap, index>> /\ mode \in {"down", "remake"} /\ pos \in 1..n
    BY <1>4 DEF SiftDown, EngineInv
  <2>2. \/ /\ mode = "remake" /\ low > 1 /\ mode' = "remake"
           /\ pos' = low - 1 /\ low' = low - 1
        \/ /\ low = 1
           /\ mode' = "idle" /\ pos' = pos /\ low' = low
    BY <1>0, <1>4, <2>1 DEF SiftDown, Rebalance, MoreParents, EngineInv
  <2>3. Pris' = Pris
    BY <1>k, <2>1, SamePris
  <2>4. Least(Pris, n, pos, pos)
    <3> USE DEF Least
    <3>1. CASE ~(2 * pos <= n)
      BY <3>1, Parent
    <3>2. CASE 2 * pos <= n
      <4> DEFINE c == HigherPriorityChild(pos)
      <4>1. /\ c \in 2..n
            /\ \A p \in 2..n : p \div 2 = pos => friend_getPriority(heap[c]) <= friend_getPriority(heap[p])
        BY <2>1, <3>2, Child
      <4>2. ~isLowerPriority(heap[pos], heap[c])
        BY <1>4, <3>2
      <4> HIDE DEF c
      <4>3. \A p \in 2..n : p \div 2 = pos => Pris[c] <= Pris[p]
        BY <4>1, PrisType
      <4>4. ~(Pris[pos] > Pris[c])
        BY <4>1, <4>2, <2>1, Lower
      <4>5. \A p \in 1..n : Pris[p] \in Nat
        BY <1>0
      <4> HIDE DEF n
      <4>6. n \in Nat /\ Pris[pos] <= Pris[c]
        BY <4>1, <4>4, <4>5, <2>1, <1>0
      <4>7. ASSUME NEW p \in 2..n, p \div 2 = pos PROVE Pris[pos] <= Pris[p]
        <5>1. Pris[c] <= Pris[p] /\ Pris[pos] \in Nat /\ Pris[c] \in Nat /\ Pris[p] \in Nat
          BY <4>1, <4>3, <4>5, <4>6, <4>7, <2>1
        <5> QED BY <4>6, <5>1
      <4> QED BY <4>7
    <3> QED BY <3>1, <3>2
  <2>5. /\ low = 1 => Heaped(Pris, n, "idle", pos, low)
        /\ low > 1 => Heaped(Pris, n, "remake", low - 1, low - 1)
    <3> HIDE DEF n
    <3> QED BY <1>0, <2>1, <2>4, DownStop
  <2> QED BY <1>k, <2>2, <2>3, <2>5 DEF HeapInv
<1> QED BY <1>1, <1>2, <1>3, <1>4 DEF Rebalancing

(* The actions that leave the heap variables alone. *)
Quiet == /\ UNCHANGED heapVars
         /\ \/ BeginLoop \/ CallUpdate \/ EndLoop \/ BeginDestroy \/ EndDestroy \/ EndFrame
            \/ \E o \in Objects : destroyObject(o) \/ processDestroyList(o)
            \/ UNCHANGED vars

(* The root is called and comes back, or is skipped. *)
Requeued == \/ \E d \in Delays \cup {0} : ReturnFromUpdate(d)
            \/ SkipDisabled

LEMMA AsideSteps ==
  ASSUME Aside
  PROVE  \/ Quiet \/ Requeued
         \/ \E o \in Objects : \E d \in [ModulesOf(o) -> Delays \cup {0}] : registerObject(o, d)
         \/ \E u \in Modules, d \in Delays \cup {0} : friend_awakenUpdateModule(u, d)
<1>1. \A o \in Objects : destroyObject(o) \/ processDestroyList(o) => UNCHANGED heapVars
  BY DEF destroyObject, processDestroyList
<1>2. BeginLoop \/ CallUpdate \/ EndLoop \/ BeginDestroy \/ EndDestroy \/ EndFrame
      => UNCHANGED heapVars
  BY DEF BeginLoop, CallUpdate, EndLoop, BeginDestroy, EndDestroy, EndFrame
<1>3. UNCHANGED vars => UNCHANGED heapVars
  BY DEF vars, heapVars
<1> QED BY <1>1, <1>2, <1>3 DEF Aside, Return, Loop, Cleanup, Quiet, Requeued

LEMMA RequeuedKeeps ==
  ASSUME IInv, Requeued
  PROVE  /\ heap # <<>> /\ heap[1] \in Modules /\ Len(heap) >= 1
         /\ next'[heap[1]] > frame
         /\ \A v \in Modules : v # heap[1] => next'[v] = next[v]
         /\ mode = "idle" /\ pushing = {} /\ erasing = {} /\ loc \in {"loop", "update"}
         /\ mode' = "up" /\ pos' = 1 /\ low' = low /\ heap' = heap /\ index' = index
         /\ late' = late \ {heap[1]} /\ cur' = None /\ loc' = "loop"
         /\ UNCHANGED <<frame, last, inList, doomed, pushing, erasing>>
<1> USE DEF IInv
<1>1. ASSUME NEW d \in Delays \cup {0}, ReturnFromUpdate(d)
      PROVE  /\ heap # <<>> /\ heap[1] = cur /\ Requeue(heap[1], d) /\ d \in Nat
             /\ mode = "idle" /\ pushing = {} /\ erasing = {} /\ loc = "update"
             /\ cur' = None /\ loc' = "loop"
  BY <1>1, Numbers DEF ReturnFromUpdate, CurInv, Idle
<1>2. CASE SkipDisabled
  <2>1. /\ heap # <<>> /\ Requeue(heap[1], 1) /\ loc = "loop" /\ loc' = loc /\ cur' = cur
        /\ mode = "idle" /\ pushing = {} /\ erasing = {}
    BY <1>2 DEF SkipDisabled, RootIsDue, Idle
  <2>2. cur = None
    BY <2>1 DEF CurInv
  <2> QED BY <2>1, <2>2, Members, RequeueKeeps
<1>3. ASSUME NEW d \in Delays \cup {0}, ReturnFromUpdate(d)
      PROVE  /\ heap[1] \in Modules /\ Len(heap) >= 1
             /\ next'[heap[1]] > frame
             /\ \A v \in Modules : v # heap[1] => next'[v] = next[v]
             /\ mode' = "up" /\ pos' = 1 /\ low' = low /\ heap' = heap /\ index' = index
             /\ late' = late \ {heap[1]}
             /\ UNCHANGED <<frame, last, inList, doomed, pushing, erasing>>
  <2>1. heap # <<>> /\ Requeue(heap[1], d) /\ d \in Nat /\ heap[1] \in Modules /\ Len(heap) >= 1
    BY <1>1, <1>3, Members
  <2> QED BY <2>1, RequeueKeeps
<1> QED BY <1>1, <1>2, <1>3 DEF Requeued

LEMMA RegisterKeeps ==
  ASSUME IInv, NEW o \in Objects, NEW d \in [ModulesOf(o) -> Delays \cup {0}],
         registerObject(o, d)
  PROVE  /\ mode = "idle" /\ pushing = {} /\ erasing = {}
         /\ loc \in {"before", "update", "after", "tail"} /\ o \notin inList
         /\ inList' = inList \cup {o} /\ pushing' = ModulesOf(o)
         /\ UNCHANGED <<heap, index, mode, pos, low, doomed, erasing, clock>>
         /\ \A u \in Scheduled : u \notin ModulesOf(o) /\ next'[u] = next[u]
         /\ \A u \in ModulesOf(o) : (next'[u] = 0 /\ MayBeDueNow(u)) \/ next'[u] > frame
         /\ \A p \in 1..Len(heap) : next'[heap[p]] = next[heap[p]]
<1> USE DEF IInv
<1>1. /\ mode = "idle" /\ pushing = {} /\ erasing = {}
      /\ loc \in {"before", "update", "after", "tail"} /\ o \notin inList
      /\ inList' = inList \cup {o} /\ pushing' = ModulesOf(o)
      /\ UNCHANGED <<heap, index, mode, pos, low, doomed, erasing, clock>>
  BY DEF registerObject, OthersRun, Idle
<1>2. ASSUME NEW u \in Scheduled PROVE u \in Modules /\ u \notin ModulesOf(o) /\ Owner[u] # o
  BY <1>1 DEF EnteredInv, Scheduled, ModulesOf
<1>3. \A u \in Scheduled : next'[u] = next[u]
  BY <1>2, RegisterNext
<1>4. \A p \in 1..Len(heap) : heap[p] \in Scheduled
  BY Members DEF IndexMatches, Scheduled
<1> QED BY <1>1, <1>2, <1>3, <1>4, RegisterNext

LEMMA HeapStep ==
  ASSUME IInv, [Next]_vars
  PROVE  HeapInv'
<1> DEFINE n == Len(heap)
<1> USE DEF IInv
<1>0. n \in Nat /\ Pris \in [1..n -> Nat] /\ DOMAIN heap = 1..n /\ Heaped(Pris, n, mode, pos, low)
  BY PrisType, Members DEF HeapInv
<1>t. TypeOK' /\ Pris' \in [1..Len(heap') -> Nat]
  BY TypeStep, PrisTypePrime
<1>i. ASSUME mode = "idle" PROVE low = 1 /\ \A p \in 2..n : Pris[p \div 2] <= Pris[p]
  BY <1>0, <1>i DEF EngineInv, Heaped
<1>1. CASE Rebalancing
  BY <1>1, SiftHeap
<1>2. CASE Quiet
  <2>1. UNCHANGED heapVars /\ Pris' = Pris
    BY <1>2, SamePris DEF Quiet, heapVars
  <2> QED BY <1>0, <2>1 DEF HeapInv, heapVars
<1>3. CASE Requeued
  <2>1. /\ heap[1] \in Modules /\ n >= 1 /\ \A v \in Modules : v # heap[1] => next'[v] = next[v]
        /\ mode = "idle" /\ mode' = "up" /\ pos' = 1 /\ low' = low /\ heap' = heap
    BY <1>3, RequeuedKeeps
  <2>2. \A p \in 1..n : p # 1 => heap[p] # heap[1] /\ heap[p] \in Modules
    BY <1>0, <2>1, Members DEF IndexMatches
  <2>3. \A p \in 1..n : p # 1 => Pris'[p] = Pris[p]
    BY <2>1, <2>2, PrisPrime
  <2>4. Heaped(Pris', n, "up", 1, 1)
    <3>1. n <= n /\ 1 \in 1..n /\ Pris' \in [1..n -> Nat]
      BY <1>0, <1>t, <2>1
    <3> HIDE DEF n
    <3> QED BY <1>0, <1>i, <2>1, <2>3, <3>1, Replaced
  <2> QED BY <1>i, <2>1, <2>4 DEF HeapInv
<1>4. ASSUME NEW o \in Objects, NEW d \in [ModulesOf(o) -> Delays \cup {0}], registerObject(o, d)
      PROVE  HeapInv'
  <2>1. /\ UNCHANGED <<heap, mode, pos, low>>
        /\ \A p \in 1..Len(heap) : next'[heap[p]] = next[heap[p]]
    BY <1>4, RegisterKeeps
  <2>2. Pris' = Pris
    BY <2>1, SamePris
  <2> QED BY <1>0, <2>1, <2>2 DEF HeapInv
<1>5. ASSUME NEW u \in Modules, NEW d \in Delays \cup {0}, friend_awakenUpdateModule(u, d)
      PROVE  HeapInv'
  <2> DEFINE i == index[u]
  <2>1. /\ \A v \in Modules : v # u => next'[v] = next[v]
        /\ i \in 1..n /\ mode = "idle" /\ mode' = "up" /\ pos' = i /\ low' = low /\ heap' = heap
    BY <1>5, AwakenNext
  <2>2. \A p \in 1..n : p # i => heap[p] # u /\ heap[p] \in Modules
    BY <1>0, Members DEF IndexMatches
  <2>3. \A p \in 1..n : p # i => Pris'[p] = Pris[p]
    BY <2>1, <2>2, PrisPrime
  <2>4. Heaped(Pris', n, "up", i, 1)
    <3>1. n <= n /\ Pris' \in [1..n -> Nat]
      BY <1>0, <1>t, <2>1
    <3> HIDE DEF n, i
    <3> QED BY <1>0, <1>i, <2>1, <2>3, <3>1, Replaced
  <2> QED BY <1>i, <2>1, <2>4 DEF HeapInv
<1>6. CASE loadPostProcess
  <2>1. /\ Len(heap') = n /\ n >= 1 /\ mode' = "remake"
        /\ low' = (n \div 2) + 1 /\ pos' = (n \div 2) + 1
    BY <1>6, LoadKeeps DEF loadPostProcess, Rebalance
  <2>2. \A p \in 2..n : p \div 2 < (n \div 2) + 1
    BY <1>0
  <2>3. Heaped(Pris', n, "remake", (n \div 2) + 1, (n \div 2) + 1)
    <3> DEFINE l == (n \div 2) + 1
    <3>1. l \in Nat /\ \A p \in 2..n : p \div 2 \in Nat /\ p \div 2 < l
      BY <1>0, <2>2, Parent
    <3> HIDE DEF l
    <3>2. Heaped(Pris', n, "remake", l, l)
      BY <3>1 DEF Heaped
    <3> QED BY <3>2 DEF l
  <2> QED BY <2>1, <2>3 DEF HeapInv
<1>7. ASSUME NEW u \in pushing, pushSleepyUpdate(u) PROVE HeapInv'
  <2>1. /\ u \in Modules /\ \A v \in Modules : v # u => next'[v] = next[v]
        /\ mode = "idle" /\ mode' = "push" /\ pos' = n + 1 /\ low' = low
    BY <1>7, PushNext
  <2>2. /\ Len(heap') = n + 1 /\ \A p \in 1..n : heap'[p] = heap[p] /\ index[u] = 0
    BY <1>7, PushKeeps
  <2>3. \A p \in 1..n : heap[p] # u /\ heap[p] \in Modules
    BY <1>0, <2>2, Members DEF IndexMatches
  <2>4. \A p \in 1..n : Pris'[p] = Pris[p]
    BY <1>0, <2>1, <2>2, <2>3, PrisPrime
  <2>5. Heaped(Pris', n + 1, "push", n + 1, 1)
    <3>1. ASSUME NEW p \in 2..(n + 1), p # n + 1 PROVE Pris'[p \div 2] <= Pris'[p]
      <4>1. p \in 2..n /\ p \div 2 \in 1..n
        BY <1>0, <3>1, Parent
      <4> QED BY <4>1, <2>1, <2>4, <1>i
    <3>2. \A p \in 2..(n + 1) : p \div 2 # n + 1
      BY <1>0, Parent
    <3> QED BY <3>1, <3>2 DEF Heaped
  <2> QED BY <1>i, <2>1, <2>2, <2>5 DEF HeapInv
<1>8. ASSUME NEW u \in erasing, eraseSleepyUpdate(u) PROVE HeapInv'
  <2> DEFINE i == index[u]
             j == n - 1
  <2>1. /\ u \in Modules /\ i \in 1..n /\ Len(heap') = j
        /\ \A p \in 1..j : heap'[p] = IF p = i THEN heap[n] ELSE heap[p]
    BY <1>8, EraseKeeps
  <2>2. /\ \A v \in Modules : v # u => next'[v] = next[v]
        /\ mode = "idle" /\ low' = low
        /\ i < n => mode' = "up" /\ pos' = i
        /\ i = n => mode' = mode /\ pos' = pos
    BY <1>8, EraseNext
  <2>3. \A p \in 1..n : p # i => heap[p] # u /\ heap[p] \in Modules
    BY <1>0, Members DEF IndexMatches
  <2>4. j \in Nat /\ j <= n /\ Pris' \in [1..j -> Nat]
    BY <1>0, <1>t, <2>1
  <2>5. \A p \in 1..j : p # i => Pris'[p] = Pris[p]
    <3>1. \A p \in 1..j : p # i => p \in 1..n /\ heap'[p] = heap[p]
      BY <1>0, <2>1
    <3> QED BY <3>1, <2>1, <2>2, <2>3, PrisPrime
  <2>6. CASE i < n
    <3>1. i \in 1..j
      BY <1>0, <2>1, <2>6
    <3>2. Heaped(Pris', j, "up", i, 1)
      <4> HIDE DEF n, i, j
      <4> QED BY <1>0, <1>i, <2>2, <2>4, <2>5, <3>1, Replaced
    <3> QED BY <1>i, <2>1, <2>2, <2>6, <3>2 DEF HeapInv
  <2>7. CASE i = n
    <3>1. ASSUME NEW p \in 2..j PROVE Pris'[p \div 2] <= Pris'[p]
      <4>1. p \in 2..n /\ p \div 2 \in 1..j /\ p # i /\ p \div 2 # i /\ p \in 1..j
        <5>1. p \div 2 \in Nat /\ p \div 2 < p /\ p \div 2 >= 1
          BY Parent
        <5>2. j < n /\ j \in Nat /\ n \in Nat
          BY <1>0, <2>4
        <5> HIDE DEF n, j
        <5> QED BY <5>1, <5>2, <2>7
      <4> QED BY <4>1, <2>2, <2>5, <1>i
    <3>2. Heaped(Pris', j, "idle", pos, 1)
      BY <3>1 DEF Heaped
    <3> QED BY <1>i, <2>1, <2>2, <2>7, <3>2 DEF HeapInv
  <2> QED BY <1>0, <2>1, <2>6, <2>7
<1> QED BY <1>1, <1>2, <1>3, <1>4, <1>5, <1>6, <1>7, <1>8, Steps, AsideSteps

-----------------------------------------------------------------------------
(* The other parts of the invariant. *)

LEMMA EngineStep ==
  ASSUME IInv, [Next]_vars
  PROVE  EngineInv'
<1> USE DEF IInv
<1>0. Len(heap) \in Nat /\ low \in Nat
  BY Members, Numbers
<1>1. CASE Rebalancing
  BY <1>1, SiftKeeps
<1>2. CASE Quiet
  <2>1. UNCHANGED heapVars /\ (mode # "idle" => loc' = loc)
    BY <1>2 DEF Quiet, Idle, OthersRun, DestructorsRun, BeginLoop, CallUpdate, RootIsDue, EndLoop, BeginDestroy,
                EndDestroy, EndFrame, destroyObject, processDestroyList, clock, vars
  <2> QED BY <2>1 DEF EngineInv, heapVars
<1>3. CASE Requeued
  <2>1. Len(heap) >= 1 /\ mode = "idle" /\ mode' = "up" /\ pos' = 1 /\ low' = low /\ heap' = heap
    BY <1>3, RequeuedKeeps
  <2> QED BY <1>0, <2>1 DEF EngineInv
<1>4. ASSUME NEW o \in Objects, NEW d \in [ModulesOf(o) -> Delays \cup {0}], registerObject(o, d)
      PROVE  EngineInv'
  <2>1. mode = "idle" /\ UNCHANGED <<heap, index, mode, pos, low>>
    BY <1>4, RegisterKeeps
  <2> QED BY <2>1 DEF EngineInv
<1>5. ASSUME NEW u \in Modules, NEW d \in Delays \cup {0}, friend_awakenUpdateModule(u, d)
      PROVE  EngineInv'
  <2>1. /\ index[u] \in 1..Len(heap) /\ mode = "idle" /\ mode' = "up" /\ pos' = index[u]
        /\ low' = low /\ heap' = heap
    BY <1>5, AwakenNext
  <2> QED BY <2>1 DEF EngineInv
<1>6. CASE loadPostProcess
  <2>1. /\ Len(heap') = Len(heap) /\ Len(heap) >= 1 /\ mode' = "remake"
        /\ low' = (Len(heap) \div 2) + 1 /\ pos' = (Len(heap) \div 2) + 1
        /\ loc = "before" /\ loc' = loc
    BY <1>6, LoadKeeps DEF loadPostProcess, Rebalance, clock
  <2>2. (Len(heap) \div 2) + 1 \in 1..Len(heap)
    <3> DEFINE n == Len(heap)
    <3>1. n \in Nat \ {0}
      BY <1>0, <2>1
    <3> HIDE DEF n
    <3>2. n \div 2 \in Nat /\ n \div 2 < n
      BY <3>1, Parent
    <3>3. (n \div 2) + 1 \in 1..n
      BY <3>1, <3>2
    <3> QED BY <3>3 DEF n
  <2> QED BY <2>1, <2>2 DEF EngineInv
<1>7. ASSUME NEW u \in pushing, pushSleepyUpdate(u) PROVE EngineInv'
  <2>1. /\ mode = "idle" /\ mode' = "push" /\ pos' = Len(heap) + 1 /\ low' = low
        /\ Len(heap') = Len(heap) + 1
    BY <1>7, PushNext, PushKeeps
  <2> QED BY <1>0, <2>1 DEF EngineInv
<1>8. ASSUME NEW u \in erasing, eraseSleepyUpdate(u) PROVE EngineInv'
  <2>1. /\ index[u] \in 1..Len(heap) /\ Len(heap') = Len(heap) - 1
        /\ mode = "idle" /\ low' = low
        /\ index[u] < Len(heap) => mode' = "up" /\ pos' = index[u]
        /\ index[u] = Len(heap) => mode' = mode /\ pos' = pos
    BY <1>8, EraseKeeps, EraseNext
  <2>2. CASE index[u] < Len(heap)
    BY <1>0, <2>1, <2>2 DEF EngineInv
  <2>3. CASE index[u] = Len(heap)
    BY <1>0, <2>1, <2>3 DEF EngineInv
  <2> QED BY <1>0, <2>1, <2>2, <2>3
<1> QED BY <1>1, <1>2, <1>3, <1>4, <1>5, <1>6, <1>7, <1>8, Steps, AsideSteps

LEMMA EnteredStep ==
  ASSUME IInv, [Next]_vars
  PROVE  EnteredInv'
<1> USE DEF IInv
<1>1. CASE Rebalancing
  <2>1. UNCHANGED <<loc, inList, pushing, erasing>> /\ \A u \in Modules : index'[u] # 0 <=> index[u] # 0
    BY <1>1, SiftKeeps DEF clock, world
  <2> QED BY <2>1 DEF EnteredInv
<1>2. ASSUME UNCHANGED <<index, inList, pushing, erasing>>,
             loc' # loc => pushing = {} /\ erasing = {}
      PROVE  EnteredInv'
  BY <1>2 DEF EnteredInv
<1>3. CASE Quiet
  <2>1. CASE \E o \in Objects : processDestroyList(o)
    <3>1. PICK o \in Objects : processDestroyList(o)
      BY <2>1
    <3>2. /\ pushing = {} /\ erasing = {} /\ loc = "destroy" /\ loc' = loc
          /\ inList' = inList \ {o} /\ erasing' = {u \in ModulesOf(o) : u \in Scheduled}
          /\ index' = index /\ pushing' = pushing
      BY <3>1 DEF processDestroyList, Idle, heapVars, clock
    <3>3. \A u \in Modules : u \in ModulesOf(o) <=> Owner[u] = o
      BY DEF ModulesOf
    <3>4. \A u \in Modules : u \in Scheduled <=> index[u] # 0
      BY DEF Scheduled
    <3>5. \A u \in erasing' : u \in Modules /\ Owner[u] = o
      BY <3>2 DEF ModulesOf
    <3>6. \A u \in Modules : u \in erasing' <=> Owner[u] = o /\ index[u] # 0
      BY <3>2, <3>3, <3>4
    <3>7. \A u \in Modules : Owner[u] \in inList' <=> Owner[u] \in inList /\ Owner[u] # o
      BY <3>2
    <3>8. \A u \in Modules : index[u] # 0 <=> Owner[u] \in inList
      BY <3>2 DEF EnteredInv
    <3>9. \A u \in erasing' : Owner[u] \notin inList'
      BY <3>5, <3>7
    <3> QED BY <3>2, <3>6, <3>7, <3>8, <3>9 DEF EnteredInv
  <2>2. CASE ~\E o \in Objects : processDestroyList(o)
    <3>1. /\ UNCHANGED <<index, inList, pushing, erasing>>
          /\ loc' # loc => pushing = {} /\ erasing = {}
      BY <1>3, <2>2 DEF Quiet, Idle, BeginLoop, CallUpdate, RootIsDue, EndLoop, BeginDestroy,
            EndDestroy, EndFrame, destroyObject, heapVars, clock, world, vars
    <3> QED BY <3>1, <1>2
  <2> QED BY <2>1, <2>2
<1>4. CASE Requeued
  <2>1. pushing = {} /\ erasing = {} /\ UNCHANGED <<index, inList, pushing, erasing>>
    BY <1>4, RequeuedKeeps
  <2> QED BY <2>1, <1>2
<1>5. ASSUME NEW o \in Objects, NEW d \in [ModulesOf(o) -> Delays \cup {0}], registerObject(o, d)
      PROVE  EnteredInv'
  <2>1. /\ pushing = {} /\ erasing = {} /\ loc \in {"before", "update", "after", "tail"}
        /\ o \notin inList /\ inList' = inList \cup {o} /\ pushing' = ModulesOf(o)
        /\ UNCHANGED <<index, erasing, loc>>
    BY <1>5, RegisterKeeps DEF clock
  <2>2. \A u \in Modules : index[u] # 0 <=> Owner[u] \in inList
    BY <2>1 DEF EnteredInv
  <2>3. \A u \in Modules : u \in ModulesOf(o) <=> Owner[u] = o
    BY DEF ModulesOf
  <2>4. \A u \in ModulesOf(o) : Owner[u] = o
    BY DEF ModulesOf
  <2> QED BY <2>1, <2>2, <2>3, <2>4 DEF EnteredInv
<1>6. ASSUME NEW u \in Modules, NEW d \in Delays \cup {0}, friend_awakenUpdateModule(u, d)
      PROVE  EnteredInv'
  <2>1. UNCHANGED <<index, inList, pushing, erasing, loc>>
    BY <1>6, AwakenNext
  <2> QED BY <2>1, <1>2
<1>7. CASE loadPostProcess
  <2>1. /\ UNCHANGED <<loc, inList, pushing, erasing>>
        /\ \A u \in Modules : index'[u] # 0 <=> index[u] # 0
    BY <1>7, LoadKeeps DEF loadPostProcess, world, clock
  <2> QED BY <2>1 DEF EnteredInv
<1>8. ASSUME NEW u \in pushing, pushSleepyUpdate(u) PROVE EnteredInv'
  <2>1. /\ pushing' = pushing \ {u} /\ UNCHANGED <<loc, inList, erasing>>
        /\ \A v \in Modules : index'[v] # 0 <=> (index[v] # 0 \/ v = u)
    BY <1>8, PushNext, PushKeeps
  <2> QED BY <2>1 DEF EnteredInv
<1>9. ASSUME NEW u \in erasing, eraseSleepyUpdate(u) PROVE EnteredInv'
  <2>1. /\ erasing' = erasing \ {u} /\ UNCHANGED <<loc, inList, pushing>>
        /\ \A v \in Modules : index'[v] # 0 <=> (index[v] # 0 /\ v # u)
    BY <1>9, EraseNext, EraseKeeps
  <2> QED BY <2>1 DEF EnteredInv
<1> QED BY <1>1, <1>3, <1>4, <1>5, <1>6, <1>7, <1>8, <1>9, Steps, AsideSteps

(* Between operations no scheduled module comes before the root. *)
LEMMA NextIsRoot ==
  ASSUME IInv, mode = "idle"
  PROVE  \A u \in Scheduled : heap # <<>> /\ heap[1] \in Modules
                              /\ friend_getPriority(heap[1]) <= friend_getPriority(u)
<1> USE DEF IInv
<1> DEFINE n == Len(heap)
<1>1. n \in Nat /\ Pris \in [1..n -> Nat] /\ \A p \in 2..n : Pris[p \div 2] <= Pris[p]
  BY PrisType, Members DEF HeapInv, Heaped
<1>2. \A p \in 1..n : Pris[1] <= Pris[p]
  <2> HIDE DEF n
  <2> QED BY <1>1, RootIsFirst
<1>3. ASSUME NEW u \in Scheduled
      PROVE  heap # <<>> /\ heap[1] \in Modules
             /\ friend_getPriority(heap[1]) <= friend_getPriority(u)
  <2>1. index[u] \in 1..n /\ heap[index[u]] = u /\ 1 \in 1..n
    BY Members DEF Scheduled, IndexMatches
  <2>2. Pris[1] = friend_getPriority(heap[1]) /\ Pris[index[u]] = friend_getPriority(u)
    BY <2>1, PrisType
  <2>3. heap # <<>> /\ heap[1] \in Modules
    BY <2>1, Members
  <2> QED BY <1>2, <2>1, <2>2, <2>3
<1> QED BY <1>3

(* While a module is being updated rebalancing leaves it at the root. *)
LEMMA RootKept ==
  ASSUME IInv, Rebalancing, cur # None
  PROVE  heap' # <<>> /\ heap'[1] = heap[1]
<1> USE DEF IInv
<1> DEFINE n == Len(heap)
<1>0. n \in Nat /\ DOMAIN heap = 1..n /\ Len(heap') = n
  BY Members, SiftKeeps
<1>1. heap # <<>> /\ loc = "update" /\ last = friend_getPriority(heap[1])
  BY DEF CurInv
<1>2. n >= 1 /\ heap' \in Seq(Modules)
  BY <1>0, <1>1, SiftKeeps, Members DEF TypeOK
<1>3. \A p \in 1..n : heap[p] \in Scheduled
  BY <1>0, Members DEF IndexMatches, Scheduled
<1>4. \A p \in 1..n : /\ friend_getPriority(heap[1]) <= friend_getPriority(heap[p])
                      /\ friend_getPriority(heap[1]) \in Nat
                      /\ friend_getPriority(heap[p]) \in Nat
  BY <1>1, <1>2, <1>3, Members, Priorities DEF OrderInv
<1>5. \A p \in 1..n : ~isLowerPriority(heap[1], heap[p])
  BY <1>4 DEF isLowerPriority
<1>6. CASE SiftUp /\ pos > 1 /\ isLowerPriority(heap[pos \div 2], heap[pos])
  <2>1. /\ pos \in 1..n /\ pos \div 2 \in 1..n /\ pos # pos \div 2
        /\ Swap(pos, pos \div 2)
    BY <1>6, SiftUpSwaps
  <2>2. pos \div 2 # 1
    BY <1>5, <1>6, <2>1
  <2>3. \A r \in 1..n : r # pos /\ r # pos \div 2 => heap'[r] = heap[r]
    BY <2>1, SwapKeeps
  <2>4. 1 \in 1..n /\ pos # 1
    BY <1>2, <1>6
  <2> QED BY <1>0, <1>2, <2>2, <2>3, <2>4
<1>7. CASE SiftDown /\ 2 * pos <= n /\ isLowerPriority(heap[pos], heap[HigherPriorityChild(pos)])
  <2> DEFINE c == HigherPriorityChild(pos)
  <2>1. /\ pos \in 1..n /\ c \in 2..n /\ pos # c /\ Swap(pos, c)
    BY <1>7, SiftDownSwaps
  <2> HIDE DEF c
  <2>2. c \in 1..n /\ c # 1
    BY <1>0, <2>1
  <2>3. pos # 1
    BY <1>5, <1>7, <2>2 DEF c
  <2>4. \A r \in 1..n : r # pos /\ r # c => heap'[r] = heap[r]
    BY <2>1, <2>2, SwapKeeps
  <2>5. 1 \in 1..n
    BY <1>2
  <2> QED BY <1>0, <1>2, <2>2, <2>3, <2>4, <2>5
<1>8. CASE heap' = heap
  BY <1>1, <1>8
<1>9. SiftUp /\ ~(pos > 1 /\ isLowerPriority(heap[pos \div 2], heap[pos])) => heap' = heap
  BY DEF SiftUp
<1>10. SiftDown /\ ~(2 * pos <= n /\ isLowerPriority(heap[pos], heap[HigherPriorityChild(pos)]))
       => heap' = heap
  BY DEF SiftDown
<1> QED BY <1>6, <1>7, <1>8, <1>9, <1>10 DEF Rebalancing

(* A step that keeps the root and its call frame keeps CurInv. *)
LEMMA SameCur ==
  ASSUME IInv, UNCHANGED <<frame, loc, cur, last>>,
         cur # None => heap' # <<>> /\ heap'[1] = heap[1] /\ next'[cur] = next[cur]
  PROVE  CurInv'
BY DEF IInv, CurInv, friend_getPriority

LEMMA CurStep ==
  ASSUME IInv, [Next]_vars
  PROVE  CurInv'
<1> USE DEF IInv
<1>0. /\ DOMAIN heap = 1..Len(heap) /\ Len(heap) \in Nat
      /\ heap # <<>> => /\ Len(heap) >= 1 /\ heap[1] \in Modules /\ index[heap[1]] = 1
                        /\ heap[1] \in Scheduled
  BY Members DEF IndexMatches, Scheduled
<1>1. CASE Rebalancing
  <2>1. UNCHANGED <<next, frame, loc, cur, last>>
    BY <1>1, SiftKeeps DEF clock
  <2> QED BY <1>1, <2>1, RootKept, SameCur
<1>2. CASE Quiet
  <2>1. CASE CallUpdate
    <3>1. /\ heap # <<>> /\ next[heap[1]] <= frame /\ cur' = heap[1] /\ loc' = "update"
          /\ last' = friend_getPriority(heap[1]) /\ UNCHANGED <<heap, next, frame>>
      BY <2>1 DEF CallUpdate, RootIsDue, heapVars
    <3>2. heap[1] # None
      BY <1>0, <3>1, NoneAssumption
    <3> QED BY <3>1, <3>2 DEF CurInv, friend_getPriority
  <2>2. CASE BeginLoop \/ EndLoop \/ BeginDestroy \/ EndDestroy \/ EndFrame
    <3>1. loc # "update" /\ loc' # "update" /\ cur' = cur
      BY <2>2 DEF BeginLoop, EndLoop, BeginDestroy, EndDestroy, EndFrame
    <3> QED BY <3>1 DEF CurInv
  <2>3. CASE (\E o \in Objects : destroyObject(o) \/ processDestroyList(o)) \/ UNCHANGED vars
    <3>1. UNCHANGED <<heap, next, frame, loc, cur, last>>
      BY <2>3 DEF destroyObject, processDestroyList, heapVars, clock, vars
    <3> QED BY <3>1, SameCur DEF CurInv
  <2> QED BY <1>2, <2>1, <2>2, <2>3 DEF Quiet
<1>3. CASE Requeued
  <2>1. cur' = None /\ loc' = "loop"
    BY <1>3, RequeuedKeeps
  <2> QED BY <2>1 DEF CurInv
<1>4. ASSUME NEW o \in Objects, NEW d \in [ModulesOf(o) -> Delays \cup {0}], registerObject(o, d)
      PROVE  CurInv'
  <2>1. UNCHANGED <<heap, frame, loc, cur, last>> /\ \A u \in Scheduled : next'[u] = next[u]
    BY <1>4, RegisterKeeps DEF clock
  <2>2. cur # None => heap # <<>> /\ next'[cur] = next[cur]
    BY <2>1, <1>0 DEF CurInv
  <2> QED BY <2>1, <2>2, SameCur
<1>5. ASSUME NEW u \in Modules, NEW d \in Delays \cup {0}, friend_awakenUpdateModule(u, d)
      PROVE  CurInv'
  <2>1. /\ UNCHANGED <<heap, frame, loc, cur, last>> /\ u # cur
        /\ \A v \in Modules : v # u => next'[v] = next[v]
    BY <1>5, AwakenNext DEF friend_awakenUpdateModule
  <2>2. cur # None => heap # <<>> /\ next'[cur] = next[cur]
    BY <2>1, <1>0 DEF CurInv
  <2> QED BY <2>1, <2>2, SameCur
<1>6. CASE loadPostProcess
  <2>1. loc = "before" /\ UNCHANGED <<loc, cur>>
    BY <1>6 DEF loadPostProcess, clock
  <2> QED BY <2>1 DEF CurInv
<1>7. ASSUME NEW u \in pushing, pushSleepyUpdate(u) PROVE CurInv'
  <2>1. /\ u \in Modules /\ \A v \in Modules : v # u => next'[v] = next[v]
        /\ UNCHANGED <<frame, loc, cur, last>>
    BY <1>7, PushNext
  <2>2. /\ heap' \in Seq(Modules) /\ Len(heap') = Len(heap) + 1 /\ index[u] = 0
        /\ \A p \in 1..Len(heap) : heap'[p] = heap[p]
    BY <1>7, PushKeeps
  <2>3. heap' # <<>>
    BY <1>0, <2>2
  <2>4. cur # None => heap # <<>> /\ heap'[1] = heap[1] /\ next'[cur] = next[cur]
    BY <1>0, <2>1, <2>2 DEF CurInv
  <2> QED BY <2>1, <2>3, <2>4, SameCur
<1>8. ASSUME NEW u \in erasing, eraseSleepyUpdate(u) PROVE CurInv'
  <2>1. loc = "destroy" /\ UNCHANGED <<loc, cur>>
    BY <1>8, EraseNext DEF EnteredInv
  <2> QED BY <2>1 DEF CurInv
<1> QED BY <1>1, <1>2, <1>3, <1>4, <1>5, <1>6, <1>7, <1>8, Steps, AsideSteps

(* The call frame of a module that is entered. *)
LEMMA Entered ==
  ASSUME IInv, NEW u \in pushing, pushSleepyUpdate(u)
  PROVE  /\ u \in Modules /\ next'[u] \in Nat /\ next'[u] >= frame
         /\ next'[u] > frame \/ (next'[u] = frame /\ MayBeDueNow(u))
<1> USE DEF IInv
<1>1. /\ u \in Modules /\ next'[u] = (IF next[u] # 0 THEN next[u] ELSE IF frame = 0 THEN 1 ELSE frame)
      /\ next' \in [Modules -> 0..Forever] /\ frame \in Nat /\ next[u] \in Nat
  BY PushNext, Numbers, FrameAssumption
<1>2. (next[u] = 0 /\ MayBeDueNow(u)) \/ next[u] > frame
  BY DEF OrderInv
<1>3. CASE next[u] # 0
  BY <1>1, <1>2, <1>3
<1>4. CASE next[u] = 0
  BY <1>1, <1>2, <1>4
<1> QED BY <1>3, <1>4

(* A module that may be due now does not come before the last call. *)
LEMMA NotAhead ==
  ASSUME IInv, NEW u \in Modules, loc \in {"loop", "update"}, loc = "loop" => next'[u] > frame,
         next'[u] \in Nat,
         next'[u] > frame \/ (next'[u] = frame /\ MayBeDueNow(u))
  PROVE  4 * next'[u] + Phase[u] >= last
<1> USE DEF IInv
<1>1. last \in Nat /\ frame \in Nat /\ Phase[u] \in Nat /\ last <= 4 * frame + 3
  BY Numbers, PhaseAssumption DEF OrderInv
<1>2. CASE next'[u] > frame
  BY <1>1, <1>2
<1>3. CASE next'[u] = frame /\ MayBeDueNow(u) /\ loc = "update"
  <2>1. cur # None /\ cur \in Modules /\ next[cur] <= frame /\ last = 4 * next[cur] + Phase[cur]
    BY <1>3 DEF CurInv, friend_getPriority, TypeOK
  <2>2. Phase[cur] <= Phase[u] /\ Phase[cur] \in Nat /\ next[cur] \in Nat
    BY <1>3, <2>1, PhaseAssumption, Numbers, FrameAssumption DEF MayBeDueNow, MayAskForNow
  <2> QED BY <1>1, <1>3, <2>1, <2>2
<1> QED BY <1>2, <1>3

(* Whatever keeps the clock, and gives no module a call before the last one. *)
LEMMA SameOrder ==
  ASSUME IInv, UNCHANGED <<frame, cur, last>>, loc' \in {"loop", "update"} => loc' = loc,
         loc \in {"loop", "update"} => \A u \in Scheduled' : 4 * next'[u] + Phase[u] >= last,
         \A u \in pushing' : u \in pushing /\ next'[u] = next[u]
  PROVE  OrderInv'
<1>1. loc' \in {"loop", "update"} => last' <= 4 * frame' + 3
  BY DEF IInv, OrderInv
<1>2. loc' \in {"loop", "update"} => \A u \in Scheduled' : 4 * next'[u] + Phase[u] >= last'
  OBVIOUS
<1>3. \A u \in pushing' : (next'[u] = 0 /\ Phase[u] = PHASE_NORMAL /\ (cur' # None => Phase[cur'] <= Phase[u]))
                          \/ next'[u] > frame'
  BY DEF IInv, OrderInv, MayBeDueNow, MayAskForNow
<1> QED BY <1>1, <1>2, <1>3 DEF OrderInv, MayBeDueNow, MayAskForNow, friend_getPriority

LEMMA OrderStep ==
  ASSUME IInv, [Next]_vars
  PROVE  OrderInv'
<1> USE DEF IInv
<1>0. /\ last \in Nat /\ frame \in Nat
      /\ \A u \in Modules : next[u] \in Nat /\ Phase[u] \in 0..3
      /\ loc \in {"loop", "update"} => \A u \in Scheduled : 4 * next[u] + Phase[u] >= last
  BY Numbers, FrameAssumption, PhaseAssumption DEF OrderInv, friend_getPriority
<1>1. CASE Rebalancing
  <2>1. UNCHANGED <<next, frame, loc, cur, last, pushing>> /\ Scheduled' = Scheduled
    BY <1>1, SiftKeeps DEF clock, world
  <2> QED BY <1>0, <2>1, SameOrder
<1>2. CASE Quiet
  <2>0. UNCHANGED <<index, next>> /\ Scheduled' = Scheduled
    BY <1>2 DEF Quiet, heapVars, Scheduled
  <2>1. CASE BeginLoop
    <3>1. last' = 0 /\ pushing' = {} /\ frame' = frame
      BY <2>1 DEF BeginLoop, Idle, world
    <3>2. \A u \in Scheduled' : 4 * next'[u] + Phase[u] >= 0
      BY <1>0, <2>0 DEF Scheduled
    <3> QED BY <1>0, <3>1, <3>2 DEF OrderInv, friend_getPriority
  <2>2. CASE CallUpdate
    <3>1. /\ mode = "idle" /\ heap # <<>> /\ next[heap[1]] <= frame
          /\ last' = friend_getPriority(heap[1]) /\ frame' = frame /\ pushing' = {}
      BY <2>2 DEF CallUpdate, RootIsDue, Idle, world
    <3>2. heap[1] \in Modules
      BY <3>1, Members
    <3>3. last' <= 4 * frame' + 3
      BY <1>0, <3>1, <3>2 DEF friend_getPriority
    <3>4. \A u \in Scheduled : friend_getPriority(u) >= last'
      <4>1. ASSUME NEW u \in Scheduled PROVE friend_getPriority(u) >= last'
        <5>1. friend_getPriority(heap[1]) <= friend_getPriority(u) /\ u \in Modules
          BY <3>1, NextIsRoot DEF Scheduled
        <5>2. friend_getPriority(heap[1]) \in Nat /\ friend_getPriority(u) \in Nat
          BY <3>2, <5>1, Priorities
        <5> QED BY <3>1, <5>1, <5>2
      <4> QED BY <4>1
    <3>5. \A u \in Scheduled' : friend_getPriority(u)' >= last'
      BY <2>0, <3>4 DEF friend_getPriority
    <3> QED BY <3>1, <3>3, <3>5 DEF OrderInv
  <2>3. CASE EndLoop \/ BeginDestroy \/ EndDestroy \/ EndFrame
    <3>1. loc' \notin {"loop", "update"} /\ pushing' = {}
      BY <2>3 DEF EndLoop, BeginDestroy, EndDestroy, EndFrame, Idle, world
    <3> QED BY <3>1 DEF OrderInv
  <2>4. CASE (\E o \in Objects : destroyObject(o) \/ processDestroyList(o)) \/ UNCHANGED vars
    <3>1. UNCHANGED <<frame, loc, cur, last, pushing>>
      BY <2>4 DEF destroyObject, processDestroyList, clock, vars
    <3> QED BY <1>0, <2>0, <3>1, SameOrder
  <2> QED BY <1>2, <2>1, <2>2, <2>3, <2>4 DEF Quiet
<1>3. CASE Requeued
  <2>1. /\ heap[1] \in Modules /\ next'[heap[1]] > frame
        /\ \A v \in Modules : v # heap[1] => next'[v] = next[v]
        /\ pushing' = {} /\ loc \in {"loop", "update"} /\ index' = index
        /\ UNCHANGED <<frame, last>>
    BY <1>3, RequeuedKeeps
  <2>2. next' \in [Modules -> 0..Forever]
    BY TypeStep DEF TypeOK
  <2>3. ASSUME NEW u \in Modules, index[u] # 0 PROVE 4 * next'[u] + Phase[u] >= last
    <3>1. CASE u = heap[1]
      <4>1. next'[u] \in Nat /\ next'[u] > frame /\ last <= 4 * frame + 3
        BY <2>1, <2>2, <3>1, FrameAssumption DEF OrderInv
      <4> QED BY <4>1, <1>0
    <3>2. CASE u # heap[1]
      BY <1>0, <2>1, <2>3, <3>2 DEF Scheduled
    <3> QED BY <3>1, <3>2
  <2>4. last <= 4 * frame + 3
    BY <2>1 DEF OrderInv
  <2> QED BY <2>1, <2>3, <2>4 DEF OrderInv, Scheduled, friend_getPriority
<1>4. ASSUME NEW o \in Objects, NEW d \in [ModulesOf(o) -> Delays \cup {0}], registerObject(o, d)
      PROVE  OrderInv'
  <2>1. /\ pushing' = ModulesOf(o) /\ UNCHANGED <<index, frame, loc, cur, last>>
        /\ \A u \in Scheduled : next'[u] = next[u]
        /\ \A u \in ModulesOf(o) : (next'[u] = 0 /\ MayBeDueNow(u)) \/ next'[u] > frame
    BY <1>4, RegisterKeeps DEF clock
  <2>2. \A u \in pushing' : (next'[u] = 0 /\ MayBeDueNow(u)') \/ next'[u] > frame'
    BY <2>1 DEF MayBeDueNow, MayAskForNow
  <2>3. loc' \in {"loop", "update"} =>
           last' <= 4 * frame' + 3 /\ \A u \in Scheduled' : 4 * next'[u] + Phase[u] >= last'
    BY <1>0, <2>1 DEF OrderInv, Scheduled
  <2> QED BY <2>2, <2>3 DEF OrderInv, friend_getPriority
<1>5. ASSUME NEW u \in Modules, NEW d \in Delays \cup {0}, friend_awakenUpdateModule(u, d)
      PROVE  OrderInv'
  <2>1. /\ UNCHANGED <<index, frame, loc, cur, last, pushing>> /\ pushing = {} /\ loc # "loop"
        /\ next' \in [Modules -> 0..Forever]
        /\ \A v \in Modules : v # u => next'[v] = next[v]
        /\ next'[u] > frame \/ (next'[u] = frame /\ MayBeDueNow(u))
    BY <1>5, AwakenNext DEF friend_awakenUpdateModule, OthersRun, DestructorsRun, Idle
  <2>2. loc = "update" => 4 * next'[u] + Phase[u] >= last
    <3>1. next'[u] \in Nat
      BY <2>1, FrameAssumption
    <3> QED BY <2>1, <3>1, NotAhead
  <2>3. loc \in {"loop", "update"} => \A v \in Scheduled' : 4 * next'[v] + Phase[v] >= last
    BY <1>0, <2>1, <2>2 DEF Scheduled
  <2> QED BY <2>1, <2>3, SameOrder
<1>6. CASE loadPostProcess
  <2>1. loc = "before" /\ pushing = {} /\ UNCHANGED <<loc, pushing>>
    BY <1>6 DEF loadPostProcess, Idle, clock, world
  <2> QED BY <2>1 DEF OrderInv
<1>7. ASSUME NEW u \in pushing, pushSleepyUpdate(u) PROVE OrderInv'
  <2>1. /\ UNCHANGED <<frame, loc, cur, last>> /\ pushing' = pushing \ {u}
        /\ \A v \in Modules : v # u => next'[v] = next[v]
        /\ loc # "loop"
    BY <1>7, PushNext DEF EnteredInv
  <2>2. \A v \in Modules : index'[v] # 0 <=> (index[v] # 0 \/ v = u)
    BY <1>7, PushKeeps
  <2>3. loc = "update" => 4 * next'[u] + Phase[u] >= last
    BY <1>7, <2>1, Entered, NotAhead
  <2>4. loc \in {"loop", "update"} => \A v \in Scheduled' : 4 * next'[v] + Phase[v] >= last
    BY <1>0, <2>1, <2>2, <2>3 DEF Scheduled
  <2>5. \A v \in pushing' : v \in pushing /\ next'[v] = next[v]
    BY <2>1 DEF TypeOK
  <2> QED BY <2>1, <2>4, <2>5, SameOrder
<1>8. ASSUME NEW u \in erasing, eraseSleepyUpdate(u) PROVE OrderInv'
  <2>1. loc = "destroy" /\ pushing = {} /\ UNCHANGED <<loc, pushing>>
    BY <1>8, EraseNext DEF EnteredInv
  <2> QED BY <2>1 DEF OrderInv
<1> QED BY <1>1, <1>2, <1>3, <1>4, <1>5, <1>6, <1>7, <1>8, Steps, AsideSteps

(* The frame in which, or after which, every scheduled module is due. *)
Deadline == IF AfterLoop THEN frame + 1 ELSE frame

LEMMA SameDeadline ==
  ASSUME IInv, Deadline' = Deadline, late' = late,
         \A u \in Scheduled' : u \in Scheduled /\ next'[u] = next[u]
  PROVE  OnTime'
BY DEF IInv, OnTime, Deadline

(* What comes later in the order is not due in an earlier frame. *)
LEMMA FrameFirst ==
  ASSUME NEW a \in Nat, NEW b \in Nat, NEW x \in 0..3, NEW y \in 0..3, NEW f \in Nat,
         4 * a + x <= 4 * b + y, a >= f
  PROVE  b >= f
OBVIOUS

LEMMA OnTimeStep ==
  ASSUME IInv, [Next]_vars
  PROVE  OnTime'
<1> USE DEF IInv
<1>0. /\ frame \in Nat
      /\ \A u \in Modules : next[u] \in Nat
      /\ Deadline = IF loc \in {"after", "destroy", "tail"} THEN frame + 1 ELSE frame
      /\ \A u \in Scheduled : next[u] >= Deadline \/ (u \in late /\ next[u] + 1 >= Deadline)
  BY Numbers, FrameAssumption DEF OnTime, Deadline, AfterLoop
<1>n. next' \in [Modules -> 0..Forever] /\ \A u \in Modules : next'[u] \in Nat
  BY TypeStep, FrameAssumption DEF TypeOK
<1>1. CASE Rebalancing
  <2>1. UNCHANGED <<next, frame, loc, late>> /\ Scheduled' = Scheduled
    BY <1>1, SiftKeeps DEF clock
  <2> QED BY <2>1, SameDeadline DEF Deadline, AfterLoop
<1>2. CASE Quiet
  <2>0. UNCHANGED <<heap, index, next>> /\ Scheduled' = Scheduled
    BY <1>2 DEF Quiet, heapVars, Scheduled
  <2>1. CASE BeginLoop \/ CallUpdate \/ BeginDestroy \/ EndDestroy
    <3>1. /\ UNCHANGED <<frame, late>>
          /\ loc \in {"after", "destroy", "tail"} <=> loc' \in {"after", "destroy", "tail"}
      BY <2>1 DEF BeginLoop, CallUpdate, RootIsDue, BeginDestroy, EndDestroy
    <3> QED BY <2>0, <3>1, SameDeadline DEF Deadline, AfterLoop
  <2>2. CASE (\E o \in Objects : destroyObject(o) \/ processDestroyList(o)) \/ UNCHANGED vars
    <3>1. UNCHANGED <<frame, loc, late>>
      BY <2>2 DEF destroyObject, processDestroyList, clock, vars
    <3> QED BY <2>0, <3>1, SameDeadline DEF Deadline, AfterLoop
  <2>3. CASE EndLoop
    <3>1. /\ mode = "idle" /\ loc' = "after" /\ frame' = frame
          /\ heap # <<>> => next[heap[1]] > frame
      BY <2>3 DEF EndLoop, Idle
    <3>2. ASSUME NEW u \in Scheduled PROVE next[u] >= frame + 1
      <4>1. /\ heap # <<>> /\ heap[1] \in Modules /\ u \in Modules
            /\ friend_getPriority(heap[1]) <= friend_getPriority(u)
        BY <3>1, NextIsRoot DEF Scheduled
      <4>2. next[heap[1]] >= frame + 1 /\ next[heap[1]] \in Nat /\ next[u] \in Nat
        BY <1>0, <3>1, <4>1
      <4>3. Phase[heap[1]] \in 0..3 /\ Phase[u] \in 0..3
        BY <4>1, PhaseAssumption
      <4>4. 4 * next[heap[1]] + Phase[heap[1]] <= 4 * next[u] + Phase[u]
        BY <4>1 DEF friend_getPriority
      <4> QED BY <1>0, <4>2, <4>3, <4>4, FrameFirst
    <3> QED BY <2>0, <3>1, <3>2 DEF OnTime, AfterLoop
  <2>4. CASE EndFrame
    <3>1. loc = "tail" /\ loc' = "before" /\ frame' = frame + 1 /\ late' = late
      BY <2>4 DEF EndFrame
    <3>2. Deadline' = Deadline
      BY <3>1 DEF Deadline, AfterLoop
    <3> QED BY <2>0, <3>1, <3>2, SameDeadline
  <2> QED BY <1>2, <2>1, <2>2, <2>3, <2>4 DEF Quiet
<1>3. CASE Requeued
  <2>1. /\ heap[1] \in Modules /\ next'[heap[1]] > frame
        /\ \A v \in Modules : v # heap[1] => next'[v] = next[v]
        /\ loc \in {"loop", "update"} /\ loc' = "loop" /\ late' = late \ {heap[1]}
        /\ UNCHANGED <<index, frame>>
    BY <1>3, RequeuedKeeps
  <2>2. ASSUME NEW u \in Modules, index[u] # 0
        PROVE  next'[u] >= frame \/ (u \in late' /\ next'[u] + 1 >= frame)
    <3>1. CASE u = heap[1]
      BY <1>0, <1>n, <2>1, <3>1
    <3>2. CASE u # heap[1]
      BY <1>0, <2>1, <2>2, <3>2 DEF Scheduled
    <3> QED BY <3>1, <3>2
  <2> QED BY <2>1, <2>2 DEF OnTime, Scheduled, AfterLoop
<1>4. ASSUME NEW o \in Objects, NEW d \in [ModulesOf(o) -> Delays \cup {0}], registerObject(o, d)
      PROVE  OnTime'
  <2>1. UNCHANGED <<index, frame, loc, late>> /\ \A u \in Scheduled : next'[u] = next[u]
    BY <1>4, RegisterKeeps DEF clock
  <2> QED BY <2>1, SameDeadline DEF Scheduled, Deadline, AfterLoop
<1>5. ASSUME NEW u \in Modules, NEW d \in Delays \cup {0}, friend_awakenUpdateModule(u, d)
      PROVE  OnTime'
  <2>1. /\ UNCHANGED <<index, frame, loc>> /\ next'[u] >= frame
        /\ (d # 0 => next'[u] > frame) /\ (d = 0 => next'[u] = frame)
        /\ \A v \in Modules : v # u => next'[v] = next[v]
        /\ late' = IF AfterLoop /\ d = 0 THEN late \cup {u} ELSE late \ {u}
    BY <1>5, AwakenNext DEF friend_awakenUpdateModule
  <2>2. ASSUME NEW v \in Modules, index[v] # 0
        PROVE  next'[v] >= Deadline \/ (v \in late' /\ next'[v] + 1 >= Deadline)
    <3>1. CASE v = u
      <4>1. CASE AfterLoop
        BY <1>0, <1>n, <2>1, <3>1, <4>1 DEF AfterLoop
      <4>2. CASE ~AfterLoop
        BY <1>0, <1>n, <2>1, <3>1, <4>2 DEF AfterLoop
      <4> QED BY <4>1, <4>2
    <3>2. CASE v # u
      BY <1>0, <2>1, <2>2, <3>2 DEF Scheduled
    <3> QED BY <3>1, <3>2
  <2> QED BY <2>1, <2>2 DEF OnTime, Scheduled, AfterLoop, Deadline
<1>6. CASE loadPostProcess
  <2>1. UNCHANGED <<next, frame, loc, late>>
    BY <1>6 DEF loadPostProcess, clock
  <2>2. Scheduled' = Scheduled
    BY <1>6, LoadKeeps DEF Scheduled
  <2> QED BY <2>1, <2>2, SameDeadline DEF Deadline, AfterLoop
<1>7. ASSUME NEW u \in pushing, pushSleepyUpdate(u) PROVE OnTime'
  <2>1. /\ UNCHANGED <<frame, loc>> /\ u \in Modules
        /\ \A v \in Modules : v # u => next'[v] = next[v]
        /\ late' = IF AfterLoop /\ next'[u] = frame THEN late \cup {u} ELSE late
    BY <1>7, PushNext DEF pushSleepyUpdate
  <2>2. \A v \in Modules : index'[v] # 0 <=> (index[v] # 0 \/ v = u)
    BY <1>7, PushKeeps
  <2>3. next'[u] \in Nat /\ next'[u] >= frame
    BY <1>7, Entered
  <2>4. ASSUME NEW v \in Modules, index'[v] # 0
        PROVE  next'[v] >= Deadline \/ (v \in late' /\ next'[v] + 1 >= Deadline)
    <3>1. CASE v = u
      <4>1. CASE AfterLoop
        BY <1>0, <2>1, <2>3, <3>1, <4>1 DEF AfterLoop
      <4>2. CASE ~AfterLoop
        BY <1>0, <2>1, <2>3, <3>1, <4>2 DEF AfterLoop
      <4> QED BY <4>1, <4>2
    <3>2. CASE v # u
      <4>1. v \in Scheduled
        BY <2>2, <2>4, <3>2 DEF Scheduled
      <4>2. late \subseteq late'
        BY <2>1
      <4> QED BY <1>0, <2>1, <3>2, <4>1, <4>2
    <3> QED BY <3>1, <3>2
  <2> QED BY <2>1, <2>4 DEF OnTime, Scheduled, AfterLoop, Deadline
<1>8. ASSUME NEW u \in erasing, eraseSleepyUpdate(u) PROVE OnTime'
  <2>1. /\ UNCHANGED <<frame, loc>> /\ late' = late \ {u}
        /\ \A v \in Modules : v # u => next'[v] = next[v]
    BY <1>8, EraseNext
  <2>2. \A v \in Modules : index'[v] # 0 <=> (index[v] # 0 /\ v # u)
    BY <1>8, EraseKeeps
  <2>3. ASSUME NEW v \in Modules, index'[v] # 0
        PROVE  next'[v] >= Deadline \/ (v \in late' /\ next'[v] + 1 >= Deadline)
    <3>1. v \in Scheduled /\ v # u
      BY <2>2, <2>3 DEF Scheduled
    <3> QED BY <1>0, <2>1, <3>1
  <2> QED BY <2>1, <2>3 DEF OnTime, Scheduled, AfterLoop, Deadline
<1> QED BY <1>1, <1>2, <1>3, <1>4, <1>5, <1>6, <1>7, <1>8, Steps, AsideSteps

-----------------------------------------------------------------------------
(* The theorems. *)

LEMMA InitInv == Init => IInv
<1> SUFFICES ASSUME Init PROVE IInv
  OBVIOUS
<1>1. /\ heap = <<>> /\ index = [u \in Modules |-> 0] /\ next = [u \in Modules |-> 0]
      /\ mode = "idle" /\ pos = 1 /\ low = 1 /\ frame = 0 /\ loc = "before" /\ cur = None
      /\ inList = {} /\ doomed = {} /\ pushing = {} /\ erasing = {} /\ last = 0 /\ late = {}
  BY DEF Init
<1>2. heap \in Seq(Modules) /\ Len(heap) = 0 /\ DOMAIN heap = {}
  BY <1>1
<1>3. Scheduled = {}
  BY <1>1 DEF Scheduled
<1>4. index \in [Modules -> 0..Len(heap)] /\ next \in [Modules -> 0..Forever] /\ frame \in 0..MaxFrame
  BY <1>1, <1>2, FrameAssumption
<1>5. TypeOK
  BY <1>1, <1>2, <1>4 DEF TypeOK
<1>6. IndexMatches /\ OnTime
  BY <1>2, <1>3 DEF IndexMatches, OnTime
<1>7. EngineInv /\ EnteredInv /\ CurInv /\ OrderInv
  BY <1>1 DEF EngineInv, EnteredInv, CurInv, OrderInv
<1>8. HeapInv
  <2>1. 2..Len(heap) = {}
    BY <1>2
  <2> QED BY <1>1, <2>1 DEF HeapInv, Heaped
<1> QED BY <1>5, <1>6, <1>7, <1>8 DEF IInv

(* The heap, the timetable it stands for and the loop that works through   *)
(* it keep the inductive invariant.                                        *)
THEOREM Invariant == Spec => []IInv
<1>1. IInv /\ [Next]_vars => IInv'
  <2> SUFFICES ASSUME IInv, [Next]_vars PROVE IInv'
    OBVIOUS
  <2>1. TypeOK' /\ IndexMatches'
    BY TypeStep, IndexStep DEF IInv
  <2> QED BY <2>1, EngineStep, EnteredStep, HeapStep, CurStep, OrderStep, OnTimeStep DEF IInv
<1> QED BY <1>1, InitInv, PTL DEF Spec

(* The variables keep their types. *)
THEOREM TypeCorrect == Spec => []TypeOK
BY Invariant, PTL DEF IInv

(* Every scheduled module knows where it is in the heap. *)
THEOREM PositionsAgree == Spec => []IndexMatches
BY Invariant, PTL DEF IInv

(* Between operations the list of update modules is a heap. *)
THEOREM HeapStaysOrdered == Spec => []HeapOrdered
<1>1. IInv => HeapOrdered
  <2> SUFFICES ASSUME IInv, mode = "idle", NEW p \in 2..Len(heap)
               PROVE  ~isLowerPriority(heap[p \div 2], heap[p])
    BY DEF HeapOrdered
  <2>1. TypeOK /\ Pris[p \div 2] <= Pris[p]
    BY DEF IInv, HeapInv, Heaped
  <2>2. p \in 1..Len(heap) /\ p \div 2 \in 1..Len(heap)
    <3>1. Len(heap) \in Nat
      BY <2>1, Members
    <3> QED BY <3>1, Parent
  <2>3. Pris[p] \in Nat /\ Pris[p \div 2] \in Nat
    BY <2>1, <2>2, PrisType
  <2> QED BY <2>1, <2>2, <2>3, Lower
<1> QED BY <1>1, Invariant, PTL

(* Nothing displaces the module that is being updated from the root. *)
THEOREM RootIsCurrent == Spec => []CurrentIsRoot
<1>1. IInv => CurrentIsRoot
  BY DEF IInv, CurInv, CurrentIsRoot
<1> QED BY <1>1, Invariant, PTL

(* No module sleeps through the frame it is due in. *)
THEOREM NoneSleepsThrough == Spec => []OnTime
BY Invariant, PTL DEF IInv

LEMMA CallIsNext ==
  ASSUME IInv, CallUpdate
  PROVE  last' >= last
<1> USE DEF IInv
<1>1. loc = "loop" /\ heap # <<>> /\ last' = friend_getPriority(heap[1])
  BY DEF CallUpdate, RootIsDue
<1>2. heap[1] \in Scheduled
  BY <1>1, Members DEF IndexMatches, Scheduled
<1> QED BY <1>1, <1>2 DEF OrderInv

(* Within a frame modules are called in the order of frame and phase. *)
THEOREM InOrder == Spec => CallsInOrder
<1>1. IInv /\ [Next]_vars => [loc = "loop" /\ loc' = "update" => last' >= last]_vars
  <2> SUFFICES ASSUME IInv, [Next]_vars, loc = "loop", loc' = "update" PROVE last' >= last
    OBVIOUS
  <2>1. loc' # loc
    OBVIOUS
  <2>2. CallUpdate
    <3>1. CASE Rebalancing
      BY <3>1, <2>1, SiftKeeps DEF IInv, clock
    <3>2. CASE Quiet
      BY <3>2, <2>1 DEF Quiet, BeginLoop, EndLoop, BeginDestroy, EndDestroy, EndFrame,
                        destroyObject, processDestroyList, clock, vars
    <3>3. CASE Requeued
      BY <3>3, RequeuedKeeps
    <3>4. ASSUME NEW o \in Objects, NEW d \in [ModulesOf(o) -> Delays \cup {0}],
                 registerObject(o, d)
          PROVE  CallUpdate
      BY <3>4, <2>1 DEF registerObject, clock
    <3>5. ASSUME NEW u \in Modules, NEW d \in Delays \cup {0}, friend_awakenUpdateModule(u, d)
          PROVE  CallUpdate
      BY <3>5, <2>1 DEF friend_awakenUpdateModule
    <3>6. CASE loadPostProcess
      BY <3>6, <2>1 DEF loadPostProcess, clock
    <3>7. ASSUME NEW u \in Modules, pushSleepyUpdate(u) \/ eraseSleepyUpdate(u) PROVE CallUpdate
      BY <3>7, <2>1 DEF pushSleepyUpdate, eraseSleepyUpdate
    <3>8. pushing \subseteq Modules /\ erasing \subseteq Modules
      BY DEF IInv, TypeOK
    <3> QED BY <3>1, <3>2, <3>3, <3>4, <3>5, <3>6, <3>7, <3>8, Steps, AsideSteps
  <2> QED BY <2>2, CallIsNext
<1> QED BY <1>1, Invariant, PTL DEF Spec, CallsInOrder

-----------------------------------------------------------------------------
(* The update list implements the timetable. *)

LEMMA SameTimetable ==
  ASSUME UNCHANGED <<frame, cur>>, Scheduled' = Scheduled,
         \A u \in Scheduled : next'[u] = next[u]
  PROVE  UNCHANGED Abstract!sVars
<1>1. [u \in Scheduled |-> next[u]]' = [u \in Scheduled |-> next[u]]
  OBVIOUS
<1> QED BY <1>1 DEF Abstract!sVars

(* In the loop the root, if it is due, is the next module of the timetable. *)
LEMMA RootIsNext ==
  ASSUME IInv, RootIsDue
  PROVE  Abstract!IsNext(heap[1]) /\ heap[1] \in Scheduled
<1> USE DEF IInv
<1>1. mode = "idle" /\ loc = "loop" /\ heap # <<>> /\ next[heap[1]] <= frame
  BY DEF RootIsDue, Idle
<1>2. cur = None
  BY <1>1 DEF CurInv
<1>3. heap[1] \in Scheduled
  BY <1>1, Members DEF IndexMatches, Scheduled
<1>4. \A v \in Scheduled : 4 * next[heap[1]] + Phase[heap[1]] <= 4 * next[v] + Phase[v]
  BY <1>1, NextIsRoot DEF friend_getPriority
<1> QED BY <1>1, <1>2, <1>3, <1>4 DEF Abstract!IsNext, Abstract!Before

LEMMA QuietMaps ==
  ASSUME IInv, Quiet
  PROVE  Abstract!SNext \/ UNCHANGED Abstract!sVars
<1> USE DEF IInv
<1>0. UNCHANGED <<heap, index, next>> /\ Scheduled' = Scheduled
  BY DEF Quiet, heapVars, Scheduled
<1>1. CASE CallUpdate
  <2>1. RootIsDue /\ cur' = heap[1] /\ UNCHANGED frame
    BY <1>1 DEF CallUpdate
  <2>2. Abstract!IsNext(heap[1]) /\ heap[1] \in Modules
    BY <2>1, RootIsNext DEF Scheduled
  <2>3. [u \in Scheduled |-> next[u]]' = [u \in Scheduled |-> next[u]]
    BY <1>0
  <2>4. Abstract!Start(heap[1])
    BY <2>1, <2>2, <2>3 DEF Abstract!Start
  <2> QED BY <2>2, <2>4 DEF Abstract!SNext
<1>2. CASE EndFrame
  <2>1. loc = "tail" /\ cur' = cur /\ frame' = frame + 1 /\ cur = None
    BY <1>2 DEF EndFrame, CurInv
  <2>2. \A u \in Scheduled : next[u] >= frame
    <3>1. \A u \in Modules : next[u] \in Nat
      BY Numbers, FrameAssumption
    <3>2. frame \in Nat
      BY Numbers
    <3> QED BY <2>1, <3>1, <3>2 DEF OnTime, AfterLoop, Scheduled
  <2>3. [u \in Scheduled |-> next[u]]' = [u \in Scheduled |-> next[u]]
    BY <1>0
  <2>4. Abstract!Tick
    BY <2>1, <2>2, <2>3 DEF Abstract!Tick
  <2> QED BY <2>4 DEF Abstract!SNext
<1>3. CASE ~CallUpdate /\ ~EndFrame
  <2>1. UNCHANGED <<frame, cur>>
    BY <1>3 DEF Quiet, BeginLoop, EndLoop, BeginDestroy, EndDestroy, destroyObject,
                processDestroyList, clock, vars
  <2> QED BY <1>0, <2>1, SameTimetable
<1> QED BY <1>1, <1>2, <1>3

LEMMA TimetableSteps ==
  ASSUME NEW u \in Modules, NEW f \in 0..Forever
  PROVE  /\ Abstract!Insert(u, f) => Abstract!SNext
         /\ Abstract!Change(u, f) => Abstract!SNext
         /\ Abstract!Finish(u, f) => Abstract!SNext
         /\ Abstract!Delete(u) => Abstract!SNext
BY Zenon DEF Abstract!SNext

LEMMA RequeuedStep ==
  ASSUME Requeued
  PROVE  [Next]_vars
BY DEF Requeued, Next, Return, Loop

LEMMA RequeuedMaps ==
  ASSUME IInv, Requeued
  PROVE  Abstract!SNext
<1> USE DEF IInv
<1>1. /\ heap[1] \in Modules /\ next'[heap[1]] > frame
      /\ \A v \in Modules : v # heap[1] => next'[v] = next[v]
      /\ index' = index /\ cur' = None /\ frame' = frame
  BY RequeuedKeeps
<1>2. next' \in [Modules -> 0..Forever]
  BY RequeuedStep, TypeStep DEF TypeOK
<1>3. PICK u \in Modules : u = heap[1]
  BY <1>1
<1>4. PICK f \in 0..Forever : f = next'[u]
  BY <1>2
<1>5. Abstract!IsNext(heap[1]) \/ (cur = heap[1] /\ heap[1] \in Scheduled)
  <2>1. CASE SkipDisabled
    BY <2>1, RootIsNext DEF SkipDisabled
  <2>2. ASSUME NEW d \in Delays \cup {0}, ReturnFromUpdate(d)
        PROVE  cur = heap[1] /\ heap[1] \in Scheduled
    <3>1. cur # None
      BY <2>2 DEF ReturnFromUpdate, CurInv
    <3>2. heap # <<>> /\ heap[1] = cur
      BY <3>1 DEF CurInv
    <3> QED BY <3>2, Members DEF IndexMatches, Scheduled
  <2> QED BY <2>1, <2>2 DEF Requeued
<1>6. /\ u \in Scheduled
      /\ cur = None \/ cur = u
      /\ cur = u \/ (next[u] <= frame /\ \A v \in Scheduled : 4 * next[u] + Phase[u] <= 4 * next[v] + Phase[v])
  BY <1>3, <1>5 DEF Abstract!IsNext, Abstract!Before
<1>7. [v \in Scheduled |-> next[v]]' = [[v \in Scheduled |-> next[v]] EXCEPT ![u] = f]
  BY <1>1, <1>3, <1>4, <1>6 DEF Scheduled
<1>8. Abstract!IsNext(u) \/ (cur = u /\ u \in DOMAIN [v \in Scheduled |-> next[v]])
  <2>1. CASE cur = u
    BY <2>1, <1>6
  <2>2. CASE cur # u
    BY <2>2, <1>6 DEF Abstract!IsNext, Abstract!Before
  <2> QED BY <2>1, <2>2
<1>9. f > frame /\ cur' = None /\ frame' = frame
  BY <1>1, <1>3, <1>4
<1>10. Abstract!Finish(u, f)
  BY <1>7, <1>8, <1>9 DEF Abstract!Finish
<1> QED BY <1>10, TimetableSteps

LEMMA AwakenMaps ==
  ASSUME IInv, NEW u \in Modules, NEW d \in Delays \cup {0}, friend_awakenUpdateModule(u, d)
  PROVE  Abstract!SNext
<1> USE DEF IInv
<1>1. /\ next' \in [Modules -> 0..Forever] /\ next'[u] >= frame /\ index[u] \in 1..Len(heap)
      /\ \A v \in Modules : v # u => next'[v] = next[v]
      /\ UNCHANGED <<index, frame, cur>>
  BY AwakenNext
<1>2. u # cur
  BY DEF friend_awakenUpdateModule
<1>3. u \in Scheduled
  BY <1>1 DEF Scheduled
<1>4. PICK f \in 0..Forever : f = next'[u]
  BY <1>1
<1>5. [v \in Scheduled |-> next[v]]' = [[v \in Scheduled |-> next[v]] EXCEPT ![u] = f]
  BY <1>1, <1>3, <1>4 DEF Scheduled
<1>6. Abstract!Change(u, f)
  BY <1>1, <1>2, <1>3, <1>4, <1>5 DEF Abstract!Change
<1> QED BY <1>6, TimetableSteps

LEMMA PushMaps ==
  ASSUME IInv, NEW u \in pushing, pushSleepyUpdate(u)
  PROVE  Abstract!SNext
<1> USE DEF IInv
<1>1. /\ u \in Modules /\ next' \in [Modules -> 0..Forever]
      /\ \A v \in Modules : v # u => next'[v] = next[v]
      /\ UNCHANGED <<frame, cur>>
  BY PushNext
<1>2. PICK f \in 0..Forever : f = next'[u]
  BY <1>1
<1>3. f >= frame
  BY <1>2, Entered
<1>4. index[u] = 0 /\ \A v \in Modules : index'[v] # 0 <=> (index[v] # 0 \/ v = u)
  BY PushKeeps
<1>5. u \notin Scheduled /\ Scheduled' = Scheduled \cup {u}
  BY <1>1, <1>4 DEF Scheduled
<1>6. [v \in Scheduled |-> next[v]]'
      = [v \in (DOMAIN [w \in Scheduled |-> next[w]]) \cup {u} |->
           IF v = u THEN f ELSE [w \in Scheduled |-> next[w]][v]]
  BY <1>1, <1>2, <1>5 DEF Scheduled
<1>7. Abstract!Insert(u, f)
  BY <1>1, <1>3, <1>5, <1>6 DEF Abstract!Insert
<1> QED BY <1>1, <1>7, TimetableSteps

LEMMA EraseMaps ==
  ASSUME IInv, NEW u \in erasing, eraseSleepyUpdate(u)
  PROVE  Abstract!SNext
<1> USE DEF IInv
<1>1. /\ u \in Modules /\ index[u] \in 1..Len(heap)
      /\ \A v \in Modules : v # u => next'[v] = next[v]
      /\ UNCHANGED <<frame, cur, loc>>
      /\ \A v \in Modules : index'[v] # 0 <=> (index[v] # 0 /\ v # u)
  BY EraseNext, EraseKeeps
<1>2. cur = None
  BY DEF EnteredInv, CurInv
<1>3. u \in Scheduled /\ Scheduled' = Scheduled \ {u}
  BY <1>1 DEF Scheduled
<1>4. [v \in Scheduled |-> next[v]]'
      = [v \in (DOMAIN [w \in Scheduled |-> next[w]]) \ {u} |-> [w \in Scheduled |-> next[w]][v]]
  BY <1>1, <1>3 DEF Scheduled
<1>5. PICK w \in Modules : w = u
  BY <1>1
<1>6. Abstract!Delete(w)
  BY <1>1, <1>2, <1>3, <1>4, <1>5 DEF Abstract!Delete
<1>7. PICK f \in 0..Forever : f = 0
  BY FrameAssumption
<1> QED BY <1>6, TimetableSteps

(* The heap under the update loop implements Scheduler. *)
THEOREM KeepsTimetable == Spec => Timetable
<1>1. Init => Abstract!SInit
  <2> SUFFICES ASSUME Init PROVE Abstract!SInit
    OBVIOUS
  <2>1. Scheduled = {} /\ frame = 0 /\ cur = None
    BY DEF Init, Scheduled
  <2>2. [u \in Scheduled |-> next[u]] = [u \in {} |-> 0]
    BY <2>1
  <2> QED BY <2>1, <2>2 DEF Abstract!SInit
<1>2. IInv /\ [Next]_vars => [Abstract!SNext]_Abstract!sVars
  <2> SUFFICES ASSUME IInv, [Next]_vars PROVE Abstract!SNext \/ UNCHANGED Abstract!sVars
    OBVIOUS
  <2>1. CASE Rebalancing
    <3>1. UNCHANGED <<next, frame, cur>> /\ Scheduled' = Scheduled
      BY <2>1, SiftKeeps DEF IInv, clock
    <3> QED BY <3>1, SameTimetable
  <2>2. ASSUME NEW o \in Objects, NEW d \in [ModulesOf(o) -> Delays \cup {0}],
               registerObject(o, d)
        PROVE  UNCHANGED Abstract!sVars
    <3>1. UNCHANGED <<frame, cur, index>> /\ \A u \in Scheduled : next'[u] = next[u]
      BY <2>2, RegisterKeeps DEF clock
    <3> QED BY <3>1, SameTimetable DEF Scheduled
  <2>3. CASE loadPostProcess
    <3>1. UNCHANGED <<next, frame, cur>> /\ Scheduled' = Scheduled
      BY <2>3, LoadKeeps DEF loadPostProcess, IInv, clock, Scheduled
    <3> QED BY <3>1, SameTimetable
  <2> QED BY <2>1, <2>2, <2>3, QuietMaps, RequeuedMaps, AwakenMaps, PushMaps, EraseMaps,
             Steps, AsideSteps
<1> QED BY <1>1, <1>2, Invariant, PTL DEF Spec, Timetable, Abstract!SSpec
=============================================================================
