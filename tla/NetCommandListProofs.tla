------------------------ MODULE NetCommandListProofs ------------------------
(***************************************************************************)
(* Proofs about NetCommandList, for lists of any length and any set of     *)
(* numbered commands: what the data of a frame are made of.                *)
(*                                                                         *)
(* The argument: in a sorted list the three loops of the search stop where *)
(* everything behind is smaller than the command and the command there is  *)
(* not (SearchSplits), and the place after the cursor, when it is taken,   *)
(* splits the list in the same way (Splits).  The one command compared     *)
(* with the new one is then the only one it can be equal to, so a command  *)
(* is refused just when it is there already, and otherwise goes between    *)
(* the smaller and the greater ones.  So the list stays strictly sorted,   *)
(* and a strictly sorted sequence is determined by what it holds           *)
(* (OneOrder): at the first place where two differ, each would have to     *)
(* hold the other's command further on.                                    *)
(***************************************************************************)
EXTENDS NetCommandList, TLAPS, WellFoundedInduction, SequenceTheorems

(* The commands of a frame: all of them have command IDs, and a player     *)
(* never uses an ID for two commands.  Acks, which do not, are sorted by   *)
(* less than what tells them apart.                                        *)
CommandsAreNumbered ==
  /\ \A c \in Commands : ~IsAck(c) /\ NeedsID(c.type)
  /\ \A c, d \in Commands : c.player = d.player /\ c.id = d.id => c = d

-----------------------------------------------------------------------------
(* Sequences and numbers. *)

(* A set of naturals has a least element. *)
LEMMA Least ==
  ASSUME NEW T, T \subseteq Nat, T # {}
  PROVE  \E x \in T : \A y \in T : x <= y
<1> DEFINE R == OpToRel(<, Nat)
<1>1. IsWellFoundedOn(R, Nat)
  BY NatLessThanWellFounded, Zenon
<1>2. PICK x \in T : \A y \in T : ~(<<y, x>> \in R)
  <2> HIDE DEF R
  <2> QED BY <1>1, WFMin
<1>3. \A y \in T : ~(y < x)
  BY <1>2 DEF OpToRel
<1> QED BY <1>3

(* What InsertAt returns. *)
LEMMA Inserted ==
  ASSUME NEW S, NEW s \in Seq(S), NEW i \in 1..Len(s) + 1, NEW e \in S
  PROVE  /\ InsertAt(s, i, e) \in Seq(S)
         /\ Len(InsertAt(s, i, e)) = Len(s) + 1
         /\ \A k \in 1..i - 1 : InsertAt(s, i, e)[k] = s[k]
         /\ InsertAt(s, i, e)[i] = e
         /\ \A k \in i..Len(s) : InsertAt(s, i, e)[k + 1] = s[k]
<1> DEFINE a == SubSeq(s, 1, i - 1)
           b == SubSeq(s, i, Len(s))
           m == a \o <<e>>
<1>0. Len(s) \in Nat /\ \A k \in 1..Len(s) : s[k] \in S
  BY LenProperties, ElementOfSeq
<1>1. /\ a \in Seq(S) /\ Len(a) = i - 1
      /\ \A k \in 1..i - 1 : a[k] = s[k]
  <2>1. \A k \in 1..i - 1 : s[k] \in S
    BY <1>0
  <2>2. /\ a \in Seq(S)
        /\ Len(a) = IF 1 <= i - 1 THEN i - 1 - 1 + 1 ELSE 0
        /\ \A k \in 1..i - 1 - 1 + 1 : a[k] = s[1 + k - 1]
    <3> HIDE DEF a
    <3> QED BY <2>1, SubSeqProperties, <1>0 DEF a
  <2> QED BY <2>2
<1>2. /\ b \in Seq(S) /\ Len(b) = Len(s) - i + 1
      /\ \A k \in 1..Len(s) - i + 1 : b[k] = s[i + k - 1]
  <2>1. \A k \in i..Len(s) : s[k] \in S
    BY <1>0
  <2>2. /\ b \in Seq(S)
        /\ Len(b) = IF i <= Len(s) THEN Len(s) - i + 1 ELSE 0
        /\ \A k \in 1..Len(s) - i + 1 : b[k] = s[i + k - 1]
    BY <2>1, SubSeqProperties, <1>0
  <2> QED BY <2>2, <1>0
<1>3. <<e>> \in Seq(S) /\ Len(<<e>>) = 1 /\ <<e>>[1] = e
  OBVIOUS
<1> HIDE DEF a, b
<1>4. /\ m \in Seq(S) /\ Len(m) = i
      /\ \A k \in 1..i : m[k] = IF k < i THEN s[k] ELSE e
  <2>1. /\ m \in Seq(S) /\ Len(m) = Len(a) + 1
        /\ \A k \in 1..Len(a) + 1 : m[k] = IF k <= Len(a) THEN a[k] ELSE <<e>>[k - Len(a)]
    BY <1>1, <1>3, ConcatProperties
  <2> QED BY <2>1, <1>1, <1>3
<1>5. InsertAt(s, i, e) = m \o b
  BY DEF InsertAt, a, b
<1> HIDE DEF m
<1>6. /\ m \o b \in Seq(S) /\ Len(m \o b) = Len(m) + Len(b)
      /\ \A k \in 1..Len(m) + Len(b) : (m \o b)[k] = IF k <= Len(m) THEN m[k] ELSE b[k - Len(m)]
  BY <1>4, <1>2, ConcatProperties
<1>7. Len(m) + Len(b) = Len(s) + 1
  BY <1>4, <1>2, <1>0
<1>8. ASSUME NEW k \in 1..Len(s) + 1
      PROVE  (m \o b)[k] = IF k < i THEN s[k] ELSE IF k = i THEN e ELSE s[k - 1]
  <2>1. CASE k <= i
    BY <2>1, <1>4, <1>6, <1>7
  <2>2. CASE k > i
    <3>1. (m \o b)[k] = b[k - i] /\ k - i \in 1..Len(s) - i + 1
      BY <2>2, <1>4, <1>6, <1>7, <1>0
    <3> QED BY <3>1, <1>2, <2>2, <1>0
  <2>3. k <= i \/ k > i
    BY <1>0
  <2> QED BY <2>1, <2>2, <2>3, Zenon
<1>9. \A k \in 1..i - 1 : (m \o b)[k] = s[k]
  <2>1. \A k \in 1..i - 1 : k \in 1..Len(s) + 1 /\ k < i
    BY <1>0
  <2> QED BY <2>1, <1>8
<1>10. (m \o b)[i] = e
  <2>1. ~(i < i)
    BY <1>0
  <2> QED BY <2>1, <1>8
<1>11. \A k \in i..Len(s) : (m \o b)[k + 1] = s[k]
  <2>1. ASSUME NEW k \in i..Len(s) PROVE (m \o b)[k + 1] = s[k]
    <3>1. k + 1 \in 1..Len(s) + 1 /\ ~(k + 1 < i) /\ k + 1 # i /\ (k + 1) - 1 = k
      BY <1>0
    <3> QED BY <3>1, <1>8
  <2> QED BY <2>1
<1> QED BY <1>5, <1>6, <1>7, <1>9, <1>10, <1>11

(* What RemoveAt returns. *)
LEMMA Removed ==
  ASSUME NEW S, NEW s \in Seq(S), NEW i \in 1..Len(s)
  PROVE  /\ RemoveAt(s, i) \in Seq(S)
         /\ Len(RemoveAt(s, i)) = Len(s) - 1
         /\ \A k \in 1..Len(s) - 1 : RemoveAt(s, i)[k] = IF k < i THEN s[k] ELSE s[k + 1]
<1> DEFINE a == SubSeq(s, 1, i - 1)
           b == SubSeq(s, i + 1, Len(s))
<1>0. Len(s) \in Nat /\ \A k \in 1..Len(s) : s[k] \in S
  BY LenProperties, ElementOfSeq
<1>1. /\ a \in Seq(S) /\ Len(a) = i - 1
      /\ \A k \in 1..i - 1 : a[k] = s[k]
  <2>1. \A k \in 1..i - 1 : s[k] \in S
    BY <1>0
  <2>2. /\ a \in Seq(S)
        /\ Len(a) = IF 1 <= i - 1 THEN i - 1 - 1 + 1 ELSE 0
        /\ \A k \in 1..i - 1 - 1 + 1 : a[k] = s[1 + k - 1]
    <3> HIDE DEF a
    <3> QED BY <2>1, SubSeqProperties, <1>0 DEF a
  <2> QED BY <2>2
<1>2. /\ b \in Seq(S) /\ Len(b) = Len(s) - i
      /\ \A k \in 1..Len(s) - i : b[k] = s[i + k]
  <2>1. \A k \in i + 1..Len(s) : s[k] \in S
    BY <1>0
  <2>2. /\ b \in Seq(S)
        /\ Len(b) = IF i + 1 <= Len(s) THEN Len(s) - (i + 1) + 1 ELSE 0
        /\ \A k \in 1..Len(s) - (i + 1) + 1 : b[k] = s[(i + 1) + k - 1]
    BY <2>1, SubSeqProperties, <1>0
  <2> QED BY <2>2, <1>0
<1>3. RemoveAt(s, i) = a \o b
  BY DEF RemoveAt
<1> HIDE DEF a, b
<1>4. /\ a \o b \in Seq(S) /\ Len(a \o b) = Len(a) + Len(b)
      /\ \A k \in 1..Len(a) + Len(b) : (a \o b)[k] = IF k <= Len(a) THEN a[k] ELSE b[k - Len(a)]
  BY <1>1, <1>2, ConcatProperties
<1>5. Len(a) + Len(b) = Len(s) - 1
  BY <1>1, <1>2, <1>0
<1>6. ASSUME NEW k \in 1..Len(s) - 1
      PROVE  (a \o b)[k] = IF k < i THEN s[k] ELSE s[k + 1]
  <2>1. CASE k < i
    BY <2>1, <1>1, <1>4, <1>5
  <2>2. CASE k >= i
    <3>1. (a \o b)[k] = b[k - (i - 1)] /\ k - (i - 1) \in 1..Len(s) - i
      BY <2>2, <1>1, <1>4, <1>5, <1>0
    <3> QED BY <3>1, <1>2, <2>2, <1>0
  <2>3. k < i \/ k >= i
    BY <1>0
  <2> QED BY <2>1, <2>2, <2>3, Zenon
<1> QED BY <1>3, <1>4, <1>5, <1>6
-----------------------------------------------------------------------------
(* The search. *)

(* The types of the variables, for the steps below. *)
LEMMA Commanded ==
  ASSUME TypeOK
  PROVE  /\ Len(list) \in Nat /\ DOMAIN list = 1..Len(list)
         /\ \A k \in 1..Len(list) : list[k] \in Commands
BY LenProperties, ElementOfSeq DEF TypeOK

(* The fields of a command. *)
LEMMA Fields ==
  ASSUME NEW c \in Commands
  PROVE  /\ c.type \in Nat /\ c.player \in Nat /\ c.id \in Nat
         /\ SortNumber(c) \in Nat
<1>1. c \in Command
  BY CommandsAssumption
<1>2. c.type \in Nat /\ c.player \in Nat /\ c.id \in Nat /\ c.acked[1] \in Nat
  BY <1>1 DEF Command
<1> QED BY <1>2 DEF SortNumber

(* A loop of the search stops at the end or at a command it may not pass. *)
LEMMA Skips ==
  ASSUME TypeOK, NEW i \in 1..Len(list) + 1, NEW passed
  PROVE  /\ SkipFrom(i, passed) \in i..Len(list) + 1
         /\ SkipFrom(i, passed) = Len(list) + 1 \/ list[SkipFrom(i, passed)] \notin passed
         /\ \A k \in i..SkipFrom(i, passed) - 1 : list[k] \in passed
<1>1. Len(list) \in Nat
  BY Commanded
<1> DEFINE T == {j \in i..Len(list) + 1 : j = Len(list) + 1 \/ list[j] \notin passed}
<1>2. T \subseteq Nat /\ Len(list) + 1 \in T
  BY <1>1
<1>3. PICK x \in T : \A y \in T : x <= y
  <2> HIDE DEF T
  <2> QED BY <1>2, Least
<1>4. \A k \in i..x - 1 : list[k] \in passed
  BY <1>1, <1>3
<1>5. \E j \in i..Len(list) + 1 :
         /\ j = Len(list) + 1 \/ list[j] \notin passed
         /\ \A k \in i..j - 1 : list[k] \in passed
  BY <1>3, <1>4
<1> QED BY <1>5 DEF SkipFrom

(* The place that was found is a place in the list. *)
LEMMA PlaceInList ==
  ASSUME TypeOK, NEW c
  PROVE  /\ SearchPlace(c) \in 1..Len(list) + 1
         /\ Place(c) \in 1..Len(list) + 1
<1>0. Len(list) \in Nat /\ cursor \in 0..Len(list)
  BY Commanded DEF TypeOK
<1> DEFINE p == SkipFrom(1, Smaller(c))
           q == SkipFrom(p, SmallerPlayer(c))
<1>1. p \in 1..Len(list) + 1
  BY <1>0, Skips
<1>2. q \in 1..Len(list) + 1
  <2> HIDE DEF p
  <2>1. q \in p..Len(list) + 1
    BY <1>1, Skips
  <2> QED BY <2>1, <1>1, <1>0
<1>3. SearchPlace(c) \in 1..Len(list) + 1
  <2>1. SearchPlace(c) = SkipFrom(q, SmallerNumber(c))
    BY DEF SearchPlace
  <2> HIDE DEF q
  <2>2. SkipFrom(q, SmallerNumber(c)) \in q..Len(list) + 1
    BY <1>2, Skips
  <2> QED BY <2>1, <2>2, <1>2, <1>0
<1> QED BY <1>0, <1>3 DEF Place, FollowsCursor

(* In a sorted list everything behind the place found is smaller than the  *)
(* command, and what is at the place is not.                               *)
LEMMA SearchSplits ==
  ASSUME TypeOK, OrderIsCanonical, NEW c \in Commands
  PROVE  /\ \A k \in 1..SearchPlace(c) - 1 : Before(list[k], c)
         /\ SearchPlace(c) <= Len(list) => ~Before(list[SearchPlace(c)], c)
<1> DEFINE p == SkipFrom(1, Smaller(c))
           q == SkipFrom(p, SmallerPlayer(c))
           r == SkipFrom(q, SmallerNumber(c))
<1>0. /\ Len(list) \in Nat /\ DOMAIN list = 1..Len(list)
      /\ \A k \in 1..Len(list) : list[k] \in Commands
  BY Commanded
<1>1. /\ p \in 1..Len(list) + 1
      /\ p = Len(list) + 1 \/ list[p] \notin Smaller(c)
      /\ \A k \in 1..p - 1 : list[k] \in Smaller(c)
  BY <1>0, Skips
<1>2. /\ q \in p..Len(list) + 1
      /\ q = Len(list) + 1 \/ list[q] \notin SmallerPlayer(c)
      /\ \A k \in p..q - 1 : list[k] \in SmallerPlayer(c)
  <2> HIDE DEF p
  <2> QED BY <1>1, Skips
<1>3. q \in 1..Len(list) + 1
  BY <1>0, <1>1, <1>2
<1>4. /\ r \in q..Len(list) + 1
      /\ r = Len(list) + 1 \/ list[r] \notin SmallerNumber(c)
      /\ \A k \in q..r - 1 : list[k] \in SmallerNumber(c)
  <2> HIDE DEF q
  <2> QED BY <1>3, Skips
<1>5. SearchPlace(c) = r
  BY DEF SearchPlace
<1> HIDE DEF p, q, r
<1>6. ASSUME NEW k \in 1..r - 1 PROVE Before(list[k], c)
  <2>1. list[k] \in Smaller(c) \/ list[k] \in SmallerPlayer(c) \/ list[k] \in SmallerNumber(c)
    BY <1>0, <1>1, <1>2, <1>3, <1>4
  <2> QED BY <2>1 DEF Before, Smaller, SmallerPlayer, SmallerNumber
<1>7. ASSUME r <= Len(list), Before(list[r], c) PROVE FALSE
  <2> DEFINE e == list[r]
             f == list[p]
             g == list[q]
  <2>1. /\ r \in 1..Len(list) /\ q \in 1..Len(list) /\ p \in 1..Len(list)
        /\ p <= q /\ q <= r
    BY <1>0, <1>1, <1>2, <1>4, <1>7
  <2>2. e \in Commands /\ f \in Commands /\ g \in Commands
    BY <2>1, <1>0
  <2>3. /\ f \notin Smaller(c) /\ g \notin SmallerPlayer(c) /\ e \notin SmallerNumber(c)
    BY <2>1, <1>0, <1>1, <1>2, <1>4
  <2>4. (p = q \/ Before(f, g)) /\ (q = r \/ Before(g, e))
    BY <2>1, <1>0 DEF OrderIsCanonical
  <2>5. f = g \/ Before(f, g)
    BY <2>4
  <2>6. g = e \/ Before(g, e)
    BY <2>4
  <2>7. Before(e, c)
    BY <1>7
  <2> HIDE DEF e, f, g
  <2>8. /\ e.type \in Nat /\ e.player \in Nat /\ SortNumber(e) \in Nat
        /\ f.type \in Nat /\ f.player \in Nat /\ SortNumber(f) \in Nat
        /\ g.type \in Nat /\ g.player \in Nat /\ SortNumber(g) \in Nat
        /\ c.type \in Nat /\ c.player \in Nat /\ SortNumber(c) \in Nat
    BY <2>2, Fields
  <2>9. c.type <= f.type
    BY <2>2, <2>3, <2>8 DEF Smaller
  <2>10. c.type <= g.type
    BY <2>5, <2>8, <2>9 DEF Before
  <2>11. c.type <= e.type
    BY <2>6, <2>8, <2>10 DEF Before
  <2>12. e.type = c.type /\ g.type = c.type
    BY <2>6, <2>7, <2>8, <2>10, <2>11 DEF Before
  <2>13. c.player <= g.player
    BY <2>2, <2>3, <2>8, <2>12 DEF SmallerPlayer
  <2>14. e.player = c.player
    BY <2>6, <2>7, <2>8, <2>12, <2>13 DEF Before
  <2>15. ~(SortNumber(e) < SortNumber(c))
    BY <2>2, <2>3, <2>12, <2>14 DEF SmallerNumber
  <2> QED BY <2>7, <2>8, <2>12, <2>14, <2>15 DEF Before
<1> QED BY <1>5, <1>6, <1>7

-----------------------------------------------------------------------------
(* Type correctness, of lists of any commands. *)

LEMMA InitTypeOK == Init => TypeOK
BY EmptySeq DEF Init, TypeOK

LEMMA NextTypeOK ==
  ASSUME TypeOK, [Next]_vars
  PROVE  TypeOK'
<1>0. /\ list \in Seq(Commands) /\ cursor \in 0..Len(list) /\ offered \subseteq Commands
      /\ Len(list) \in Nat /\ DOMAIN list = 1..Len(list)
  BY Commanded DEF TypeOK
<1>1. ASSUME NEW c \in Commands, AddMessage(c) PROVE TypeOK'
  <2>1. Place(c) \in 1..Len(list) + 1
    BY PlaceInList
  <2>2. list' \in Seq(Commands) /\ Len(list') = Len(list) + 1
    BY <1>0, <1>1, <2>1, Inserted DEF AddMessage
  <2> QED BY <1>0, <1>1, <2>1, <2>2 DEF AddMessage, TypeOK
<1>2. ASSUME NEW c \in Commands, RefuseMessage(c) PROVE TypeOK'
  BY <1>0, <1>2 DEF RefuseMessage, TypeOK
<1>3. ASSUME NEW i \in DOMAIN list, RemoveMessage(i) PROVE TypeOK'
  <2>1. list' \in Seq(Commands) /\ Len(list') = Len(list) - 1
    BY <1>0, <1>3, Removed DEF RemoveMessage
  <2>2. cursor' \in 0..Len(list')
    BY <1>0, <1>3, <2>1 DEF RemoveMessage
  <2> QED BY <1>0, <1>3, <2>1, <2>2 DEF RemoveMessage, TypeOK
<1>4. ASSUME Reset PROVE TypeOK'
  BY <1>4, EmptySeq DEF Reset, TypeOK
<1>5. ASSUME UNCHANGED vars PROVE TypeOK'
  BY <1>0, <1>5 DEF vars, TypeOK
<1> QED BY <1>1, <1>2, <1>3, <1>4, <1>5 DEF Next

(* The cursor of a list of commands never points outside the list, and     *)
(* addMessage never looks beyond its ends: NetCommandList::addMessage and  *)
(* removeMessage keep m_lastMessageInserted one of the list, or NULL.      *)
THEOREM TypeCorrect == Spec => []TypeOK
<1>1. TypeOK /\ [Next]_vars => TypeOK'
  BY NextTypeOK
<1> QED BY <1>1, InitTypeOK, PTL DEF Spec

-----------------------------------------------------------------------------
(* The order and the contents, of lists of numbered commands. *)

(* Of two different numbered commands one is before the other. *)
LEMMA Ordered ==
  ASSUME CommandsAreNumbered, NEW c \in Commands, NEW d \in Commands
  PROVE  /\ SortNumber(c) = c.id
         /\ IsEqual(c, d) => c = d
         /\ NeedsID(c.type)
         /\ ~Before(c, d) => c = d \/ Before(d, c)
         /\ ~(Before(c, d) /\ Before(d, c))
         /\ ~Before(c, c)
<1>1. ~IsAck(c) /\ NeedsID(c.type) /\ ~IsAck(d) /\ NeedsID(d.type)
  BY DEF CommandsAreNumbered
<1>2. SortNumber(c) = c.id /\ SortNumber(d) = d.id
  BY <1>1 DEF SortNumber
<1>3. c.player = d.player /\ c.id = d.id => c = d
  BY DEF CommandsAreNumbered
<1>4. IsEqual(c, d) => c = d
  BY <1>1, <1>3 DEF IsEqual
<1>5. /\ c.type \in Nat /\ c.player \in Nat /\ c.id \in Nat
      /\ d.type \in Nat /\ d.player \in Nat /\ d.id \in Nat
  BY Fields
<1>6. ~Before(c, d) => c = d \/ Before(d, c)
  BY <1>2, <1>3, <1>5 DEF Before
<1>7. ~(Before(c, d) /\ Before(d, c)) /\ ~Before(c, c)
  BY <1>2, <1>5 DEF Before
<1> QED BY <1>1, <1>2, <1>4, <1>6, <1>7

LEMMA BeforeIsTransitive ==
  ASSUME NEW b \in Commands, NEW c \in Commands, NEW d \in Commands,
         Before(b, c), Before(c, d)
  PROVE  Before(b, d)
<1>1. /\ b.type \in Nat /\ b.player \in Nat /\ SortNumber(b) \in Nat
      /\ c.type \in Nat /\ c.player \in Nat /\ SortNumber(c) \in Nat
      /\ d.type \in Nat /\ d.player \in Nat /\ SortNumber(d) \in Nat
  BY Fields
<1> QED BY <1>1 DEF Before

(* When the place after the cursor is taken, the command at the cursor is  *)
(* smaller than the new one and the one after it is greater.               *)
LEMMA CursorFits ==
  ASSUME TypeOK, OrderIsCanonical, CommandsAreNumbered,
         NEW c \in Commands, FollowsCursor(c)
  PROVE  /\ cursor \in 1..Len(list)
         /\ Before(list[cursor], c)
         /\ cursor # Len(list) => Before(c, list[cursor + 1])
<1>0. Len(list) \in Nat /\ cursor \in 0..Len(list) /\ cursor # 0
  BY Commanded DEF TypeOK, FollowsCursor
<1>1. cursor \in 1..Len(list)
  BY <1>0
<1> DEFINE e == list[cursor]
           f == list[cursor + 1]
<1>2. e \in Commands /\ e.type = c.type /\ e.player = c.player /\ e.id < c.id
  BY <1>1, Commanded DEF FollowsCursor
<1>3. SortNumber(e) = e.id /\ SortNumber(c) = c.id
  BY <1>2, Ordered
<1>4. Before(e, c)
  BY <1>2, <1>3 DEF Before
<1>5. ASSUME cursor # Len(list) PROVE Before(c, f)
  <2>0. cursor + 1 \in 1..Len(list) /\ cursor < cursor + 1
    BY <1>0, <1>5
  <2>1. f \in Commands /\ Before(e, f)
    BY <1>1, <2>0, Commanded DEF OrderIsCanonical
  <2>2. f.type > c.type \/ f.player > c.player \/ f.id > c.id
    BY <1>5 DEF FollowsCursor
  <2> HIDE DEF e, f
  <2>3. SortNumber(f) = f.id
    BY <2>1, Ordered
  <2>4. /\ e.type \in Nat /\ e.player \in Nat /\ e.id \in Nat
        /\ f.type \in Nat /\ f.player \in Nat /\ f.id \in Nat
        /\ c.type \in Nat /\ c.player \in Nat /\ c.id \in Nat
    BY <1>2, <2>1, Fields
  <2> QED BY <1>2, <1>3, <2>1, <2>2, <2>3, <2>4 DEF Before
<1> QED BY <1>1, <1>4, <1>5

(* A command that is not refused goes between the smaller and the greater  *)
(* ones.                                                                   *)
LEMMA Splits ==
  ASSUME TypeOK, OrderIsCanonical, CommandsAreNumbered,
         NEW c \in Commands, ~Refused(c)
  PROVE  /\ Place(c) \in 1..Len(list) + 1
         /\ \A k \in 1..Place(c) - 1 : Before(list[k], c)
         /\ \A k \in Place(c)..Len(list) : Before(c, list[k])
<1>0. /\ Len(list) \in Nat /\ DOMAIN list = 1..Len(list)
      /\ \A k \in 1..Len(list) : list[k] \in Commands
  BY Commanded
<1>1. Place(c) \in 1..Len(list) + 1
  BY PlaceInList
<1>2. Place(c) > 1 => Before(list[Place(c) - 1], c)
  <2>1. CASE FollowsCursor(c)
    BY <2>1, <1>0, CursorFits DEF Place
  <2>2. CASE ~FollowsCursor(c)
    <3>1. Place(c) = SearchPlace(c)
      BY <2>2 DEF Place
    <3> QED BY <3>1, <1>0, <1>1, SearchSplits
  <2> QED BY <2>1, <2>2
<1>3. ASSUME Place(c) <= Len(list) PROVE Before(c, list[Place(c)])
  <2>1. ASSUME FollowsCursor(c) PROVE Before(c, list[Place(c)])
    BY <2>1, <1>0, <1>3, CursorFits DEF Place
  <2>2. ASSUME ~FollowsCursor(c) PROVE Before(c, list[Place(c)])
    <3>1. Place(c) = SearchPlace(c)
      BY <2>2 DEF Place
    <3>2. ~Before(list[Place(c)], c)
      BY <3>1, <1>3, SearchSplits
    <3>3. list # << >> /\ ComparedWith(c) = list[Place(c)]
      BY <2>2, <3>1, <1>0, <1>1, <1>3 DEF ComparedWith
    <3>4. ~IsEqual(list[Place(c)], c)
      BY <3>3 DEF Refused
    <3>5. list[Place(c)] \in Commands
      BY <1>0, <1>1, <1>3
    <3>6. list[Place(c)] # c
      BY <3>4, Ordered DEF IsEqual
    <3> QED BY <3>2, <3>5, <3>6, Ordered
  <2> QED BY <2>1, <2>2
<1>4. ASSUME NEW k \in 1..Place(c) - 1 PROVE Before(list[k], c)
  <2>1. k \in 1..Len(list) /\ Place(c) - 1 \in 1..Len(list) /\ k <= Place(c) - 1 /\ Place(c) > 1
    BY <1>0, <1>1
  <2>2. k = Place(c) - 1 \/ Before(list[k], list[Place(c) - 1])
    BY <2>1, <1>0 DEF OrderIsCanonical
  <2>3. list[k] \in Commands /\ list[Place(c) - 1] \in Commands
    BY <2>1, <1>0
  <2> QED BY <2>1, <2>2, <2>3, <1>2, BeforeIsTransitive
<1>5. ASSUME NEW k \in Place(c)..Len(list) PROVE Before(c, list[k])
  <2>1. k \in 1..Len(list) /\ Place(c) \in 1..Len(list) /\ Place(c) <= k
    BY <1>0, <1>1
  <2>2. k = Place(c) \/ Before(list[Place(c)], list[k])
    BY <2>1, <1>0 DEF OrderIsCanonical
  <2>3. list[k] \in Commands /\ list[Place(c)] \in Commands
    BY <2>1, <1>0
  <2> QED BY <2>1, <2>2, <2>3, <1>3, BeforeIsTransitive
<1> QED BY <1>1, <1>4, <1>5

(* A command that is refused is in the list. *)
LEMMA RefusedIsThere ==
  ASSUME TypeOK, OrderIsCanonical, CommandsAreNumbered,
         NEW c \in Commands, Refused(c)
  PROVE  c \in Range(list)
<1>0. /\ Len(list) \in Nat /\ DOMAIN list = 1..Len(list)
      /\ \A k \in 1..Len(list) : list[k] \in Commands
  BY Commanded
<1>1. Len(list) # 0
  BY <1>0, EmptySeq DEF Refused, TypeOK
<1>2. PICK k \in 1..Len(list) : ComparedWith(c) = list[k]
  <2>1. FollowsCursor(c) => cursor \in 1..Len(list)
    BY CursorFits
  <2>2. SearchPlace(c) \in 1..Len(list) + 1
    BY PlaceInList
  <2> QED BY <2>1, <2>2, <1>0, <1>1 DEF ComparedWith
<1>3. IsEqual(list[k], c) /\ list[k] \in Commands
  BY <1>0, <1>2 DEF Refused
<1>4. list[k] = c
  BY <1>3, Ordered
<1> QED BY <1>0, <1>4 DEF Range

IInv == TypeOK /\ OrderIsCanonical /\ HoldsWhatWasOffered

LEMMA InitIInv == Init => IInv
<1> SUFFICES ASSUME Init PROVE IInv
  OBVIOUS
<1>1. TypeOK
  BY InitTypeOK
<1>2. list = << >> /\ DOMAIN list = {} /\ offered = {}
  BY <1>1, Commanded, EmptySeq DEF Init
<1> QED BY <1>1, <1>2 DEF IInv, OrderIsCanonical, HoldsWhatWasOffered, Range

LEMMA AddKeepsIInv ==
  ASSUME IInv, TypeOK', CommandsAreNumbered, NEW c \in Commands, AddMessage(c)
  PROVE  IInv'
<1>0. TypeOK /\ OrderIsCanonical /\ HoldsWhatWasOffered
  BY DEF IInv
<1>1. /\ Len(list) \in Nat /\ DOMAIN list = 1..Len(list) /\ list \in Seq(Commands)
      /\ \A k \in 1..Len(list) : list[k] \in Commands
  BY <1>0, Commanded DEF TypeOK
<1>2. /\ Place(c) \in 1..Len(list) + 1
      /\ \A k \in 1..Place(c) - 1 : Before(list[k], c)
      /\ \A k \in Place(c)..Len(list) : Before(c, list[k])
  BY <1>0, Splits DEF AddMessage
<1>3. /\ list' \in Seq(Commands) /\ Len(list') = Len(list) + 1
      /\ \A k \in 1..Place(c) - 1 : list'[k] = list[k]
      /\ list'[Place(c)] = c
      /\ \A k \in Place(c)..Len(list) : list'[k + 1] = list[k]
  <2>1. list' = InsertAt(list, Place(c), c)
    BY DEF AddMessage
  <2>2. list \in Seq(Commands) /\ Place(c) \in 1..Len(list) + 1 /\ c \in Commands
    BY <1>1, <1>2
  <2>3. InsertAt(list, Place(c), c) \in Seq(Commands)
    BY <2>2, Inserted
  <2>4. Len(InsertAt(list, Place(c), c)) = Len(list) + 1
    BY <2>2, Inserted
  <2>5. \A k \in 1..Place(c) - 1 : InsertAt(list, Place(c), c)[k] = list[k]
    BY <2>2, Inserted
  <2>6. InsertAt(list, Place(c), c)[Place(c)] = c
    BY <2>2, Inserted
  <2>7. \A k \in Place(c)..Len(list) : InsertAt(list, Place(c), c)[k + 1] = list[k]
    BY <2>2, Inserted
  <2> QED BY <2>1, <2>3, <2>4, <2>5, <2>6, <2>7
<1>4. DOMAIN list' = 1..Len(list) + 1
  BY <1>3, LenProperties
<1>5. ASSUME NEW i \in DOMAIN list', NEW j \in DOMAIN list', i < j
      PROVE  Before(list'[i], list'[j])
  <2>0. i \in 1..Len(list) + 1 /\ j \in 1..Len(list) + 1
    BY <1>4
  <2>1. ASSUME j < Place(c) PROVE Before(list'[i], list'[j])
    <3>1. list'[i] = list[i] /\ list'[j] = list[j] /\ i \in 1..Len(list) /\ j \in 1..Len(list)
      BY <2>0, <2>1, <1>1, <1>2, <1>3, <1>5
    <3> QED BY <3>1, <1>0, <1>1, <1>5 DEF OrderIsCanonical
  <2>2. ASSUME j = Place(c) PROVE Before(list'[i], list'[j])
    <3>1. list'[i] = list[i] /\ list'[j] = c /\ i \in 1..Place(c) - 1
      BY <2>0, <2>2, <1>1, <1>2, <1>3, <1>5
    <3> QED BY <3>1, <1>2
  <2>3. ASSUME j > Place(c), i < Place(c) PROVE Before(list'[i], list'[j])
    <3>1. /\ list'[i] = list[i] /\ list'[j] = list[j - 1]
          /\ i \in 1..Len(list) /\ j - 1 \in 1..Len(list) /\ i < j - 1
      BY <2>0, <2>3, <1>1, <1>2, <1>3
    <3> QED BY <3>1, <1>0, <1>1 DEF OrderIsCanonical
  <2>4. ASSUME j > Place(c), i = Place(c) PROVE Before(list'[i], list'[j])
    <3>1. list'[i] = c /\ list'[j] = list[j - 1] /\ j - 1 \in Place(c)..Len(list)
      BY <2>0, <2>4, <1>1, <1>2, <1>3
    <3> QED BY <3>1, <1>2
  <2>5. ASSUME j > Place(c), i > Place(c) PROVE Before(list'[i], list'[j])
    <3>1. /\ list'[i] = list[i - 1] /\ list'[j] = list[j - 1]
          /\ i - 1 \in 1..Len(list) /\ j - 1 \in 1..Len(list) /\ i - 1 < j - 1
      BY <2>0, <2>5, <1>1, <1>2, <1>3, <1>5
    <3> QED BY <3>1, <1>0, <1>1 DEF OrderIsCanonical
  <2>6. j < Place(c) \/ j = Place(c) \/ (j > Place(c) /\ i < Place(c)) \/ (j > Place(c) /\ i = Place(c)) \/ (j > Place(c) /\ i > Place(c))
    BY <2>0, <1>2
  <2> QED BY <2>1, <2>2, <2>3, <2>4, <2>5, <2>6
<1>6. OrderIsCanonical'
  BY <1>5 DEF OrderIsCanonical
<1>7. Range(list') = Range(list) \cup {c}
  <2>1. ASSUME NEW k \in DOMAIN list' PROVE list'[k] \in Range(list) \cup {c}
    <3>1. list'[k] = c \/ \E m \in DOMAIN list : list'[k] = list[m]
      <4>1. ASSUME k < Place(c) PROVE list'[k] = list[k] /\ k \in DOMAIN list
        BY <4>1, <1>1, <1>2, <1>3, <1>4
      <4>2. ASSUME k > Place(c) PROVE list'[k] = list[k - 1] /\ k - 1 \in DOMAIN list
        BY <4>2, <1>1, <1>2, <1>3, <1>4
      <4>3. k < Place(c) \/ k = Place(c) \/ k > Place(c)
        BY <1>1, <1>2, <1>4
      <4> QED BY <4>1, <4>2, <4>3, <1>3
    <3> QED BY <3>1 DEF Range
  <2>2. ASSUME NEW k \in DOMAIN list PROVE list[k] \in Range(list')
    <3>1. \E m \in DOMAIN list' : list'[m] = list[k]
      <4>1. ASSUME k < Place(c) PROVE list'[k] = list[k] /\ k \in DOMAIN list'
        BY <4>1, <1>1, <1>2, <1>3, <1>4
      <4>2. ASSUME k >= Place(c) PROVE list'[k + 1] = list[k] /\ k + 1 \in DOMAIN list'
        BY <4>2, <1>1, <1>2, <1>3, <1>4
      <4>3. k < Place(c) \/ k >= Place(c)
        BY <1>1, <1>2
      <4> QED BY <4>1, <4>2, <4>3
    <3> QED BY <3>1 DEF Range
  <2>3. list'[Place(c)] = c /\ Place(c) \in DOMAIN list'
    BY <1>1, <1>2, <1>3, <1>4
  <2> QED BY <2>1, <2>2, <2>3 DEF Range
<1>8. HoldsWhatWasOffered'
  BY <1>0, <1>7 DEF HoldsWhatWasOffered, AddMessage
<1> QED BY <1>6, <1>8 DEF IInv

LEMMA RemoveKeepsIInv ==
  ASSUME IInv, TypeOK', CommandsAreNumbered, NEW i \in DOMAIN list, RemoveMessage(i)
  PROVE  IInv'
<1>0. TypeOK /\ OrderIsCanonical /\ HoldsWhatWasOffered
  BY DEF IInv
<1>1. /\ Len(list) \in Nat /\ DOMAIN list = 1..Len(list) /\ list \in Seq(Commands)
      /\ \A k \in 1..Len(list) : list[k] \in Commands
  BY <1>0, Commanded DEF TypeOK
<1>2. /\ list' \in Seq(Commands) /\ Len(list') = Len(list) - 1
      /\ \A k \in 1..Len(list) - 1 : list'[k] = IF k < i THEN list[k] ELSE list[k + 1]
  BY <1>1, Removed DEF RemoveMessage
<1>3. DOMAIN list' = 1..Len(list) - 1
  BY <1>2, LenProperties
<1> DEFINE Old(k) == IF k < i THEN k ELSE k + 1
<1>4. ASSUME NEW k \in DOMAIN list'
      PROVE  list'[k] = list[Old(k)] /\ Old(k) \in DOMAIN list /\ Old(k) # i
  BY <1>1, <1>2, <1>3
<1>5. ASSUME NEW k \in DOMAIN list', NEW m \in DOMAIN list', k < m
      PROVE  Before(list'[k], list'[m])
  <2>1. Old(k) < Old(m)
    BY <1>1, <1>3, <1>5
  <2> HIDE DEF Old
  <2> QED BY <2>1, <1>0, <1>4 DEF OrderIsCanonical
<1>6. OrderIsCanonical'
  BY <1>5 DEF OrderIsCanonical
<1>7. \A k \in DOMAIN list : k # i => list[k] # list[i]
  <2>1. ASSUME NEW k \in DOMAIN list, k # i PROVE Before(list[k], list[i]) \/ Before(list[i], list[k])
    <3>1. k < i \/ i < k
      BY <1>1, <2>1
    <3> QED BY <3>1, <1>0 DEF OrderIsCanonical
  <2>2. ~Before(list[i], list[i])
    BY <1>1, Ordered
  <2> QED BY <2>1, <2>2
<1>8. Range(list') = Range(list) \ {list[i]}
  <2>1. ASSUME NEW k \in DOMAIN list' PROVE list'[k] \in Range(list) \ {list[i]}
    <3> HIDE DEF Old
    <3> QED BY <1>4, <1>7 DEF Range
  <2>2. ASSUME NEW k \in DOMAIN list, list[k] # list[i] PROVE list[k] \in Range(list')
    <3>1. \E m \in DOMAIN list' : list'[m] = list[k]
      <4>1. ASSUME k < i PROVE list'[k] = list[k] /\ k \in DOMAIN list'
        BY <4>1, <1>1, <1>2, <1>3
      <4>2. ASSUME k > i PROVE list'[k - 1] = list[k] /\ k - 1 \in DOMAIN list'
        BY <4>2, <1>1, <1>2, <1>3
      <4>3. k < i \/ k > i
        BY <1>1, <2>2
      <4> QED BY <4>1, <4>2, <4>3
    <3> QED BY <3>1 DEF Range
  <2> QED BY <2>1, <2>2 DEF Range
<1>9. HoldsWhatWasOffered'
  BY <1>0, <1>8 DEF HoldsWhatWasOffered, RemoveMessage
<1> QED BY <1>6, <1>9 DEF IInv

LEMMA NextIInv ==
  ASSUME IInv, [Next]_vars, CommandsAreNumbered
  PROVE  IInv'
<1>0. TypeOK /\ OrderIsCanonical /\ HoldsWhatWasOffered
  BY DEF IInv
<1>t. TypeOK'
  BY <1>0, NextTypeOK
<1>1. ASSUME NEW c \in Commands, AddMessage(c) PROVE IInv'
  BY <1>t, <1>1, AddKeepsIInv
<1>2. ASSUME NEW c \in Commands, RefuseMessage(c) PROVE IInv'
  <2>1. c \in Range(list)
    BY <1>0, <1>2, RefusedIsThere DEF RefuseMessage
  <2>2. OrderIsCanonical'
    BY <1>0, <1>2 DEF RefuseMessage, OrderIsCanonical
  <2>3. HoldsWhatWasOffered'
    BY <1>0, <1>2, <2>1 DEF RefuseMessage, HoldsWhatWasOffered
  <2> QED BY <1>t, <2>2, <2>3 DEF IInv
<1>3. ASSUME NEW i \in DOMAIN list, RemoveMessage(i) PROVE IInv'
  BY <1>t, <1>3, RemoveKeepsIInv
<1>4. ASSUME Reset PROVE IInv'
  <2>1. list' = << >> /\ DOMAIN list' = {} /\ offered' = {}
    BY <1>4, EmptySeq, LenProperties DEF Reset
  <2> QED BY <1>t, <2>1 DEF IInv, OrderIsCanonical, HoldsWhatWasOffered, Range
<1>5. ASSUME UNCHANGED vars PROVE IInv'
  BY <1>0, <1>5, <1>t DEF vars, IInv, OrderIsCanonical, HoldsWhatWasOffered
<1> QED BY <1>1, <1>2, <1>3, <1>4, <1>5 DEF Next

(* The data of a frame are sorted strictly, whatever the order in which    *)
(* the commands arrived, so all machines execute them in one order         *)
(* (addMessage, FrameData::getCommandList).                                *)
THEOREM Canonical ==
  ASSUME CommandsAreNumbered
  PROVE  Spec => []OrderIsCanonical
<1>1. IInv /\ [Next]_vars => IInv'
  BY NextIInv
<1>2. IInv => OrderIsCanonical
  BY DEF IInv
<1> QED BY <1>1, <1>2, InitIInv, PTL DEF Spec

(* No command of a frame is lost and none is kept twice: addMessage        *)
(* refuses a command exactly when the list holds it.                       *)
THEOREM NothingLost ==
  ASSUME CommandsAreNumbered
  PROVE  Spec => []HoldsWhatWasOffered
<1>1. IInv /\ [Next]_vars => IInv'
  BY NextIInv
<1>2. IInv => HoldsWhatWasOffered
  BY DEF IInv
<1> QED BY <1>1, <1>2, InitIInv, PTL DEF Spec

(* What addMessage means by making sure that the command is not already in *)
(* the list holds for numbered commands: the acks of the run               *)
(* NetCommandListAcks are all that breaks it.                              *)
THEOREM NumberedOnce ==
  ASSUME CommandsAreNumbered
  PROVE  Spec => []NoDuplicates
<1>1. IInv /\ [Next]_vars => IInv'
  BY NextIInv
<1>2. ASSUME IInv PROVE NoDuplicates
  <2>1. TypeOK /\ OrderIsCanonical
    BY <1>2 DEF IInv
  <2>2. /\ Len(list) \in Nat /\ DOMAIN list = 1..Len(list)
        /\ \A k \in DOMAIN list : list[k] \in Commands
    BY <2>1, Commanded
  <2>3. ASSUME NEW i \in DOMAIN list, NEW j \in DOMAIN list, i # j
        PROVE  ~IsEqual(list[i], list[j])
    <3>1. i < j \/ j < i
      BY <2>2, <2>3
    <3>2. Before(list[i], list[j]) \/ Before(list[j], list[i])
      BY <3>1, <2>1 DEF OrderIsCanonical
    <3>3. list[i] # list[j]
      BY <3>2, <2>2, Ordered
    <3> QED BY <3>3, <2>2, Ordered
  <2> QED BY <2>3 DEF NoDuplicates
<1> QED BY <1>1, <1>2, InitIInv, PTL DEF Spec

-----------------------------------------------------------------------------
(* One order for one set of commands. *)

Sorted(s) == \A i, j \in DOMAIN s : i < j => Before(s[i], s[j])

(* The order in which every machine executes the commands of T. *)
InOrder(T) == CHOOSE s \in Seq(Commands) : Range(s) = T /\ Sorted(s)

(* Of two sorted sequences of the same commands that agree up to a place,  *)
(* the one has a command there when the other has, and none behind it.     *)
LEMMA NoLaterHere ==
  ASSUME CommandsAreNumbered,
         NEW s \in Seq(Commands), NEW t \in Seq(Commands),
         Sorted(s), Sorted(t), Range(s) = Range(t),
         NEW k \in DOMAIN s, \A i \in 1..k - 1 : s[i] = t[i]
  PROVE  k \in DOMAIN t /\ (t[k] = s[k] \/ Before(t[k], s[k]))
<1>0. /\ Len(s) \in Nat /\ DOMAIN s = 1..Len(s)
      /\ Len(t) \in Nat /\ DOMAIN t = 1..Len(t)
      /\ s[k] \in Commands
  BY LenProperties, ElementOfSeq
<1>1. PICK j \in DOMAIN t : t[j] = s[k]
  BY DEF Range
<1>2. ASSUME j < k PROVE FALSE
  <2>1. j \in DOMAIN s /\ j \in 1..k - 1
    BY <1>0, <1>2
  <2>2. s[j] = s[k] /\ Before(s[j], s[k])
    BY <2>1, <1>1, <1>2 DEF Sorted
  <2> QED BY <2>2, <1>0, Ordered
<1>3. k \in DOMAIN t /\ (k = j \/ k < j)
  BY <1>0, <1>2
<1> QED BY <1>1, <1>3 DEF Sorted

LEMMA SameHere ==
  ASSUME CommandsAreNumbered,
         NEW s \in Seq(Commands), NEW t \in Seq(Commands),
         Sorted(s), Sorted(t), Range(s) = Range(t)
  PROVE  \A k \in DOMAIN s : k \in DOMAIN t /\ s[k] = t[k]
<1>0. /\ Len(s) \in Nat /\ DOMAIN s = 1..Len(s)
      /\ \A k \in DOMAIN s : s[k] \in Commands
      /\ \A k \in DOMAIN t : t[k] \in Commands
  BY LenProperties, ElementOfSeq
<1> DEFINE T == {k \in DOMAIN s : ~(k \in DOMAIN t /\ s[k] = t[k])}
<1>1. ASSUME T # {} PROVE FALSE
  <2>1. T \subseteq Nat
    BY <1>0
  <2>2. PICK k \in T : \A i \in T : k <= i
    <3> HIDE DEF T
    <3> QED BY <1>1, <2>1, Least
  <2>3. k \in DOMAIN s /\ \A i \in 1..k - 1 : i \in DOMAIN s /\ i \notin T
    BY <1>0, <2>2
  <2>4. \A i \in 1..k - 1 : s[i] = t[i] /\ t[i] = s[i]
    BY <2>3
  <2>5. k \in DOMAIN t /\ (t[k] = s[k] \/ Before(t[k], s[k]))
    BY <2>3, <2>4, NoLaterHere
  <2>6. s[k] = t[k] \/ Before(s[k], t[k])
    BY <2>4, <2>5, NoLaterHere
  <2>7. s[k] = t[k]
    BY <2>3, <2>5, <2>6, <1>0, Ordered
  <2> QED BY <2>2, <2>5, <2>7
<1> QED BY <1>1

LEMMA OneOrder ==
  ASSUME CommandsAreNumbered,
         NEW s \in Seq(Commands), NEW t \in Seq(Commands),
         Sorted(s), Sorted(t), Range(s) = Range(t)
  PROVE  s = t
<1>1. DOMAIN s = DOMAIN t /\ \A k \in DOMAIN s : s[k] = t[k]
  BY SameHere
<1>2. /\ Len(s) \in Nat /\ DOMAIN s = 1..Len(s)
      /\ Len(t) \in Nat /\ DOMAIN t = 1..Len(t)
  BY LenProperties
<1>3. Len(s) = Len(t)
  <2>1. ASSUME Len(s) < Len(t) PROVE FALSE
    <3>1. Len(t) \in 1..Len(t) /\ Len(t) \notin 1..Len(s)
      BY <1>2, <2>1
    <3> QED BY <3>1, <1>1, <1>2
  <2>2. ASSUME Len(t) < Len(s) PROVE FALSE
    <3>1. Len(s) \in 1..Len(s) /\ Len(s) \notin 1..Len(t)
      BY <1>2, <2>2
    <3> QED BY <3>1, <1>1, <1>2
  <2>3. \A m, n \in Nat : m = n \/ m < n \/ n < m
    OBVIOUS
  <2>4. Len(s) = Len(t) \/ Len(s) < Len(t) \/ Len(t) < Len(s)
    BY <2>3, <1>2, Zenon
  <2> QED BY <2>1, <2>2, <2>4
<1> QED BY <1>1, <1>2, <1>3, SeqEqual

(* The list is a function of the set of commands that were offered: two    *)
(* machines that hold the same commands for a frame execute them in the    *)
(* same order, whatever the order in which they arrived and whatever was   *)
(* refused or removed on the way (NetCommandList::addMessage,              *)
(* FrameData::getCommandList).                                             *)
THEOREM SameOrderEverywhere ==
  ASSUME CommandsAreNumbered
  PROVE  Spec => [](list = InOrder(offered))
<1>1. IInv /\ [Next]_vars => IInv'
  BY NextIInv
<1>2. ASSUME IInv PROVE list = InOrder(offered)
  <2>1. list \in Seq(Commands) /\ Range(list) = offered /\ Sorted(list)
    BY <1>2 DEF IInv, TypeOK, HoldsWhatWasOffered, OrderIsCanonical, Sorted
  <2>2. /\ InOrder(offered) \in Seq(Commands)
        /\ Range(InOrder(offered)) = offered /\ Sorted(InOrder(offered))
    BY <2>1, Zenon DEF InOrder
  <2> QED BY <2>1, <2>2, OneOrder
<1> QED BY <1>1, <1>2, InitIInv, PTL DEF Spec
=============================================================================
