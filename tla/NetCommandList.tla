--------------------------- MODULE NetCommandList ---------------------------
(***************************************************************************)
(* NetCommandList: the list of network commands that a frame's data, a     *)
(* connection's queue and a received packet keep.  It is kept sorted by    *)
(* type, player and sort number, and a cursor remembers the last insertion *)
(* so that commands that come in order skip the search.  All machines put  *)
(* the commands of a frame on their command list in the order of this      *)
(* list, so the order must not depend on the order of arrival.             *)
(*                                                                         *)
(* The doubly linked list is a sequence, m_lastMessageInserted an index    *)
(* into it (0 for NULL).  Definitions named Mutant... are wrong forms of   *)
(* the definition after them.                                              *)
(***************************************************************************)
EXTENDS Integers, Sequences, FiniteSets, SequencesExt

CONSTANTS
  Commands,       \* the commands that may be added, see Command
  NeedsID(_),     \* DoesCommandRequireACommandID, on types
  MaxLength       \* bound: the longest list explored

(* "type" is the number of the command's NetCommandType; "id" its command  *)
(* ID; "acked" is what an ack names: the ID and the player of the command  *)
(* it acknowledges.  A command that is no ack names <<0, 0>>.              *)
Command == [type : Nat, player : Nat, id : Nat, acked : Nat \X Nat]

ASSUME CommandsAssumption == /\ Commands \subseteq Command
                             /\ \A c \in Commands : NeedsID(c.type) \in BOOLEAN
                             /\ MaxLength \in Nat

IsAck(c) == c.acked # <<0, 0>>

(* getSortNumber: an ack sorts by the command ID it acknowledges. *)
SortNumber(c) == IF IsAck(c) THEN c.acked[1] ELSE c.id

(* isEqualCommandMsg *)
MutantSameID(c, d) == NeedsID(c.type) /\ NeedsID(d.type) /\ c.id = d.id

IsEqual(c, d) ==
  \/ NeedsID(c.type) /\ NeedsID(d.type) /\ c.player = d.player /\ c.id = d.id
  \/ /\ ~NeedsID(c.type) /\ ~NeedsID(d.type)
     /\ c.type = d.type /\ c.player = d.player
     /\ IsAck(c) /\ c.acked = d.acked

VARIABLES
  list,     \* m_first .. m_last
  cursor,   \* m_lastMessageInserted
  offered   \* history: the commands given to addMessage and not removed since

vars == <<list, cursor, offered>>

-----------------------------------------------------------------------------
(* The first place at or after i whose command is not one of those passed. *)
SkipFrom(i, passed) ==
  CHOOSE j \in i .. Len(list) + 1 :
    /\ j = Len(list) + 1 \/ list[j] \notin passed
    /\ \A k \in i .. j - 1 : list[k] \in passed

(* The search: past the smaller types, then past the smaller players of    *)
(* the type, then past the smaller sort numbers of the player.  The two    *)
(* shortcuts at the ends of the list find the same place.                  *)
Smaller(c) == {e \in Commands : e.type < c.type}
SmallerPlayer(c) == {e \in Commands : e.type = c.type /\ e.player < c.player}
SmallerNumber(c) ==
  {e \in Commands : e.type = c.type /\ e.player = c.player /\ SortNumber(e) < SortNumber(c)}

SearchPlace(c) ==
  SkipFrom(SkipFrom(SkipFrom(1, Smaller(c)), SmallerPlayer(c)), SmallerNumber(c))

MutantAnyNext(c) ==
  /\ cursor # 0
  /\ LET last == list[cursor]
     IN  last.type = c.type /\ last.player = c.player /\ last.id < c.id

(* The command right after the cursor, when the command belongs there. *)
FollowsCursor(c) ==
  /\ cursor # 0
  /\ LET last == list[cursor]
     IN  last.type = c.type /\ last.player = c.player /\ last.id < c.id
  /\ \/ cursor = Len(list)
     \/ LET next == list[cursor + 1]
        IN  next.type > c.type \/ next.player > c.player \/ next.id > c.id

Place(c) == IF FollowsCursor(c) THEN cursor + 1 ELSE SearchPlace(c)

(* The one command a new one is compared with before it goes in. *)
ComparedWith(c) ==
  IF FollowsCursor(c) THEN list[cursor]
  ELSE IF SearchPlace(c) = Len(list) + 1 THEN list[Len(list)]
  ELSE list[SearchPlace(c)]

Refused(c) == list # << >> /\ IsEqual(ComparedWith(c), c)

-----------------------------------------------------------------------------
Init == list = << >> /\ cursor = 0 /\ offered = {}

AddMessage(c) ==
  /\ ~Refused(c) /\ Len(list) < MaxLength
  /\ list'    = InsertAt(list, Place(c), c)
  /\ cursor'  = Place(c)
  /\ offered' = offered \cup {c}

(* A command that is there already is not added again. *)
RefuseMessage(c) ==
  /\ Refused(c)
  /\ offered' = offered \cup {c}
  /\ UNCHANGED <<list, cursor>>

MutantKeepsCursor(i) ==
  list' = RemoveAt(list, i) /\ cursor' = cursor /\ offered' = offered \ {list[i]}

RemoveMessage(i) ==
  /\ list'    = RemoveAt(list, i)
  /\ cursor'  = IF cursor = i THEN (IF i = Len(list) THEN 0 ELSE i)
                ELSE IF cursor > i THEN cursor - 1 ELSE cursor
  /\ offered' = offered \ {list[i]}

Reset == list # << >> /\ list' = << >> /\ cursor' = 0 /\ offered' = {}

Next == \/ \E c \in Commands : AddMessage(c) \/ RefuseMessage(c)
        \/ \E i \in DOMAIN list : RemoveMessage(i)
        \/ Reset

Spec == Init /\ [][Next]_vars

-----------------------------------------------------------------------------
(* The list holds commands and the cursor is one of them or NULL. *)
TypeOK == /\ list \in Seq(Commands)
          /\ cursor \in 0 .. Len(list)
          /\ offered \subseteq Commands

Before(c, d) == \/ c.type < d.type
                \/ c.type = d.type /\ c.player < d.player
                \/ c.type = d.type /\ c.player = d.player /\ SortNumber(c) < SortNumber(d)

(* The order of the list is a function of what it holds, whatever the order *)
(* of arrival, the refused duplicates, the removals in between and the      *)
(* state of the cursor: it is strictly sorted.  This is what lets every     *)
(* machine execute the commands of a frame in the same order.               *)
OrderIsCanonical ==
  \A i, j \in DOMAIN list : i < j => Before(list[i], list[j])

(* Nothing is lost and nothing is invented: the list holds each command     *)
(* that was offered and not removed since.  A refused command really was in *)
(* the list, although it was compared with one neighbour only.              *)
HoldsWhatWasOffered == Range(list) = offered

(* "Make sure this command isn't already in the list", addMessage says      *)
(* before every insertion: no two entries are the same command.             *)
NoDuplicates ==
  \A i, j \in DOMAIN list : i # j => ~IsEqual(list[i], list[j])
=============================================================================
