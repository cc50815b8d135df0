----------------------------- MODULE MCAckStages -----------------------------
EXTENDS AckStages

CONSTANTS leave, early, late

MCOrigin == [c \in Commands |-> IF c = leave THEN Leaver ELSE 2]
MCFrame == [c \in Commands |-> CASE c = early -> LeaveFrame - 1
                                 [] c = leave -> LeaveFrame
                                 [] c = late  -> LeaveFrame + 1]
=============================================================================
