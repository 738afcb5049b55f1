----------------------------- MODULE CodeFilter -----------------------------
(***************************************************************************)
(* What a Bloom filter in memory promises to the processes that use it: a  *)
(* set that only grows until the process stops, and answers that may take  *)
(* any code for a member but never a member for a stranger.  UrlService    *)
(* uses a node's filter in this form (LocalAdd, Rejectable).               *)
(***************************************************************************)

CONSTANTS
    Threads,     \* goroutines that call the filter
    Codes,       \* short codes
    None         \* no answer

VARIABLES
    members,     \* the codes added since the process started
    answers      \* answers[t]: what thread t is told of which code, or None

Init == members = {} /\ answers = [t \in Threads |-> None]

Add(c) == members' = members \cup {c} /\ UNCHANGED answers

Answer(t, c) ==
    /\ answers[t] = None
    /\ \E found \in BOOLEAN :
         /\ c \in members => found
         /\ answers' = [answers EXCEPT ![t] = [code |-> c, found |-> found]]
    /\ UNCHANGED members

Return(t) ==
    /\ answers[t] # None
    /\ answers' = [answers EXCEPT ![t] = None]
    /\ UNCHANGED members

Restart == members' = {} /\ answers' = [t \in Threads |-> None]

Next ==
    \/ \E c \in Codes : Add(c) \/ \E t \in Threads : Answer(t, c)
    \/ \E t \in Threads : Return(t)
    \/ Restart

Spec == Init /\ [][Next]_<<members, answers>>
=============================================================================
