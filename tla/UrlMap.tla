------------------------------- MODULE UrlMap -------------------------------
(***************************************************************************)
(* What NanoLink promises about short codes, whatever the number of API    *)
(* nodes, the caches in front of the table and the faults below it: a code *)
(* is bound to one target for ever, only its owner can deactivate it, and  *)
(* every answer a client gets names the target the code is bound to.       *)
(* UrlService and Engine both implement it (see ImplementsUrlMap there).    *)
(*                                                                         *)
(* The map does not promise that a deactivated link stops being answered:  *)
(* UrlService shows when the program does and does not provide that.       *)
(***************************************************************************)
CONSTANTS
    Requests,   \* the requests in flight
    Codes,      \* short codes
    LongURLs,   \* redirect targets
    Users,      \* owners of API keys
    NoUser,     \* the owner of an anonymous link (user_id IS NULL)
    None        \* no link, no answer

VARIABLES
    links,      \* links[c]: the link bound to code c, or None
    answers     \* answers[r]: what request r has been told, or None

vars == <<links, answers>>

Link == [long: LongURLs, owner: Users \cup {NoUser}, active: BOOLEAN]
Answered == [code: Codes, long: LongURLs]

Init ==
    /\ links = [c \in Codes |-> None]
    /\ answers = [r \in Requests |-> None]

\* A free code is bound to a target; a bound one never is again.
Register(c, long, owner) ==
    /\ links[c] = None
    /\ links' = [links EXCEPT
                   ![c] = [long |-> long, owner |-> owner, active |-> TRUE]]
    /\ UNCHANGED answers

\* The owner of a link, and nobody else, deactivates it, for ever.
Deactivate(c, user) ==
    /\ links[c] # None
    /\ links[c].owner = user
    /\ links' = [links EXCEPT ![c].active = FALSE]
    /\ UNCHANGED answers

\* A request is told the target of a link that exists.
Answer(r, c) ==
    /\ links[c] # None
    /\ answers[r] = None
    /\ answers' = [answers EXCEPT ![r] = [code |-> c, long |-> links[c].long]]
    /\ UNCHANGED links

\* The requests of S end, or their node goes down.
Forget(S) ==
    /\ answers' = [r \in Requests |-> IF r \in S THEN None ELSE answers[r]]
    /\ UNCHANGED links

Next ==
    \/ \E c \in Codes, l \in LongURLs, u \in Users \cup {NoUser} :
          Register(c, l, u)
    \/ \E c \in Codes, u \in Users : Deactivate(c, u)
    \/ \E r \in Requests, c \in Codes : Answer(r, c)
    \/ \E S \in SUBSET Requests : Forget(S)

Spec == Init /\ [][Next]_vars
=============================================================================
