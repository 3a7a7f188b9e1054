----------------------------- MODULE PackPromise -----------------------------
(***************************************************************************)
(* What DuelOpening relies on when it calls a pack provider with one       *)
(* committed reference: the pack opens once, at a time that is never       *)
(* revised; a call that answers "opened" never answers with an earlier     *)
(* time, and answers with that very time as long as the chain's record of  *)
(* the opening is legible to it, which it may stop being and never is      *)
(* again.                                                                  *)
(***************************************************************************)
EXTENDS Integers

CONSTANTS Calls, Times
VARIABLES opened, answer,     \* -1: not opened, not answered
          legible             \* legible[c]: to call c

Init == /\ opened = -1 /\ answer = [c \in Calls |-> -1]
        /\ legible = [c \in Calls |-> TRUE]

\* The listing of the mint overflows, or a call reads one with a gap.
Fade == /\ legible' \in [Calls -> BOOLEAN]
        /\ \A c \in Calls : legible'[c] => legible[c]

Open == opened = -1 /\ opened' \in Times /\ UNCHANGED answer

Answer(c) == /\ opened # -1 /\ answer[c] = -1
             /\ \E t \in Times : /\ t >= opened /\ (legible'[c] => t = opened)
                                 /\ answer' = [answer EXCEPT ![c] = t]
             /\ UNCHANGED opened

Next == Fade /\ (Open \/ (\E c \in Calls : Answer(c)) \/ UNCHANGED <<opened, answer>>)
Spec == Init /\ [][Next]_<<opened, answer, legible>>
=============================================================================
