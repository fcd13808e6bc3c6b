------------------------------- MODULE Gateway -------------------------------
(***************************************************************************)
(* What modbus-bridge-rs promises, whichever way round it works: one party *)
(* makes requests, the other answers them, and the gateway between takes   *)
(* the requests one at a time, forwards each at most once and gives each   *)
(* at most one answer.  Neither side's protocol says which request an      *)
(* answer is for, so that an answer may be another request's: but only one *)
(* that was forwarded, still owed, and never given before.                 *)
(*                                                                         *)
(* Connection and ClientSession implement this specification.              *)
(***************************************************************************)
EXTENDS Integers, Sequences

VARIABLES
  asked,    \* requests made so far; a request is known by its number
  waiting,  \* requests made and not yet taken
  stage,    \* of the exchange under way: "free", "taken" or "forwarded"
  cur,      \* the request of that exchange, 0 when there is none
  owed,     \* forwarded requests whose answer may still come
  served    \* history: the answers given, with the requests they were given to

vars == <<asked, waiting, stage, cur, owed, served>>

Init == /\ asked = 0 /\ waiting = {} /\ owed = {}
        /\ stage = "free" /\ cur = 0 /\ served = <<>>

Ask == /\ asked' = asked + 1 /\ waiting' = waiting \cup {asked'}
       /\ UNCHANGED <<stage, cur, owed, served>>

\* Requests and answers may be lost at any time, none comes back.
Lose == /\ waiting' \subseteq waiting /\ owed' \subseteq owed
        /\ UNCHANGED <<asked, stage, cur, served>>

\* The oldest request that waits.
Take == /\ stage = "free" /\ stage' = "taken"
        /\ cur' \in waiting /\ \A r \in waiting : cur' <= r
        /\ waiting' = waiting \ {cur'}
        /\ UNCHANGED <<asked, owed, served>>

\* The request may never reach the party that answers.
Forward == /\ stage = "taken" /\ stage' = "forwarded"
           /\ owed' \in {owed, owed \cup {cur}}
           /\ UNCHANGED <<asked, waiting, cur, served>>

Answer == /\ stage = "forwarded" /\ stage' = "free" /\ cur' = 0
          /\ \E r \in owed : /\ owed' = owed \ {r}
                             /\ served' = Append(served, [req |-> cur, resp |-> r])
          /\ UNCHANGED <<asked, waiting>>

Fail == /\ stage # "free" /\ stage' = "free" /\ cur' = 0
        /\ waiting' \subseteq waiting /\ owed' \subseteq owed
        /\ UNCHANGED <<asked, served>>

Next == Ask \/ Lose \/ Take \/ Forward \/ Answer \/ Fail

Spec == Init /\ [][Next]_vars

-----------------------------------------------------------------------------
(* What follows from it. *)

TypeOK == /\ asked \in Nat /\ waiting \subseteq 1..asked /\ owed \subseteq 1..asked
          /\ stage \in {"free", "taken", "forwarded"} /\ cur \in 0..asked
          /\ served \in Seq([req : 1..asked, resp : 1..asked])

\* Requests are answered in the order they were made, and none twice.
InOrder == \A i, j \in 1..Len(served) : i < j => served[i].req < served[j].req

\* No answer is given twice.
NoAnswerTwice == \A i, j \in 1..Len(served) : i # j => served[i].resp # served[j].resp

\* An answer is that of the request, or of one made before it.
NeverAhead == \A i \in 1..Len(served) : served[i].resp <= served[i].req

\* When nothing else is owed, the request gets its own answer.
OwnWhenAlone ==
  [][owed \subseteq {cur} /\ served' # served =>
       served'[Len(served')].resp = served'[Len(served')].req]_vars
=============================================================================
