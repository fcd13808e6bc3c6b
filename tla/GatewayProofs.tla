---------------------------- MODULE GatewayProofs ----------------------------
(***************************************************************************)
(* The promises of Gateway, proved of its specification.  Bridge mode and  *)
(* client mode implement it, so that they hold of both.                    *)
(***************************************************************************)
EXTENDS Gateway, TLAPS

\* What was answered or is under way is older than what waits, and what was
\* answered is no longer owed.
Older ==
  /\ stage = "free" <=> cur = 0
  /\ \A r \in waiting : cur < r
  /\ \A r \in owed, q \in waiting : r < q
  /\ stage = "taken" => \A r \in owed : r < cur
  /\ stage = "forwarded" => \A r \in owed : r <= cur
  /\ \A i \in 1..Len(served) :
       /\ served[i].resp \notin owed
       /\ stage # "free" => served[i].req < cur
       /\ \A q \in waiting : served[i].req < q

GInv == TypeOK /\ InOrder /\ NoAnswerTwice /\ NeverAhead /\ Older

-----------------------------------------------------------------------------

LEMMA InitGInv == Init => GInv
  BY DEF Init, GInv, TypeOK, InOrder, NoAnswerTwice, NeverAhead, Older

\* A step that gives no answer keeps what is said of the answers given.
LEMMA NoAnswerStep ==
  ASSUME GInv, UNCHANGED served, TypeOK', Older' PROVE GInv'
  BY DEF GInv, InOrder, NoAnswerTwice, NeverAhead

LEMMA ElementIn ==
  ASSUME NEW S, NEW s \in Seq(S), NEW i \in 1..Len(s) PROVE s[i] \in S
  OBVIOUS

\* The answers given name requests that were made.
LEMMA ServedTyped ==
  ASSUME TypeOK
  PROVE  /\ Len(served) \in Nat
         /\ \A i \in 1..Len(served) : /\ served[i] \in [req : 1..asked, resp : 1..asked]
                                      /\ served[i].req \in 1..asked
                                      /\ served[i].resp \in 1..asked
  <1>1. served \in Seq([req : 1..asked, resp : 1..asked])
    BY DEF TypeOK
  <1>2. Len(served) \in Nat
    BY <1>1
  <1>3. \A i \in 1..Len(served) : served[i] \in [req : 1..asked, resp : 1..asked]
    BY <1>1, ElementIn
  <1> QED BY <1>2, <1>3

LEMMA SeqGrows ==
  ASSUME NEW S, NEW T, S \subseteq T, NEW s \in Seq(S) PROVE s \in Seq(T)
  <1>1. s \in [1..Len(s) -> T] /\ Len(s) \in Nat
    OBVIOUS
  <1> QED BY <1>1

LEMMA AskStep == ASSUME GInv, Ask PROVE GInv'
  <1> USE DEF GInv
  <1>1. TypeOK'
    <2>1. asked \in Nat /\ asked' = asked + 1
      BY DEF TypeOK, Ask
    <2>2. 1..asked \subseteq 1..asked'
      BY <2>1
    <2>3. [req : 1..asked, resp : 1..asked] \subseteq [req : 1..asked', resp : 1..asked']
      BY <2>2
    <2>4. served' \in Seq([req : 1..asked', resp : 1..asked'])
      BY <2>3, SeqGrows DEF TypeOK, Ask
    <2> QED BY <2>1, <2>2, <2>4 DEF TypeOK, Ask
  <1>2. /\ asked \in Nat /\ asked' = asked + 1 /\ waiting' = waiting \cup {asked + 1}
        /\ \A r \in owed : r \in 1..asked
        /\ cur \in 0..asked /\ UNCHANGED <<stage, cur, owed, served>>
    BY DEF TypeOK, Ask
  <1>3. \A i \in 1..Len(served) : served[i].req \in 1..asked
    BY ServedTyped
  <1>4. \A i \in 1..Len(served) : served[i].req < asked + 1
    BY <1>2, <1>3
  <1>5. Older'
    BY <1>2, <1>4 DEF Older
  <1> QED BY <1>1, <1>2, <1>5, NoAnswerStep

LEMMA LoseStep == ASSUME GInv, Lose PROVE GInv'
  <1>1. TypeOK'
    BY SMT DEF GInv, TypeOK, Lose
  <1>2. Older'
    BY DEF GInv, Older, Lose
  <1> QED BY <1>1, <1>2, NoAnswerStep DEF Lose

LEMMA TakeStep == ASSUME GInv, Take PROVE GInv'
  <1>1. TypeOK'
    BY SMT DEF GInv, TypeOK, Take
  <1>2. Older'
    BY SMT DEF GInv, TypeOK, Older, Take
  <1> QED BY <1>1, <1>2, NoAnswerStep DEF Take

LEMMA ForwardStep == ASSUME GInv, Forward PROVE GInv'
  <1>1. TypeOK'
    BY SMT DEF GInv, TypeOK, Older, Forward
  <1>2. \A i \in 1..Len(served) : served[i].resp # cur
    <2>1. \A i \in 1..Len(served) : /\ served[i].req < cur
                                    /\ served[i].resp <= served[i].req
      BY DEF GInv, Older, NeverAhead, Forward
    <2>2. cur \in Nat /\ \A i \in 1..Len(served) : /\ served[i].req \in Nat
                                                   /\ served[i].resp \in Nat
      BY ServedTyped DEF GInv, TypeOK
    <2> QED BY <2>1, <2>2
  <1>3. cur \in Nat /\ \A r \in owed : r \in Nat
    BY DEF GInv, TypeOK
  <1>4. Older'
    BY <1>2, <1>3 DEF GInv, Older, Forward
  <1> QED BY <1>1, <1>4, NoAnswerStep DEF Forward

LEMMA FailStep == ASSUME GInv, Fail PROVE GInv'
  <1>1. TypeOK'
    BY SMT DEF GInv, TypeOK, Fail
  <1>2. \A r \in waiting : 0 < r
    BY DEF GInv, TypeOK
  <1>3. Older'
    BY <1>2 DEF GInv, Older, Fail
  <1> QED BY <1>1, <1>3, NoAnswerStep DEF Fail

\* One more element at the end.
LEMMA Appended ==
  ASSUME NEW S, NEW s \in Seq(S), NEW e
  PROVE  /\ Len(s) \in Nat
         /\ Len(Append(s, e)) = Len(s) + 1
         /\ \A i \in 1..Len(s) : Append(s, e)[i] = s[i]
         /\ Append(s, e)[Len(s) + 1] = e
  OBVIOUS

LEMMA AnswerStep == ASSUME GInv, Answer PROVE GInv'
  <1>1. PICK r \in owed : /\ owed' = owed \ {r}
                          /\ served' = Append(served, [req |-> cur, resp |-> r])
    BY DEF Answer
  <1> DEFINE n == Len(served)
             e == [req |-> cur, resp |-> r]
  <1>2. cur \in 1..asked /\ r \in 1..asked /\ r <= cur /\ asked \in Nat
    BY DEF GInv, TypeOK, Older, Answer
  <1>3. served \in Seq([req : 1..asked, resp : 1..asked])
    BY DEF GInv, TypeOK
  <1>4. /\ Len(served') = n + 1 /\ n \in Nat
        /\ served'[n + 1] = e /\ e.req = cur /\ e.resp = r
        /\ \A i \in 1..n : served'[i] = served[i]
    BY <1>1, <1>3, Appended
  <1>5. \A i \in 1..n : served[i].req \in 1..asked /\ served[i].resp \in 1..asked
    BY ServedTyped DEF GInv
  <1>6. /\ stage = "forwarded" /\ stage' = "free" /\ cur' = 0
        /\ UNCHANGED <<asked, waiting>>
    BY DEF Answer
  <1>7. \A i \in 1..n : /\ served[i].req < cur /\ served[i].resp # r
                        /\ \A q \in waiting : served[i].req < q
    BY <1>6 DEF GInv, Older
  <1>8. \A i \in 1..(n + 1) : i \in 1..n \/ i = n + 1
    BY <1>4
  <1>9. TypeOK'
    <2>1. e \in [req : 1..asked, resp : 1..asked]
      BY <1>2
    <2>2. served' \in Seq([req : 1..asked, resp : 1..asked])
      BY <1>1, <1>3, <2>1
    <2> QED BY <1>1, <1>6, <2>2 DEF GInv, TypeOK
  <1> HIDE DEF n, e
  <1>10. InOrder'
    <2> SUFFICES ASSUME NEW i \in 1..(n + 1), NEW j \in 1..(n + 1), i < j
                 PROVE  served'[i].req < served'[j].req
      BY <1>4 DEF InOrder
    <2>1. i \in 1..n
      BY <1>4
    <2>2. CASE j \in 1..n
      BY <1>4, <2>1, <2>2 DEF GInv, InOrder, n
    <2>3. CASE j = n + 1
      BY <1>4, <1>7, <2>1, <2>3
    <2> QED BY <1>8, <2>2, <2>3
  <1>11. NoAnswerTwice'
    <2> SUFFICES ASSUME NEW i \in 1..(n + 1), NEW j \in 1..(n + 1), i # j
                 PROVE  served'[i].resp # served'[j].resp
      BY <1>4 DEF NoAnswerTwice
    <2>1. CASE i \in 1..n /\ j \in 1..n
      BY <1>4, <2>1 DEF GInv, NoAnswerTwice, n
    <2>2. CASE i = n + 1 /\ j \in 1..n
      BY <1>4, <1>7, <2>2
    <2>3. CASE j = n + 1 /\ i \in 1..n
      BY <1>4, <1>7, <2>3
    <2> QED BY <1>8, <2>1, <2>2, <2>3
  <1>12. NeverAhead'
    <2> SUFFICES ASSUME NEW i \in 1..(n + 1) PROVE served'[i].resp <= served'[i].req
      BY <1>4 DEF NeverAhead
    <2>1. CASE i \in 1..n
      BY <1>4, <2>1 DEF GInv, NeverAhead, n
    <2>2. CASE i = n + 1
      BY <1>2, <1>4, <2>2
    <2> QED BY <1>8, <2>1, <2>2
  <1>13. Older'
    <2>1. \A i \in 1..(n + 1) : /\ served'[i].resp \notin owed'
                                /\ \A q \in waiting : served'[i].req < q
      <3> SUFFICES ASSUME NEW i \in 1..(n + 1)
                   PROVE  /\ served'[i].resp \notin owed'
                          /\ \A q \in waiting : served'[i].req < q
        OBVIOUS
      <3>1. CASE i \in 1..n
        BY <1>1, <1>4, <1>7, <3>1 DEF GInv, Older, n
      <3>2. CASE i = n + 1
        BY <1>1, <1>4, <3>2 DEF GInv, Older
      <3> QED BY <1>8, <3>1, <3>2
    <2>2. \A q \in waiting : 0 < q
      BY DEF GInv, TypeOK
    <2> QED BY <1>1, <1>4, <1>6, <2>1, <2>2 DEF GInv, Older
  <1> QED BY <1>9, <1>10, <1>11, <1>12, <1>13 DEF GInv

LEMMA NextGInv == GInv /\ [Next]_vars => GInv'
  <1> SUFFICES ASSUME GInv, [Next]_vars PROVE GInv'
    OBVIOUS
  <1>1. CASE UNCHANGED vars
    BY <1>1 DEF vars, GInv, TypeOK, InOrder, NoAnswerTwice, NeverAhead, Older
  <1> QED BY <1>1, AskStep, LoseStep, TakeStep, ForwardStep, AnswerStep, FailStep DEF Next

\* GInv is inductive.
THEOREM GatewayInductive == Spec => []GInv
  <1> QED BY InitGInv, NextGInv, PTL DEF Spec

\* Requests are answered in the order they were made, none twice, no answer
\* is given twice, and none is of a later request.
THEOREM GatewayPromises == Spec => [](InOrder /\ NoAnswerTwice /\ NeverAhead)
  <1>1. GInv => InOrder /\ NoAnswerTwice /\ NeverAhead
    BY DEF GInv
  <1> QED BY <1>1, GatewayInductive, PTL

\* A request that no other answer is owed beside gets its own.
THEOREM GatewayOwnAnswer == Spec => OwnWhenAlone
  <1>1. ASSUME TypeOK, [Next]_vars, owed \subseteq {cur}, served' # served
        PROVE  served'[Len(served')].resp = served'[Len(served')].req
    <2>1. Answer
      BY <1>1 DEF Next, vars, Ask, Lose, Take, Forward, Fail
    <2>2. served' = Append(served, [req |-> cur, resp |-> cur])
      BY <1>1, <2>1 DEF Answer
    <2>3. served \in Seq([req : 1..asked, resp : 1..asked])
      BY <1>1 DEF TypeOK
    <2>4. Len(served') = Len(served) + 1 /\ served'[Len(served) + 1] = [req |-> cur, resp |-> cur]
      BY <2>2, <2>3
    <2> QED BY <2>4
  <1>2. GInv => TypeOK
    BY DEF GInv
  <1> QED BY <1>1, <1>2, GatewayInductive, PTL DEF Spec, OwnWhenAlone
=============================================================================
