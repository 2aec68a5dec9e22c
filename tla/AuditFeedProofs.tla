--------------------------- MODULE AuditFeedProofs ---------------------------
(***************************************************************************)
(* Proofs about AuditFeed for any events, filters, limit and number of     *)
(* calls under way: what the log API answers, and what the page shows.     *)
(***************************************************************************)
EXTENDS AuditFeed, NaturalsInduction, SequenceTheorems, WellFoundedInduction, TLAPS

----------------------------------------------------------------------------
(* Rows picked out of a sequence *)

\* A set that holds 0, and n + 1 with every n, holds every number.
LEMMA EveryNumber ==
    ASSUME NEW S, 0 \in S, \A n \in Nat : n \in S => n + 1 \in S
    PROVE  Nat \subseteq S
  <1> DEFINE Out == Nat \ S
  <1>1. SUFFICES ASSUME Out # {}
                 PROVE  FALSE
    OBVIOUS
  <1>2. PICK least \in Out : \A n \in Out : <<n, least>> \notin OpToRel(<, Nat)
    BY <1>1, NatLessThanWellFounded, WFMin
  <1>3. least \in Nat /\ least # 0
    BY <1>2
  <1>4. least - 1 \in Nat /\ least - 1 < least /\ (least - 1) + 1 = least
    BY <1>3
  <1>5. least - 1 \notin Out
    BY <1>2, <1>3, <1>4 DEF OpToRel
  <1>6. QED
    BY <1>2, <1>4, <1>5

Keeps(rows, wanted, upTo, kept) ==
    kept = [n \in 0..upTo |->
              IF n = 0 THEN <<>>
              ELSE IF rows[n] \in wanted THEN Append(kept[n - 1], rows[n]) ELSE kept[n - 1]]

\* The function that Where is defined by exists.
LEMMA KeptExists ==
    ASSUME NEW S, NEW rows \in Seq(S), NEW wanted
    PROVE  \E kept \in [0..Len(rows) -> Seq(S)] : Keeps(rows, wanted, Len(rows), kept)
  <1> DEFINE Good == {n \in Nat : n <= Len(rows) =>
                        \E kept \in [0..n -> Seq(S)] : Keeps(rows, wanted, n, kept)}
  <1>1. 0 \in Good
    <2> DEFINE none == [n \in 0..0 |-> <<>>]
    <2>1. none \in [0..0 -> Seq(S)]
      OBVIOUS
    <2>2. Keeps(rows, wanted, 0, none)
      BY DEF Keeps
    <2>3. QED
      BY <2>1, <2>2
  <1>2. ASSUME NEW n \in Nat, n \in Good
        PROVE  n + 1 \in Good
    <2>1. SUFFICES ASSUME n + 1 <= Len(rows)
                   PROVE  \E kept \in [0..(n + 1) -> Seq(S)] : Keeps(rows, wanted, n + 1, kept)
      OBVIOUS
    <2>2. n <= Len(rows) /\ n + 1 \in 1..Len(rows) /\ rows[n + 1] \in S
      BY <2>1
    <2>3. PICK kept \in [0..n -> Seq(S)] : Keeps(rows, wanted, n, kept)
      BY <1>2, <2>2
    <2> DEFINE last == IF rows[n + 1] \in wanted THEN Append(kept[n], rows[n + 1]) ELSE kept[n]
               more == [m \in 0..(n + 1) |-> IF m = n + 1 THEN last ELSE kept[m]]
    <2>4. last \in Seq(S)
      BY <2>2, <2>3
    <2>5. more \in [0..(n + 1) -> Seq(S)]
      BY <2>3, <2>4
    <2>6. \A m \in 0..n : more[m] = kept[m]
      BY <2>3
    <2>7. \A m \in 0..n : kept[m] = IF m = 0 THEN <<>>
                ELSE IF rows[m] \in wanted THEN Append(kept[m - 1], rows[m]) ELSE kept[m - 1]
      BY <2>3 DEF Keeps
    <2>8. \A m \in 0..(n + 1) : more[m] = IF m = 0 THEN <<>>
                ELSE IF rows[m] \in wanted THEN Append(more[m - 1], rows[m]) ELSE more[m - 1]
      <3> HIDE DEF more
      <3> SUFFICES ASSUME NEW m \in 0..(n + 1)
                   PROVE  more[m] = IF m = 0 THEN <<>>
                ELSE IF rows[m] \in wanted THEN Append(more[m - 1], rows[m]) ELSE more[m - 1]
        OBVIOUS
      <3>1. CASE m = n + 1
        <4>1. m # 0 /\ m - 1 = n /\ n \in 0..n
          BY <3>1
        <4>2. more[m] = last
          BY <3>1 DEF more
        <4>3. more[m - 1] = kept[n]
          BY <4>1, <2>6
        <4>4. QED
          BY <3>1, <4>1, <4>2, <4>3
      <3>2. CASE m = 0
        BY <3>2, <2>6, <2>7
      <3>3. CASE m \in 1..n
        <4>1. m # 0 /\ m \in 0..n /\ m - 1 \in 0..n
          BY <3>3
        <4>2. QED
          BY <4>1, <2>6, <2>7
      <3>4. QED
        BY <3>1, <3>2, <3>3
    <2>9. Keeps(rows, wanted, n + 1, more)
      <3> HIDE DEF last
      <3>1. QED
        BY <2>8 DEF Keeps
    <2>10. QED
      BY <2>5, <2>9
  <1>3. Nat \subseteq Good
    <2> HIDE DEF Good
    <2>1. QED
      BY <1>1, <1>2, EveryNumber
  <1>4. Len(rows) \in Nat
    OBVIOUS
  <1>5. QED
    BY <1>3, <1>4

\* Where is the last value of that function.
LEMMA WhereIsKept ==
    ASSUME NEW S, NEW rows \in Seq(S), NEW wanted
    PROVE  \E kept \in [0..Len(rows) -> Seq(S)] :
              /\ Keeps(rows, wanted, Len(rows), kept)
              /\ Where(rows, wanted) = kept[Len(rows)]
  <1> DEFINE IsKept(kept) == kept = [n \in 0..Len(rows) |->
                IF n = 0 THEN <<>>
                ELSE IF rows[n] \in wanted THEN Append(kept[n - 1], rows[n]) ELSE kept[n - 1]]
             chosen == CHOOSE kept : IsKept(kept)
  <1>1. Where(rows, wanted) = chosen[Len(rows)]
    BY DEF Where
  <1>2. PICK there \in [0..Len(rows) -> Seq(S)] : Keeps(rows, wanted, Len(rows), there)
    BY KeptExists
  <1>3. IsKept(there)
    BY <1>2 DEF Keeps
  <1>4. IsKept(chosen)
    <2> HIDE DEF IsKept
    <2>1. QED
      BY <1>3
  <1> HIDE DEF chosen
  <1>5. Keeps(rows, wanted, Len(rows), chosen)
    BY <1>4 DEF Keeps
  <1>6. chosen \in [0..Len(rows) -> Seq(S)]
    <2> DEFINE Same == {n \in Nat : n <= Len(rows) => chosen[n] = there[n]}
    <2>1. \A n \in 0..Len(rows) : chosen[n] = IF n = 0 THEN <<>>
             ELSE IF rows[n] \in wanted THEN Append(chosen[n - 1], rows[n]) ELSE chosen[n - 1]
      BY <1>5 DEF Keeps
    <2>2. \A n \in 0..Len(rows) : there[n] = IF n = 0 THEN <<>>
             ELSE IF rows[n] \in wanted THEN Append(there[n - 1], rows[n]) ELSE there[n - 1]
      BY <1>2 DEF Keeps
    <2>3. 0 \in Same
      BY <2>1, <2>2
    <2>4. ASSUME NEW n \in Nat, n \in Same
          PROVE  n + 1 \in Same
      <3>1. SUFFICES ASSUME n + 1 <= Len(rows)
                     PROVE  chosen[n + 1] = there[n + 1]
        OBVIOUS
      <3>2. n + 1 \in 0..Len(rows) /\ n + 1 # 0 /\ (n + 1) - 1 = n /\ n <= Len(rows)
        BY <3>1
      <3>3. chosen[n] = there[n]
        BY <2>4, <3>2
      <3>4. QED
        BY <2>1, <2>2, <3>2, <3>3
    <2>5. Nat \subseteq Same
      <3> HIDE DEF Same
      <3>1. QED
        BY <2>3, <2>4, EveryNumber
    <2>6. \A n \in 0..Len(rows) : chosen[n] = there[n]
      BY <2>5
    <2>7. chosen = [n \in 0..Len(rows) |-> chosen[n]]
      BY <1>5 DEF Keeps
    <2>8. QED
      BY <2>6, <2>7
  <1>7. QED
    BY <1>1, <1>5, <1>6

\* part holds those of the first upTo rows that are wanted and no other, in the order
\* they are in: its j-th row is the at[j]-th of rows.
Picks(part, rows, upTo, wanted, at) ==
    /\ at \in [1..Len(part) -> 1..upTo]
    /\ \A i, j \in 1..Len(part) : i < j => at[i] < at[j]
    /\ \A j \in 1..Len(part) : j <= at[j]
    /\ \A j \in 1..Len(part) : part[j] = rows[at[j]] /\ part[j] \in wanted
    /\ \A i \in 1..upTo : rows[i] \in wanted => \E j \in 1..Len(part) : at[j] = i

\* One row more, which is not wanted.
LEMMA PicksNot ==
    ASSUME NEW S, NEW rows \in Seq(S), NEW wanted, NEW n \in Nat, NEW part \in Seq(S), NEW at,
           Picks(part, rows, n, wanted, at), rows[n + 1] \notin wanted
    PROVE  Picks(part, rows, n + 1, wanted, at)
  <1>1. \A i \in 1..(n + 1) : i \in 1..n \/ i = n + 1
    OBVIOUS
  <1>2. 1..n \subseteq 1..(n + 1)
    OBVIOUS
  <1>3. QED
    BY <1>1, <1>2 DEF Picks

\* One row more, which is wanted.
LEMMA PicksOneMore ==
    ASSUME NEW S, NEW rows \in Seq(S), NEW wanted, NEW n \in Nat, NEW part \in Seq(S), NEW at,
           Picks(part, rows, n, wanted, at), rows[n + 1] \in S, rows[n + 1] \in wanted
    PROVE  \E longer : Picks(Append(part, rows[n + 1]), rows, n + 1, wanted, longer)
  <1> DEFINE k == Len(part)
             more == Append(part, rows[n + 1])
             longer == [j \in 1..(k + 1) |-> IF j = k + 1 THEN n + 1 ELSE at[j]]
  <1>1. k \in Nat /\ Len(more) = k + 1 /\ more[k + 1] = rows[n + 1]
        /\ \A j \in 1..k : more[j] = part[j]
    OBVIOUS
  <1> HIDE DEF more, k
  <1>2. /\ at \in [1..k -> 1..n]
        /\ \A i, j \in 1..k : i < j => at[i] < at[j]
        /\ \A j \in 1..k : j <= at[j]
        /\ \A j \in 1..k : part[j] = rows[at[j]] /\ part[j] \in wanted
        /\ \A i \in 1..n : rows[i] \in wanted => \E j \in 1..k : at[j] = i
    BY DEF Picks, k
  <1>3. \A j \in 1..k : longer[j] = at[j] /\ at[j] \in 1..n
    BY <1>1, <1>2
  <1>4. longer[k + 1] = n + 1 /\ longer \in [1..(k + 1) -> 1..(n + 1)]
    <2>1. \A j \in 1..(k + 1) : j = k + 1 \/ j \in 1..k
      BY <1>1
    <2>2. 1..n \subseteq 1..(n + 1) /\ n + 1 \in 1..(n + 1) /\ k + 1 \in 1..(k + 1)
      BY <1>1
    <2>3. longer[k + 1] = n + 1
      BY <2>2
    <2>4. \A j \in 1..(k + 1) : longer[j] \in 1..(n + 1)
      BY <1>3, <2>1, <2>2, <2>3
    <2>5. QED
      BY <2>3, <2>4
  <1>5. \A j \in 1..(k + 1) : j \in 1..k \/ j = k + 1
    BY <1>1
  <1>6. k <= n
    <2>1. CASE k = 0
      BY <2>1
    <2>2. CASE k # 0
      <3>1. k \in 1..k
        BY <1>1, <2>2
      <3>2. QED
        BY <1>1, <1>2, <1>3, <3>1
    <2>3. QED
      BY <2>1, <2>2
  <1> HIDE DEF longer
  <1>7. \A i, j \in 1..(k + 1) : i < j => longer[i] < longer[j]
    BY <1>1, <1>2, <1>3, <1>4, <1>5
  <1>8. \A j \in 1..(k + 1) : j <= longer[j]
    BY <1>1, <1>2, <1>3, <1>4, <1>5, <1>6
  <1>9. \A j \in 1..(k + 1) : more[j] = rows[longer[j]] /\ more[j] \in wanted
    BY <1>1, <1>2, <1>3, <1>4, <1>5
  <1>10. \A i \in 1..(n + 1) : rows[i] \in wanted => \E j \in 1..(k + 1) : longer[j] = i
    <2>1. \A i \in 1..(n + 1) : i \in 1..n \/ i = n + 1
      OBVIOUS
    <2>2. 1..k \subseteq 1..(k + 1) /\ k + 1 \in 1..(k + 1)
      BY <1>1
    <2>3. QED
      BY <1>2, <1>3, <1>4, <2>1, <2>2
  <1>11. Picks(more, rows, n + 1, wanted, longer)
    BY <1>1, <1>4, <1>7, <1>8, <1>9, <1>10 DEF Picks
  <1>12. QED
    BY <1>11 DEF more

\* What Where computes, whatever the rows.
LEMMA WherePicks ==
    ASSUME NEW S, NEW rows \in Seq(S), NEW wanted
    PROVE  /\ Where(rows, wanted) \in Seq(S)
           /\ \E at : Picks(Where(rows, wanted), rows, Len(rows), wanted, at)
  <1>1. PICK kept \in [0..Len(rows) -> Seq(S)] :
              Keeps(rows, wanted, Len(rows), kept) /\ Where(rows, wanted) = kept[Len(rows)]
    BY WhereIsKept
  <1>2. \A n \in 0..Len(rows) : kept[n] = IF n = 0 THEN <<>>
             ELSE IF rows[n] \in wanted THEN Append(kept[n - 1], rows[n]) ELSE kept[n - 1]
    BY <1>1 DEF Keeps
  <1> DEFINE Done == {n \in Nat : n <= Len(rows) => \E at : Picks(kept[n], rows, n, wanted, at)}
  <1>3. 0 \in Done
    <2>1. kept[0] = <<>>
      BY <1>2
    <2>2. Picks(<<>>, rows, 0, wanted, [j \in 1..0 |-> 0])
      BY DEF Picks
    <2>3. QED
      BY <2>1, <2>2
  <1>4. ASSUME NEW n \in Nat, n \in Done
        PROVE  n + 1 \in Done
    <2>1. SUFFICES ASSUME n + 1 <= Len(rows)
                   PROVE  \E at : Picks(kept[n + 1], rows, n + 1, wanted, at)
      OBVIOUS
    <2>2. n \in 0..Len(rows) /\ n + 1 \in 0..Len(rows) /\ n + 1 # 0 /\ (n + 1) - 1 = n
      BY <2>1
    <2>3. rows[n + 1] \in S /\ kept[n] \in Seq(S)
      BY <1>1, <2>1, <2>2
    <2>4. PICK at : Picks(kept[n], rows, n, wanted, at)
      BY <1>4, <2>2
    <2>5. CASE rows[n + 1] \in wanted
      <3>1. kept[n + 1] = Append(kept[n], rows[n + 1])
        BY <1>2, <2>2, <2>5
      <3>2. QED
        BY <2>3, <2>4, <2>5, <3>1, PicksOneMore
    <2>6. CASE rows[n + 1] \notin wanted
      <3>1. kept[n + 1] = kept[n]
        BY <1>2, <2>2, <2>6
      <3>2. QED
        BY <2>3, <2>4, <2>6, <3>1, PicksNot
    <2>7. QED
      BY <2>5, <2>6
  <1>5. Nat \subseteq Done
    <2> HIDE DEF Done
    <2>1. QED
      BY <1>3, <1>4, EveryNumber
  <1>6. QED
    BY <1>1, <1>5

----------------------------------------------------------------------------
(* What the log API answers *)

\* rows hold the at[j]-th row of the log in place j, newest first.
Newest(rows, at) ==
    /\ at \in [1..Len(rows) -> 1..Len(log)]
    /\ \A i, j \in 1..Len(rows) : i < j => at[i] < at[j]
    /\ \A j \in 1..Len(rows) : rows[j] = log[at[j]]

\* There are Limit rows of the door that are newer than the i-th of the log.
Crowded(i, asked) ==
    \E newer \in [1..Limit -> 1..(i - 1)] :
        /\ \A j, k \in 1..Limit : j < k => newer[j] < newer[k]
        /\ \A j \in 1..Limit : Asked(log[newer[j]].door, asked.door)

\* An answer of GetLogs has at most Limit rows, all of which match the door and the
\* method that are asked for, newest first; and a row that matches is missing from it
\* only when Limit rows of the door are newer, whatever their method.
THEOREM AnswerIsNewest ==
    ASSUME log \in Seq(Event), NEW asked
    PROVE  /\ Answer(asked) \in Seq(Event) /\ Len(Answer(asked)) <= Limit
           /\ \A j \in DOMAIN Answer(asked) : Matches(Answer(asked)[j], asked)
           /\ \E at : /\ Newest(Answer(asked), at)
                      /\ \A i \in 1..Len(log) : Matches(log[i], asked) =>
                            Crowded(i, asked) \/ \E j \in 1..Len(Answer(asked)) : at[j] = i
  <1> DEFINE recent == Where(log, OfDoor(asked))
             m == IF Len(recent) < Limit THEN Len(recent) ELSE Limit
             taken == SubSeq(recent, 1, m)
             answer == Where(taken, OfMethod(asked))
  <1>1. Answer(asked) = answer
    BY DEF Answer
  <1>2. recent \in Seq(Event)
    BY WherePicks
  <1>3. PICK of : Picks(recent, log, Len(log), OfDoor(asked), of)
    BY WherePicks
  <1> HIDE DEF recent
  <1>4. m \in Nat /\ m <= Len(recent) /\ m <= Limit
    BY <1>2, BoundsAssumption
  <1>5. /\ taken \in Seq(Event) /\ Len(taken) = m
        /\ \A j \in 1..m : taken[j] = recent[j]
    BY <1>2, <1>4
  <1> HIDE DEF taken, m
  <1>6. answer \in Seq(Event)
    BY <1>5, WherePicks
  <1>7. PICK to : Picks(answer, taken, m, OfMethod(asked), to)
    BY <1>5, WherePicks
  <1> HIDE DEF answer
  <1>8. \A j \in 1..Len(answer) : to[j] \in 1..m /\ to[j] \in 1..Len(recent) /\ j <= to[j]
    BY <1>4, <1>7 DEF Picks
  <1>9. Len(answer) <= m
    <2>1. CASE Len(answer) = 0
      BY <1>4, <2>1
    <2>2. CASE Len(answer) # 0
      <3>1. Len(answer) \in 1..Len(answer)
        BY <1>6, <2>2
      <3>2. QED
        BY <1>4, <1>6, <1>8, <3>1
    <2>3. QED
      BY <2>1, <2>2
  <1> DEFINE at == [j \in 1..Len(answer) |-> of[to[j]]]
  <1>10. \A j \in 1..Len(answer) : at[j] \in 1..Len(log) /\ answer[j] = log[at[j]]
    BY <1>3, <1>5, <1>7, <1>8 DEF Picks
  <1>11. \A i, j \in 1..Len(answer) : i < j => at[i] < at[j]
    BY <1>3, <1>7, <1>8 DEF Picks
  <1>12. \A j \in 1..Len(answer) : Matches(answer[j], asked)
    <2>1. \A j \in 1..Len(answer) : answer[j] = recent[to[j]] /\ answer[j] \in OfMethod(asked)
      BY <1>5, <1>7, <1>8 DEF Picks
    <2>2. \A j \in 1..Len(answer) : recent[to[j]] \in OfDoor(asked)
      BY <1>3, <1>8 DEF Picks
    <2>3. QED
      BY <2>1, <2>2 DEF Matches, OfDoor, OfMethod
  <1>13. ASSUME NEW i \in 1..Len(log), Matches(log[i], asked)
         PROVE  Crowded(i, asked) \/ \E j \in 1..Len(answer) : at[j] = i
    <2>1. log[i] \in OfDoor(asked) /\ log[i] \in OfMethod(asked)
      BY <1>13 DEF Matches, OfDoor, OfMethod
    <2>2. PICK p \in 1..Len(recent) : of[p] = i
      BY <1>3, <2>1 DEF Picks
    <2>3. CASE p <= m
      <3>1. p \in 1..m /\ taken[p] = log[i]
        BY <1>3, <1>4, <1>5, <2>2, <2>3 DEF Picks
      <3>2. PICK j \in 1..Len(answer) : to[j] = p
        BY <1>7, <2>1, <3>1 DEF Picks
      <3>3. QED
        BY <2>2, <3>2
    <2>4. CASE ~(p <= m)
      <3>1. m = Limit /\ Limit \in Nat /\ p > Limit
        BY <1>2, <1>4, <2>4, BoundsAssumption DEF m
      <3> DEFINE newer == [j \in 1..Limit |-> of[j]]
      <3>2. \A j \in 1..Limit : j \in 1..Len(recent) /\ j < p
        BY <1>2, <3>1
      <3>3. \A j \in 1..Limit : newer[j] \in 1..Len(log) /\ newer[j] < i
        BY <1>3, <2>2, <3>2 DEF Picks
      <3>4. \A j, k \in 1..Limit : j < k => newer[j] < newer[k]
        BY <1>3, <3>2 DEF Picks
      <3>5. \A j \in 1..Limit : log[newer[j]] \in OfDoor(asked)
        BY <1>3, <3>2 DEF Picks
      <3>6. newer \in [1..Limit -> 1..(i - 1)]
        BY <3>3
      <3> HIDE DEF newer
      <3>7. QED
        BY <3>4, <3>5, <3>6 DEF Crowded, OfDoor
    <2>5. QED
      BY <2>3, <2>4
  <1>14. Newest(answer, at)
    BY <1>10, <1>11 DEF Newest
  <1>15. DOMAIN answer = 1..Len(answer)
    BY <1>6
  <1>16. Len(answer) <= Limit
    BY <1>4, <1>6, <1>9, BoundsAssumption
  <1> HIDE DEF at
  <1>17. QED
    BY <1>1, <1>6, <1>12, <1>13, <1>14, <1>15, <1>16

----------------------------------------------------------------------------
(* Types *)

Calls == CallType({"logs"}, {}, Filter, Event)

\* What is answered is the log's answer to what was asked, or nothing at all.
Fits(c) ==
    /\ Len(c.answer) <= Limit
    /\ c.stage = "answered" => \A i \in DOMAIN c.answer : Matches(c.answer[i], c.body)

Honest == \A r \in Request : Fits(wire[r])

\* Only the store changes, or only the log.
LEMMA AnswersFit ==
    ASSUME TypeOK, Honest, NEW r \in Request, Serve(r)
    PROVE  wire' \in [Request -> Calls] /\ Honest'
  <1> DEFINE answer == Answer(wire[r].body)
             call == [wire[r] EXCEPT !.stage = "answered", !.answer = answer]
  <1>1. log \in Seq(Event) /\ wire[r] \in Calls /\ wire \in [Request -> Calls]
    BY DEF TypeOK, Calls
  <1>2. /\ answer \in Seq(Event) /\ Len(answer) <= Limit
        /\ \A j \in DOMAIN answer : Matches(answer[j], wire[r].body)
    BY <1>1, AnswerIsNewest
  <1> HIDE DEF answer
  <1>3. wire' = [wire EXCEPT ![r] = call]
    BY DEF Serve, Ok, Becomes, answer
  <1>4. call \in Calls /\ call.stage = "answered" /\ call.answer = answer /\ call.body = wire[r].body
    BY <1>1, <1>2 DEF Calls, CallType, Stage
  <1>5. Fits(call)
    BY <1>2, <1>4 DEF Fits
  <1> HIDE DEF call
  <1>6. wire' \in [Request -> Calls]
    BY <1>1, <1>3, <1>4
  <1>7. \A q \in Request : wire'[q] = IF q = r THEN call ELSE wire[q]
    BY <1>1, <1>3
  <1>8. Honest'
    BY <1>5, <1>7 DEF Honest
  <1>9. QED
    BY <1>6, <1>8

\* A call that has just been sent, and a request that has become free again.
LEMMA NewCalls ==
    ASSUME NEW asked \in Filter
    PROVE  /\ Call("logs", Nothing, asked) \in Calls /\ Fits(Call("logs", Nothing, asked))
           /\ NoCall \in Calls /\ Fits(NoCall)
           /\ Call("logs", Nothing, asked).kind = "logs" /\ NoCall.kind = "free"
           /\ Call("logs", Nothing, asked).body = asked
  <1>1. <<>> \in Seq(Event) /\ Len(<<>>) = 0
    OBVIOUS
  <1>2. QED
    BY <1>1, BoundsAssumption DEF Call, NoCall, Calls, CallType, Stage, Fits

\* One call has changed.
LEMMA OneCall ==
    ASSUME wire \in [Request -> Calls], Honest, NEW r \in Request, NEW call \in Calls, Fits(call),
           Becomes(r, call)
    PROVE  wire' \in [Request -> Calls] /\ Honest'
           /\ wire' = [wire EXCEPT ![r] = call]
  <1>1. wire' = [wire EXCEPT ![r] = call]
    BY DEF Becomes
  <1>2. \A q \in Request : wire'[q] = IF q = r THEN call ELSE wire[q]
    BY <1>1
  <1>3. QED
    BY <1>1, <1>2 DEF Honest

\* The calls under way after a call is sent.
LEMMA SendJoins ==
    ASSUME wire \in [Request -> Calls], NEW r \in Request, NEW call, call.kind = "logs",
           Free(r), wire' = [wire EXCEPT ![r] = call]
    PROVE  r \notin UnderWay /\ UnderWay' = UnderWay \cup {r}
  BY DEF UnderWay, InFlight, Free

\* The calls under way after a call has ended.
LEMMA EndLeaves ==
    ASSUME wire \in [Request -> Calls], NEW r \in Request,
           wire[r].kind = "logs", wire' = [wire EXCEPT ![r] = NoCall]
    PROVE  r \in UnderWay /\ UnderWay' = UnderWay \ {r}
  BY DEF UnderWay, InFlight, NoCall, Call

\* Serving or losing a call leaves it under way.
LEMMA StillUnderWay ==
    ASSUME wire \in [Request -> Calls], NEW r \in Request, NEW call, call.kind = wire[r].kind,
           wire' = [wire EXCEPT ![r] = call]
    PROVE  UnderWay' = UnderWay
  BY DEF UnderWay, InFlight

LEMMA SentLast ==
    ASSUME SentInTurn, NEW r \in Request, r \notin UnderWay, UnderWay' = UnderWay \cup {r},
           order' = order \cup (UnderWay \X {r})
    PROVE  SentInTurn'
  <1>1. \A p, q : <<p, q>> \in order' <=> <<p, q>> \in order \/ (p \in UnderWay /\ q = r)
    OBVIOUS
  <1>2. \A p, q : <<p, q>> \in order => p \in UnderWay /\ q \in UnderWay
    BY DEF SentInTurn
  <1>3. order' \subseteq UnderWay' \X UnderWay'
    BY DEF SentInTurn
  <1>4. \A p, q \in UnderWay' : p # q => (<<p, q>> \in order' <=> <<q, p>> \notin order')
    <2> SUFFICES ASSUME NEW p \in UnderWay', NEW q \in UnderWay', p # q
                 PROVE  <<p, q>> \in order' <=> <<q, p>> \notin order'
      OBVIOUS
    <2>1. CASE p = r
      BY <1>1, <1>2, <2>1
    <2>2. CASE q = r
      BY <1>1, <1>2, <2>2
    <2>3. CASE p \in UnderWay /\ q \in UnderWay
      BY <1>1, <1>2, <2>3 DEF SentInTurn
    <2>4. QED
      BY <2>1, <2>2, <2>3
  <1>5. \A q \in UnderWay' : <<q, q>> \notin order'
    BY <1>1, <1>2 DEF SentInTurn
  <1>6. \A p, q, s \in UnderWay' :
            <<p, q>> \in order' /\ <<q, s>> \in order' => <<p, s>> \in order'
    BY <1>1, <1>2 DEF SentInTurn
  <1>7. QED
    BY <1>3, <1>4, <1>5, <1>6 DEF SentInTurn

LEMMA EndedOut ==
    ASSUME SentInTurn, NEW r \in Request, UnderWay' = UnderWay \ {r},
           order' = {sent \in order : sent[1] # r /\ sent[2] # r}
    PROVE  SentInTurn'
  <1>1. \A p, q : <<p, q>> \in order' <=> <<p, q>> \in order /\ p # r /\ q # r
    OBVIOUS
  <1>2. order' \subseteq UnderWay' \X UnderWay'
    BY DEF SentInTurn
  <1>3. QED
    BY <1>1, <1>2 DEF SentInTurn

\* While no call was overtaken or failed, the one that was sent last asks for what is
\* chosen, and when none is under way the list holds rows that match it.
Current ==
    ~overtaken =>
        /\ \A r \in UnderWay :
              (\A q \in UnderWay : <<r, q>> \notin order) => wire[r].body = filter
        /\ UnderWay = {} => \A i \in DOMAIN logs : Matches(logs[i], filter)

FeedInv == TypeOK /\ Honest /\ Current

LEMMA FeedInit == Init => FeedInv
  <1> SUFFICES ASSUME Init
               PROVE  FeedInv
    OBVIOUS
  <1>1. PICK r \in Request :
           wire = [q \in Request |-> IF q = r THEN Call("logs", Nothing, All) ELSE NoCall]
    BY DEF Init
  <1>2. All \in Filter
    BY FilterAssumption
  <1>3. wire \in [Request -> Calls] /\ Honest
    BY <1>1, <1>2, NewCalls DEF Honest
  <1>4. UnderWay = {r} /\ wire[r].body = All
    BY <1>1, <1>2, NewCalls DEF UnderWay, InFlight
  <1>5. order = {} /\ log = <<>> /\ logs = <<>> /\ filter = All /\ isLoading = TRUE /\ overtaken = FALSE
    BY DEF Init
  <1>6. SentInTurn
    BY <1>4, <1>5 DEF SentInTurn
  <1>7. <<>> \in Seq(Event) /\ Len(<<>>) = 0
    OBVIOUS
  <1>8. TypeOK
    <2>1. log \in Seq(Event) /\ Len(log) <= MaxLog /\ logs \in Seq(Event) /\ Len(logs) <= Limit
      BY <1>5, <1>7, BoundsAssumption
    <2>2. filter \in Filter /\ isLoading \in BOOLEAN /\ overtaken \in BOOLEAN
      BY <1>2, <1>5
    <2>3. QED
      BY <1>3, <1>6, <2>1, <2>2 DEF TypeOK, Calls
  <1>9. Current
    BY <1>4, <1>5 DEF Current
  <1>10. QED
    BY <1>3, <1>8, <1>9 DEF FeedInv

\* A call for what is chosen is sent.
LEMMA FeedFetch ==
    ASSUME FeedInv, NEW r \in Request, NEW asked \in Filter, fetchLogs(r, asked), filter' = asked
    PROVE  FeedInv'
  <1> DEFINE call == Call("logs", Nothing, asked)
  <1>1. TypeOK /\ Honest /\ wire \in [Request -> Calls]
    BY DEF FeedInv, TypeOK, Calls
  <1>2. call \in Calls /\ Fits(call) /\ call.kind = "logs" /\ call.body = asked
    BY NewCalls
  <1>3. Free(r) /\ Becomes(r, call)
    BY DEF fetchLogs, Send
  <1> HIDE DEF call
  <1>4. wire' \in [Request -> Calls] /\ Honest' /\ wire' = [wire EXCEPT ![r] = call]
    BY <1>1, <1>2, <1>3, OneCall
  <1>5. r \notin UnderWay /\ UnderWay' = UnderWay \cup {r}
    BY <1>1, <1>2, <1>3, <1>4, SendJoins
  <1>6. /\ order' = order \cup (UnderWay \X {r})
        /\ overtaken' = (overtaken /\ UnderWay # {})
        /\ isLoading' = TRUE /\ log' = log /\ logs' = logs
    BY DEF fetchLogs
  <1>7. SentInTurn'
    BY <1>1, <1>5, <1>6, SentLast DEF TypeOK
  <1>8. TypeOK'
    BY <1>1, <1>4, <1>6, <1>7 DEF TypeOK, Calls
  <1>9. ASSUME NEW q \in UnderWay', \A p \in UnderWay' : <<q, p>> \notin order'
        PROVE  wire'[q].body = filter'
    <2>1. r \in UnderWay'
      BY <1>5
    <2>2. q \notin UnderWay
      BY <1>6, <1>9, <2>1
    <2>3. q = r
      BY <1>5, <2>2
    <2>4. QED
      BY <1>1, <1>2, <1>4, <2>3
  <1>10. Current'
    BY <1>5, <1>9 DEF Current
  <1>11. QED
    BY <1>4, <1>8, <1>10 DEF FeedInv

\* What happens to a call that stays under way, or to the log alone, changes neither
\* what is asked for nor what is shown.
LEMMA FeedServed ==
    ASSUME FeedInv, UNCHANGED <<store, order, overtaken>>,
           wire' \in [Request -> Calls], Honest', log' \in Seq(Event), Len(log') <= MaxLog,
           UnderWay' = UnderWay, \A r \in Request : wire'[r].body = wire[r].body
    PROVE  FeedInv'
  <1>1. logs' = logs /\ filter' = filter /\ isLoading' = isLoading
    BY DEF store
  <1>2. order' = order /\ overtaken' = overtaken
    OBVIOUS
  <1>3. SentInTurn'
    BY <1>2 DEF FeedInv, TypeOK, SentInTurn
  <1>4. TypeOK'
    BY <1>1, <1>2, <1>3 DEF FeedInv, TypeOK, Calls
  <1>5. UnderWay \subseteq Request
    BY DEF UnderWay, InFlight
  <1>6. Current'
    BY <1>1, <1>2, <1>5 DEF FeedInv, Current
  <1>7. QED
    BY <1>4, <1>6 DEF FeedInv

LEMMA FeedServe ==
    ASSUME FeedInv, NEW r \in Request, Serve(r)
    PROVE  FeedInv'
  <1> DEFINE call == [wire[r] EXCEPT !.stage = "answered", !.answer = Answer(wire[r].body)]
  <1>1. TypeOK /\ Honest /\ wire \in [Request -> Calls]
    BY DEF FeedInv, TypeOK, Calls
  <1>2. wire' \in [Request -> Calls] /\ Honest'
    BY <1>1, AnswersFit
  <1>3. wire' = [wire EXCEPT ![r] = call]
    BY DEF Serve, Ok, Becomes
  <1>4. wire[r] \in Calls
    BY <1>1
  <1>5. call.kind = wire[r].kind /\ call.body = wire[r].body
    BY <1>4 DEF Calls, CallType
  <1> HIDE DEF call
  <1>6. UnderWay' = UnderWay
    BY <1>1, <1>3, <1>5, StillUnderWay
  <1>7. \A q \in Request : wire'[q].body = wire[q].body
    BY <1>1, <1>3, <1>5
  <1>8. log' = log /\ UNCHANGED <<store, order, overtaken>>
    BY DEF Serve
  <1>9. log' \in Seq(Event) /\ Len(log') <= MaxLog
    BY <1>1, <1>8 DEF TypeOK
  <1>10. QED
    BY <1>2, <1>6, <1>7, <1>8, <1>9, FeedServed

LEMMA FeedLose ==
    ASSUME FeedInv, NEW r \in Request, Lose(r)
    PROVE  FeedInv'
  <1> DEFINE call == [wire[r] EXCEPT !.stage = "failed", !.answer = <<>>]
  <1>1. TypeOK /\ Honest /\ wire \in [Request -> Calls]
    BY DEF FeedInv, TypeOK, Calls
  <1>2. Becomes(r, call)
    BY DEF Lose, Lost
  <1>3. wire[r] \in Calls /\ <<>> \in Seq(Event) /\ Len(<<>>) = 0
    BY <1>1
  <1>4. /\ call \in Calls /\ call.kind = wire[r].kind /\ call.body = wire[r].body
        /\ call.stage = "failed" /\ call.answer = <<>>
    BY <1>3 DEF Calls, CallType, Stage
  <1> HIDE DEF call
  <1>5. Fits(call)
    BY <1>3, <1>4, BoundsAssumption DEF Fits
  <1>6. wire' \in [Request -> Calls] /\ Honest' /\ wire' = [wire EXCEPT ![r] = call]
    BY <1>1, <1>2, <1>4, <1>5, OneCall
  <1>7. UnderWay' = UnderWay
    BY <1>1, <1>4, <1>6, StillUnderWay
  <1>8. \A q \in Request : wire'[q].body = wire[q].body
    BY <1>1, <1>4, <1>6
  <1>9. log' = log /\ UNCHANGED <<store, order, overtaken>>
    BY DEF Lose
  <1>10. log' \in Seq(Event) /\ Len(log') <= MaxLog
    BY <1>1, <1>9 DEF TypeOK
  <1>11. QED
    BY <1>6, <1>7, <1>8, <1>9, <1>10, FeedServed

LEMMA FeedWrite ==
    ASSUME FeedInv, Write
    PROVE  FeedInv'
  <1>1. wire' = wire /\ UNCHANGED <<store, order, overtaken>>
    BY DEF Write
  <1>2. TypeOK /\ Honest /\ wire \in [Request -> Calls]
    BY DEF FeedInv, TypeOK, Calls
  <1>3. PICK e \in Event : log' = <<e>> \o log
    BY DEF Write
  <1>4. log \in Seq(Event) /\ Len(log) < MaxLog /\ <<e>> \in Seq(Event)
    BY <1>2 DEF TypeOK, Write
  <1>5. log' \in Seq(Event) /\ Len(log') = Len(log) + 1
    BY <1>3, <1>4
  <1>6. Len(log') <= MaxLog
    BY <1>4, <1>5, BoundsAssumption
  <1>7. UnderWay' = UnderWay /\ Honest' /\ wire' \in [Request -> Calls]
        /\ \A r \in Request : wire'[r].body = wire[r].body
    BY <1>1, <1>2 DEF UnderWay, InFlight, Honest
  <1>8. QED
    BY <1>1, <1>5, <1>6, <1>7, FeedServed

\* The rows that are left when a door is deleted are no more than there were.
LEMMA WhereIsShorter ==
    ASSUME NEW S, NEW rows \in Seq(S), NEW wanted
    PROVE  Len(Where(rows, wanted)) <= Len(rows)
  <1> DEFINE kept == Where(rows, wanted)
  <1>1. kept \in Seq(S)
    BY WherePicks
  <1>2. PICK at : Picks(kept, rows, Len(rows), wanted, at)
    BY WherePicks
  <1> HIDE DEF kept
  <1>3. \A j \in 1..Len(kept) : at[j] \in 1..Len(rows) /\ j <= at[j]
    BY <1>2 DEF Picks
  <1>4. Len(kept) \in Nat /\ Len(rows) \in Nat
    BY <1>1
  <1>5. Len(kept) # 0 => Len(kept) \in 1..Len(kept)
    BY <1>4
  <1>6. Len(kept) <= Len(rows)
    BY <1>3, <1>4, <1>5
  <1>7. QED
    BY <1>6 DEF kept

LEMMA FeedDeleteDoor ==
    ASSUME FeedInv, DeleteDoor
    PROVE  FeedInv'
  <1>1. wire' = wire /\ UNCHANGED <<store, order, overtaken>>
    BY DEF DeleteDoor
  <1>2. TypeOK /\ Honest /\ wire \in [Request -> Calls]
    BY DEF FeedInv, TypeOK, Calls
  <1>3. PICK i \in DOMAIN log : log' = Where(log, {e \in Event : e.door # log[i].door})
    BY DEF DeleteDoor
  <1>4. log \in Seq(Event) /\ Len(log) <= MaxLog
    BY <1>2 DEF TypeOK
  <1>5. log' \in Seq(Event) /\ Len(log') <= Len(log)
    BY <1>3, <1>4, WherePicks, WhereIsShorter
  <1>6. Len(log') <= MaxLog
    BY <1>4, <1>5, BoundsAssumption
  <1>7. UnderWay' = UnderWay /\ Honest' /\ wire' \in [Request -> Calls]
        /\ \A r \in Request : wire'[r].body = wire[r].body
    BY <1>1, <1>2 DEF UnderWay, InFlight, Honest
  <1>8. QED
    BY <1>1, <1>5, <1>6, <1>7, FeedServed

\* A call ends, with an answer or without.
LEMMA FeedEnd ==
    ASSUME FeedInv, NEW r \in Request, Ends(r), wire[r].kind = "logs", Becomes(r, NoCall),
           logs' \in Seq(Event), Len(logs') <= Limit, overtaken' \in BOOLEAN
    PROVE  /\ TypeOK' /\ Honest'
           /\ UnderWay' = UnderWay \ {r} /\ r \in UnderWay
           /\ wire' = [wire EXCEPT ![r] = NoCall] /\ filter' = filter
           /\ \A p, q : <<p, q>> \in order' <=> <<p, q>> \in order /\ p # r /\ q # r
  <1>1. TypeOK /\ Honest /\ wire \in [Request -> Calls]
    BY DEF FeedInv, TypeOK, Calls
  <1>2. NoCall \in Calls /\ Fits(NoCall)
    BY NewCalls, FilterAssumption
  <1>3. wire' \in [Request -> Calls] /\ Honest' /\ wire' = [wire EXCEPT ![r] = NoCall]
    BY <1>1, <1>2, OneCall
  <1>4. r \in UnderWay /\ UnderWay' = UnderWay \ {r}
    BY <1>1, <1>3, EndLeaves
  <1>5. /\ order' = {sent \in order : sent[1] # r /\ sent[2] # r}
        /\ isLoading' = FALSE /\ log' = log /\ filter' = filter
    BY DEF Ends
  <1>6. SentInTurn'
    BY <1>1, <1>4, <1>5, EndedOut DEF TypeOK
  <1>7. TypeOK'
    BY <1>1, <1>3, <1>5, <1>6 DEF TypeOK, Calls
  <1>8. QED
    BY <1>3, <1>4, <1>5, <1>7

LEMMA FeedAnswer ==
    ASSUME FeedInv, NEW r \in Request, fetchLogsEnds(r)
    PROVE  FeedInv'
  <1>1. Asks(r, "logs", "answered") /\ Becomes(r, NoCall) /\ logs' = wire[r].answer /\ Ends(r)
        /\ overtaken' = (overtaken \/ \E q \in UnderWay : <<q, r>> \in order)
    BY DEF fetchLogsEnds, Resolved
  <1>2. wire[r] \in Calls /\ Fits(wire[r]) /\ TypeOK
    BY DEF FeedInv, TypeOK, Calls, Honest
  <1>3. logs' \in Seq(Event) /\ Len(logs') <= Limit
        /\ \A i \in DOMAIN logs' : Matches(logs'[i], wire[r].body)
    BY <1>1, <1>2 DEF Fits, Calls, CallType, Asks
  <1>4. overtaken' \in BOOLEAN
    BY <1>1
  <1>5. /\ TypeOK' /\ Honest'
        /\ UnderWay' = UnderWay \ {r} /\ r \in UnderWay
        /\ wire' = [wire EXCEPT ![r] = NoCall] /\ filter' = filter
        /\ \A p, q : <<p, q>> \in order' <=> <<p, q>> \in order /\ p # r /\ q # r
    BY <1>1, <1>3, <1>4, FeedEnd DEF Asks
  <1>6. ASSUME ~overtaken'
        PROVE  /\ \A q \in UnderWay' :
                    (\A p \in UnderWay' : <<q, p>> \notin order') => wire'[q].body = filter'
               /\ UnderWay' = {} => \A i \in DOMAIN logs' : Matches(logs'[i], filter')
    <2>1. ~overtaken /\ \A q \in UnderWay : <<q, r>> \notin order
      BY <1>1, <1>6
    <2>2. \A q \in UnderWay : (\A p \in UnderWay : <<q, p>> \notin order) => wire[q].body = filter
      BY <2>1 DEF FeedInv, Current
    <2>3. ASSUME NEW q \in UnderWay', \A p \in UnderWay' : <<q, p>> \notin order'
          PROVE  wire'[q].body = filter'
      <3>1. q \in UnderWay /\ q # r /\ q \in Request
        BY <1>5 DEF UnderWay, InFlight
      <3>2. \A p \in UnderWay : <<q, p>> \notin order
        BY <1>5, <2>1, <2>3, <3>1
      <3>3. wire'[q] = wire[q]
        BY <1>5, <3>1 DEF FeedInv, TypeOK
      <3>4. QED
        BY <1>5, <2>2, <3>1, <3>2, <3>3
    <2>4. ASSUME UnderWay' = {}
          PROVE  wire[r].body = filter'
      <3>1. UnderWay = {r}
        BY <1>5, <2>4
      <3>2. \A p \in UnderWay : <<r, p>> \notin order
        BY <1>2, <3>1 DEF TypeOK, SentInTurn
      <3>3. QED
        BY <1>5, <2>2, <3>2
    <2>5. QED
      BY <1>3, <2>3, <2>4
  <1>7. Current'
    BY <1>6 DEF Current
  <1>8. QED
    BY <1>5, <1>7 DEF FeedInv

LEMMA FeedFailure ==
    ASSUME FeedInv, NEW r \in Request, fetchLogsFails(r)
    PROVE  FeedInv'
  <1>1. Asks(r, "logs", "failed") /\ Becomes(r, NoCall) /\ logs' = logs /\ Ends(r) /\ overtaken' = TRUE
    BY DEF fetchLogsFails, Rejected
  <1>2. logs' \in Seq(Event) /\ Len(logs') <= Limit
    BY <1>1 DEF FeedInv, TypeOK
  <1>3. TypeOK' /\ Honest'
    BY <1>1, <1>2, FeedEnd DEF Asks
  <1>4. Current'
    BY <1>1 DEF Current
  <1>5. QED
    BY <1>3, <1>4 DEF FeedInv

LEMMA FeedStep == FeedInv /\ [Next]_vars => FeedInv'
  <1> SUFFICES ASSUME FeedInv, [Next]_vars
               PROVE  FeedInv'
    OBVIOUS
  <1>1. filter \in Filter
    BY DEF FeedInv, TypeOK
  <1>2. ASSUME NEW r \in Request, Mount(r)
        PROVE  FeedInv'
    BY <1>1, <1>2, FeedFetch DEF Mount
  <1>3. ASSUME NEW r \in Request, Refresh(r)
        PROVE  FeedInv'
    BY <1>2, <1>3 DEF Refresh
  <1>4. ASSUME NEW r \in Request, Choose(r)
        PROVE  FeedInv'
    BY <1>4, FeedFetch DEF Choose, setFilter
  <1>5. ASSUME NEW r \in Request, Serve(r) \/ Lose(r) \/ Arrive(r)
        PROVE  FeedInv'
    BY <1>5, FeedServe, FeedLose, FeedAnswer, FeedFailure DEF Arrive
  <1>6. CASE Write \/ DeleteDoor
    BY <1>6, FeedWrite, FeedDeleteDoor
  <1>7. CASE UNCHANGED vars
    <2>1. wire' = wire /\ log' = log /\ UNCHANGED <<store, order, overtaken>>
      BY <1>7 DEF vars
    <2>2. UnderWay' = UnderWay /\ Honest' /\ wire' \in [Request -> Calls]
          /\ \A r \in Request : wire'[r].body = wire[r].body
      BY <2>1 DEF FeedInv, TypeOK, Calls, UnderWay, InFlight, Honest
    <2>3. log' \in Seq(Event) /\ Len(log') <= MaxLog
      BY <2>1 DEF FeedInv, TypeOK
    <2>4. QED
      BY <2>1, <2>2, <2>3, FeedServed
  <1>8. QED
    BY <1>2, <1>3, <1>4, <1>5, <1>6, <1>7 DEF Next

\* Whatever is chosen, answered, lost or written, and in whichever order, every
\* variable of the logs page and the log API has its type: no answer and no list has
\* more than Limit rows, and the calls under way have the order they were sent in.
THEOREM FeedTypeCorrect == Spec => []TypeOK
  <1>1. FeedInv => TypeOK
    BY DEF FeedInv
  <1>2. QED
    BY FeedInit, FeedStep, <1>1, PTL DEF Spec

\* A feed whose calls ended in order and did not fail shows rows of the door and the
\* method that are chosen, for any number of calls under way at the same time.
THEOREM SettledFeedIsChosen == Spec => []SettledFeedMatches
  <1>1. FeedInv => SettledFeedMatches
    BY DEF FeedInv, Current, SettledFeedMatches
  <1>2. QED
    BY FeedInit, FeedStep, <1>1, PTL DEF Spec
=============================================================================
