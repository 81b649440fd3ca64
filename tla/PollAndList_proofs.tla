------------------------- MODULE PollAndList_proofs --------------------------
(***************************************************************************)
(* Proofs about the poll, for every interval, patience and grace, and about *)
(* the listing its caller goes on to, for every size of a page and any     *)
(* number of rows that come and go.                                        *)
(***************************************************************************)
EXTENDS PollAndList, SequenceTheorems, TLAPS

-----------------------------------------------------------------------------
(* The poll *)

(* One verdict on its way, from the goroutine over the channel to the caller: *)
(* before the goroutine has ended nothing was sent, so there is room.        *)
OneVerdict ==
    /\ chan \in {<<>>, <<"pass">>, <<"fail">>}
    /\ pc # "ended" => chan = <<>> /\ outcome \in {NoOutcome, "timeout"}
    /\ outcome \in {"done", "failed"} => chan = <<>>

(* What a verdict stands for, wherever it is. *)
Positive == (pc = "send" /\ verdict = "pass") \/ chan = <<"pass">> \/ outcome = "done"

Negative == (pc = "send" /\ verdict = "fail") \/ chan = <<"fail">> \/ outcome = "failed"

Grounded ==
    /\ Positive => seen
    /\ Negative => errCnt >= MaxErrors \/ Overdue
    /\ outcome = "timeout" => clock >= TimeWait

\* The loop goes on only below the limit.
ErrorsBounded == pc \in {"sleep", "query"} => errCnt < MaxErrors

IInv == TypeOK /\ OneVerdict /\ Grounded /\ ErrorsBounded

LEMMA InitIInv == Init => IInv
<1> SUFFICES ASSUME Init PROVE IInv
  OBVIOUS
<1>1. TypeOK
  <2>1. clock <= MaxClock /\ wake \in Nat
    BY TimeAssumption DEF Init
  <2>2. chan \in Seq(Verdict) /\ errCnt \in 0..MaxErrors
    BY DEF Init, MaxErrors
  <2> QED
    BY <2>1, <2>2 DEF Init, TypeOK, Verdict, Outcomes
<1>2. OneVerdict /\ Grounded /\ ErrorsBounded
  BY DEF Init, OneVerdict, Grounded, ErrorsBounded, Positive, Negative, NoOutcome, MaxErrors
<1> QED
  BY <1>1, <1>2 DEF IInv

(* Every step keeps the inductive invariant. *)
LEMMA NextIInv == IInv /\ [Next]_vars => IInv'
<1> SUFFICES ASSUME IInv, [Next]_vars PROVE IInv'
  OBVIOUS
<1> USE TimeAssumption
<1> USE DEF IInv, TypeOK, OneVerdict, Grounded, ErrorsBounded, Positive, Negative,
            Outcomes, NoOutcome, MaxErrors, Overdue, Verdict
<1>1. CASE Wake
  BY <1>1 DEF Wake
<1>2. CASE AnswerPasses
  BY <1>2 DEF AnswerPasses, Decide
<1>3. CASE AnswerFallsShort
  BY <1>3 DEF AnswerFallsShort, Decide, SleepAgain, Later
<1>4. CASE QueryFails
  BY <1>4 DEF QueryFails, Decide, SleepAgain, Later, TooManyErrors
<1>5. CASE QueryPanics
  BY <1>5 DEF QueryPanics
<1>6. CASE Send
  BY <1>6 DEF Send
<1>7. CASE Receive
  BY <1>7 DEF Receive
<1>8. CASE TimesOut
  BY <1>8 DEF TimesOut, TimerFires
<1>9. CASE Tick
  BY <1>9 DEF Tick
<1>10. CASE Rest \/ UNCHANGED vars
  BY <1>10 DEF Rest, vars
<1> QED
  BY <1>1, <1>2, <1>3, <1>4, <1>5, <1>6, <1>7, <1>8, <1>9, <1>10 DEF Next, Poller, Caller

LEMMA AlwaysIInv == Spec => []IInv
  BY InitIInv, NextIInv, PTL DEF Spec

(* The variables keep their types; no more than three errors are counted. *)
THEOREM TypeCorrect == Spec => []TypeOK
<1>1. IInv => TypeOK
  BY DEF IInv
<1> QED
  BY <1>1, AlwaysIInv, PTL

(* The buffer of one suffices: the goroutine of a poll can always send, even *)
(* to a caller who left long ago, and is never leaked.                      *)
THEOREM SendNeverBlocks == Spec => []NeverBlocks
<1>1. IInv => NeverBlocks
  BY DEF IInv, OneVerdict, NeverBlocks, HasRoom, Capacity
<1> QED
  BY <1>1, AlwaysIInv, PTL

(* A caller goes on only after some answer had the full rate. *)
THEOREM DoneIsGrounded == Spec => []DoneWasSeen
<1>1. IInv => DoneWasSeen
  BY DEF IInv, TypeOK, Grounded, Positive, DoneWasSeen
<1> QED
  BY <1>1, AlwaysIInv, PTL

(* A caller is refused early only after three failed queries. *)
THEOREM EarlyFailureIsGrounded == Spec => []EarlyFailureMeansErrors
<1>1. IInv => EarlyFailureMeansErrors
  BY TimeAssumption DEF IInv, TypeOK, Grounded, Negative, Overdue, EarlyFailureMeansErrors, MaxErrors
<1> QED
  BY <1>1, AlwaysIInv, PTL

-----------------------------------------------------------------------------
(* The listing *)

Row == 1..(MaxRows + 1)

(* The loop asks for a page after full ones only; of a page that was short    *)
(* when it was read, the number of rows that is read next shows it.          *)
Progress ==
    /\ loop = "list" => cnt = Offset(page) /\ batch = <<>>
    /\ loop = "count" => /\ cnt = Offset(page)
                         /\ Len(batch) <= PageSize
                         /\ Len(batch) < PageSize => Len(rows) <= cnt + Len(batch)

Rising(s) == \A i, j \in 1..Len(s) : i < j => s[i] < s[j]

\* What the rows from some index on are, compared with s.
Ahead(s) == \A i \in 1..Len(s), k \in 1..Len(rows) : k > Len(s) => s[i] < rows[k]

Told == listed \o batch

(* Rows leave but do not come, so what the next pages can show comes after   *)
(* all that was listed.                                                      *)
Ordered ==
    source = "nodes" =>
        /\ Rising(rows) /\ Rising(listed) /\ Rising(Told)
        /\ loop \in {"list", "count"} => Ahead(Told)

Beginning == loop = "start" => page = 1 /\ cnt = 0 /\ listed = <<>> /\ batch = <<>>

\* A page of BridgX has one statement.
OneAnswer == loop = "count" => source = "nodes"

ListInv == PagingTypeOK /\ cnt = Len(listed) /\ Beginning /\ OneAnswer /\ Progress /\ Ordered

-----------------------------------------------------------------------------
(* Offsets and pages *)

LEMMA OffsetFacts ==
    ASSUME NEW p \in Nat \ {0}
    PROVE  /\ Offset(p) \in Nat
           /\ Offset(p + 1) = Offset(p) + PageSize
           /\ Offset(p + 1) >= p
           /\ Offset(1) = 0
<1> DEFINE q == p - 1
<1>1. q \in Nat /\ PageSize \in Nat \ {0}
  BY PagingAssumption
<1>2. \A m, n \in Nat : m * n \in Nat /\ (m + 1) * n = m * n + n
  OBVIOUS
<1>3. \A m \in Nat, n \in Nat \ {0} : m * n >= m
  OBVIOUS
<1>4. Offset(p) = q * PageSize /\ Offset(p + 1) = p * PageSize /\ p = q + 1
  BY DEF Offset
<1>5. Offset(1) = 0
  BY <1>1 DEF Offset
<1> HIDE DEF q
<1> QED
  BY <1>1, <1>2, <1>3, <1>4, <1>5

LEMMA PageFacts ==
    ASSUME PagingTypeOK, NEW p \in Nat \ {0}
    PROVE  /\ PageOf(p) \in Seq(Row)
           /\ Len(PageOf(p)) <= PageSize
           /\ Len(PageOf(p)) < PageSize => Len(rows) <= Offset(p) + Len(PageOf(p))
           /\ Offset(p) < Len(rows) => Offset(p) + Len(PageOf(p)) <= Len(rows)
           /\ \A i \in 1..Len(PageOf(p)) :
                  Offset(p) + i \in 1..Len(rows) /\ PageOf(p)[i] = rows[Offset(p) + i]
<1> DEFINE m == Offset(p) + 1
           n == IF Len(rows) < Offset(p) + PageSize THEN Len(rows) ELSE Offset(p) + PageSize
<1>1. Offset(p) \in Nat /\ PageSize \in Nat \ {0}
  BY OffsetFacts, PagingAssumption
<1>2. rows \in Seq(Row) /\ Len(rows) \in Nat
  BY LenProperties DEF PagingTypeOK, Row
<1>3. m \in Int /\ n \in Int /\ n <= Len(rows) /\ n <= Offset(p) + PageSize
  BY <1>1, <1>2
<1>4. \A i \in m..n : rows[i] \in Row
  BY <1>1, <1>2, <1>3, ElementOfSeq
<1>5. PageOf(p) = SubSeq(rows, m, n)
  BY DEF PageOf
<1>6. /\ SubSeq(rows, m, n) \in Seq(Row)
      /\ Len(SubSeq(rows, m, n)) = IF m <= n THEN n - m + 1 ELSE 0
      /\ \A i \in 1..(n - m + 1) : SubSeq(rows, m, n)[i] = rows[m + i - 1]
  <2> HIDE DEF m, n
  <2> QED
    BY <1>3, <1>4, SubSeqProperties
<1>7. n - m + 1 <= PageSize /\ (m <= n \/ Offset(p) >= Len(rows))
  BY <1>1, <1>2, <1>3
<1>8. n - m + 1 < PageSize => Len(rows) <= Offset(p) + (n - m + 1)
  BY <1>1, <1>2
<1>9. \A i \in 1..(n - m + 1) : m + i - 1 = Offset(p) + i /\ Offset(p) + i \in 1..Len(rows)
  BY <1>1, <1>2, <1>3
<1>10. m = Offset(p) + 1
  OBVIOUS
<1> HIDE DEF m, n
<1>11. CASE m <= n
  <2>1. Len(PageOf(p)) = n - m + 1
    BY <1>5, <1>6, <1>11
  <2>2. Offset(p) + Len(PageOf(p)) <= Len(rows)
    BY <2>1, <1>1, <1>2, <1>3, <1>10
  <2> QED
    BY <2>1, <2>2, <1>5, <1>6, <1>7, <1>8, <1>9
<1>12. CASE ~(m <= n)
  <2>1. Len(PageOf(p)) = 0 /\ Offset(p) >= Len(rows)
    BY <1>5, <1>6, <1>7, <1>12
  <2> QED
    BY <2>1, <1>1, <1>2, <1>5, <1>6
<1> QED
  BY <1>11, <1>12

-----------------------------------------------------------------------------
(* The rows move *)

LEMMA LeavesRow ==
    ASSUME PagingTypeOK, NEW i \in DOMAIN rows
    PROVE  LET shorter == RemoveAt(rows, i) IN
           /\ shorter \in Seq(Row)
           /\ Len(shorter) = Len(rows) - 1
           /\ \A k \in 1..Len(shorter) : shorter[k] = IF k < i THEN rows[k] ELSE rows[k + 1]
<1> DEFINE left == SubSeq(rows, 1, i - 1)
           right == SubSeq(rows, i + 1, Len(rows))
<1>1. rows \in Seq(Row) /\ Len(rows) \in Nat /\ i \in 1..Len(rows)
  BY LenProperties DEF PagingTypeOK, Row
<1>2. \A k \in 1..Len(rows) : rows[k] \in Row
  BY <1>1, ElementOfSeq
<1>3. /\ left \in Seq(Row) /\ Len(left) = i - 1
      /\ \A k \in 1..(i - 1) : left[k] = rows[k]
  BY <1>1, <1>2, SubSeqProperties
<1>4. /\ right \in Seq(Row) /\ Len(right) = Len(rows) - i
      /\ \A k \in 1..(Len(rows) - i) : right[k] = rows[i + k]
  BY <1>1, <1>2, SubSeqProperties
<1>5. RemoveAt(rows, i) = left \o right
  BY DEF RemoveAt
<1> HIDE DEF left, right
<1>6. /\ left \o right \in Seq(Row)
      /\ Len(left \o right) = Len(rows) - 1
      /\ \A k \in 1..(Len(rows) - 1) : (left \o right)[k] =
             IF k <= i - 1 THEN left[k] ELSE right[k - (i - 1)]
  <2>1. /\ left \o right \in Seq(Row)
        /\ Len(left \o right) = Len(left) + Len(right)
        /\ \A k \in 1..(Len(left) + Len(right)) : (left \o right)[k] =
               IF k <= Len(left) THEN left[k] ELSE right[k - Len(left)]
    BY <1>3, <1>4, ConcatProperties
  <2>2. Len(left) + Len(right) = Len(rows) - 1
    BY <1>1, <1>3, <1>4
  <2>3. Len(left) = i - 1
    BY <1>3
  <2> QED
    BY ONLY <2>1, <2>2, <2>3
<1>7. ASSUME NEW k \in 1..(Len(rows) - 1), k < i
      PROVE  (left \o right)[k] = rows[k]
  <2>1. k \in 1..(i - 1)
    BY <1>1, <1>7
  <2> QED
    BY <2>1, <1>1, <1>3, <1>6
<1>8. ASSUME NEW k \in 1..(Len(rows) - 1), ~(k < i)
      PROVE  (left \o right)[k] = rows[k + 1]
  <2> DEFINE j == k - (i - 1)
  <2>1. j \in 1..(Len(rows) - i) /\ i + j = k + 1 /\ ~(k <= i - 1)
    BY <1>1, <1>8
  <2>2. (left \o right)[k] = right[j]
    BY <2>1, <1>6
  <2> HIDE DEF j
  <2> QED
    BY <2>1, <2>2, <1>4
<1> QED
  BY <1>5, <1>6, <1>7, <1>8

LEMMA EntersRow ==
    ASSUME PagingTypeOK, NEW i \in 1..(Len(rows) + 1), NEW e \in Row
    PROVE  /\ InsertAt(rows, i, e) \in Seq(Row)
           /\ Len(InsertAt(rows, i, e)) = Len(rows) + 1
<1> DEFINE left == SubSeq(rows, 1, i - 1)
           right == SubSeq(rows, i, Len(rows))
<1>1. rows \in Seq(Row) /\ Len(rows) \in Nat
  BY LenProperties DEF PagingTypeOK, Row
<1>2. \A k \in 1..Len(rows) : rows[k] \in Row
  BY <1>1, ElementOfSeq
<1>3. left \in Seq(Row) /\ Len(left) = i - 1
  BY <1>1, <1>2, SubSeqProperties
<1>4. right \in Seq(Row) /\ Len(right) = Len(rows) - i + 1
  BY <1>1, <1>2, SubSeqProperties
<1>5. <<e>> \in Seq(Row) /\ Len(<<e>>) = 1
  OBVIOUS
<1>6. InsertAt(rows, i, e) = left \o <<e>> \o right
  BY DEF InsertAt
<1> HIDE DEF left, right
<1>7. left \o <<e>> \in Seq(Row) /\ Len(left \o <<e>>) = i
  BY <1>3, <1>5, ConcatProperties
<1>8. /\ left \o <<e>> \o right \in Seq(Row)
      /\ Len(left \o <<e>> \o right) = i + (Len(rows) - i + 1)
  BY <1>4, <1>7, ConcatProperties
<1> QED
  BY <1>1, <1>6, <1>8

-----------------------------------------------------------------------------
(* The loop *)

\* A page is added, and another one asked for if the offset says so.
LEMMA TakeFacts ==
    ASSUME PagingTypeOK, cnt = Len(listed), cnt = Offset(page),
           NEW found \in Seq(Row), NEW total \in 0..MaxRows,
           Len(found) <= PageSize,
           Len(found) < PageSize => total <= cnt + Len(found),
           Take(found, total)
    PROVE  /\ listed' = listed \o found
           /\ listed' \in Seq(Row)
           /\ cnt' = Len(listed') /\ cnt' \in Nat
           /\ page' \in Nat \ {0}
           /\ loop' \in {"list", "listed", "failed"}
           /\ loop' = "list" => cnt' = Offset(page')
<1>1. listed \in Seq(Row) /\ page \in Nat \ {0} /\ MaxRows \in Nat /\ PageSize \in Nat \ {0}
  BY PagingAssumption DEF PagingTypeOK, Row
<1>2. Len(listed) \in Nat /\ Len(found) \in Nat
  BY <1>1, LenProperties
<1>3. listed \o found \in Seq(Row) /\ Len(listed \o found) = Len(listed) + Len(found)
  BY <1>1, ConcatProperties
<1>4. listed' = listed \o found /\ cnt' = cnt + Len(found)
  BY DEF Take
<1>5. page' \in Nat \ {0} /\ loop' \in {"list", "listed", "failed"}
  BY <1>1 DEF Take, NextPage
<1>6. ASSUME loop' = "list"
      PROVE  cnt' = Offset(page')
  <2>1. ~Enough(cnt', total) /\ page' = NextPage
    BY <1>6 DEF Take
  <2>2. cnt' < total
    BY <2>1, <1>2, <1>4 DEF Enough
  <2>3. Len(found) = PageSize
    BY <2>2, <1>1, <1>2, <1>4
  <2>4. /\ Offset(page) \in Nat /\ Offset(page + 1) = Offset(page) + PageSize
        /\ Offset(page + 1) >= page
    BY <1>1, OffsetFacts
  <2>5. cnt' = Offset(page + 1)
    BY <2>3, <2>4, <1>4
  <2>6. page <= MaxRows
    BY <2>2, <2>4, <2>5, <1>1
  <2>7. page' = page + 1
    BY <2>1, <2>6 DEF NextPage
  <2> QED
    BY <2>5, <2>7
<1> QED
  BY <1>2, <1>3, <1>4, <1>5, <1>6

\* The rows after the offset are ahead of all that was listed; so the rows of
\* the page are, and those behind it are ahead of them.
LEMMA PageIsAhead ==
    ASSUME PagingTypeOK, cnt = Len(listed), cnt = Offset(page),
           Rising(rows), Rising(listed), Ahead(listed)
    PROVE  LET told == listed \o PageOf(page) IN Rising(told) /\ Ahead(told)
<1> DEFINE found == PageOf(page)
<1>1. listed \in Seq(Row) /\ rows \in Seq(Row) /\ page \in Nat \ {0}
  BY DEF PagingTypeOK, Row
<1>2. /\ found \in Seq(Row)
      /\ \A i \in 1..Len(found) : cnt + i \in 1..Len(rows) /\ found[i] = rows[cnt + i]
  BY <1>1, PageFacts
<1> HIDE DEF found
<1>3. Len(listed) \in Nat /\ Len(found) \in Nat /\ Len(rows) \in Nat
  BY <1>1, <1>2, LenProperties
<1>4. PICK told \in Seq(Row) :
         /\ told = listed \o found
         /\ Len(told) = Len(listed) + Len(found)
         /\ \A i \in 1..(Len(listed) + Len(found)) :
               told[i] = IF i <= Len(listed) THEN listed[i] ELSE found[i - Len(listed)]
  <2>1. /\ listed \o found \in Seq(Row)
        /\ Len(listed \o found) = Len(listed) + Len(found)
        /\ \A i \in 1..(Len(listed) + Len(found)) : (listed \o found)[i] =
               IF i <= Len(listed) THEN listed[i] ELSE found[i - Len(listed)]
    BY <1>1, <1>2, ConcatProperties
  <2> QED
    BY <2>1
<1>0. Len(told) \in Nat
  BY LenProperties
<1>5. ASSUME NEW i \in 1..Len(told), ~(i <= cnt)
      PROVE  i \in 1..Len(rows) /\ told[i] = rows[i]
  <2> DEFINE j == i - cnt
  <2>0. i \in Nat /\ i > Len(listed) /\ i <= Len(listed) + Len(found) /\ cnt = Len(listed)
    <3>1. i \in Nat /\ i <= Len(told)
      BY <1>0
    <3>2. i <= Len(listed) + Len(found)
      BY <3>1, <1>4
    <3> QED
      BY <3>1, <3>2, <1>3, <1>5
  <2>1. j \in 1..Len(found) /\ cnt + j = i
    BY <2>0, <1>3
  <2>2. told[i] = found[j]
    BY <2>0, <1>3, <1>4
  <2> HIDE DEF j
  <2> QED
    BY <2>1, <2>2, <1>2
<1>6. ASSUME NEW i \in 1..Len(told), i <= cnt
      PROVE  i \in 1..Len(listed) /\ told[i] = listed[i]
  BY <1>3, <1>4, <1>6
<1>7. Rising(told)
  <2> SUFFICES ASSUME NEW i \in 1..Len(told), NEW j \in 1..Len(told), i < j
               PROVE  told[i] < told[j]
    BY DEF Rising
  <2>1. CASE j <= cnt
    <3>1. i <= cnt
      BY <2>1, <1>3
    <3> QED
      BY <2>1, <3>1, <1>6 DEF Rising
  <2>2. CASE i <= cnt /\ ~(j <= cnt)
    <3>1. told[i] = listed[i] /\ i \in 1..Len(listed)
      BY <2>2, <1>6
    <3>2. told[j] = rows[j] /\ j \in 1..Len(rows) /\ j > Len(listed)
      BY <2>2, <1>3, <1>5
    <3> QED
      BY <3>1, <3>2 DEF Ahead
  <2>3. CASE ~(i <= cnt)
    <3>1. ~(j <= cnt)
      BY <2>3, <1>3
    <3>2. told[i] = rows[i] /\ i \in 1..Len(rows) /\ told[j] = rows[j] /\ j \in 1..Len(rows)
      BY <2>3, <3>1, <1>5
    <3> QED
      BY <3>2 DEF Rising
  <2> QED
    BY <2>1, <2>2, <2>3
<1>8. Ahead(told)
  <2> SUFFICES ASSUME NEW i \in 1..Len(told), NEW k \in 1..Len(rows), k > Len(told)
               PROVE  told[i] < rows[k]
    BY DEF Ahead
  <2>1. CASE i <= cnt
    <3>1. told[i] = listed[i] /\ i \in 1..Len(listed)
      BY <2>1, <1>6
    <3>2. Len(told) = Len(listed) + Len(found)
      BY <1>4
    <3>3. k \in Nat
      BY <1>3
    <3>4. k > Len(listed) + Len(found)
      BY <3>2
    <3>5. k > Len(listed)
      BY <3>3, <3>4, <1>3
    <3> QED
      BY <3>1, <3>5 DEF Ahead
  <2>2. CASE ~(i <= cnt)
    <3>1. told[i] = rows[i] /\ i \in 1..Len(rows) /\ i < k
      BY <2>2, <1>3, <1>4, <1>5
    <3> QED
      BY <3>1 DEF Rising
  <2> QED
    BY <2>1, <2>2
<1> QED
  BY <1>4, <1>7, <1>8 DEF found

-----------------------------------------------------------------------------
(* The invariant *)

LEMMA InitListInv == InitPaging => ListInv
<1> SUFFICES ASSUME InitPaging PROVE ListInv
  OBVIOUS
<1>1. PagingTypeOK
  <2>1. <<>> \in Seq(1..(MaxRows + 1)) /\ Len(<<>>) = 0
    BY EmptySeq
  <2>2. 0 <= MaxRows /\ 1 \in Nat \ {0} /\ 0 \in Nat
    BY PagingAssumption
  <2> QED
    BY <2>1, <2>2 DEF InitPaging, PagingTypeOK
<1>2. Len(<<>>) = 0 /\ listed = <<>> /\ rows = <<>> /\ batch = <<>>
  BY DEF InitPaging
<1>3. Told = <<>>
  BY <1>2, ConcatEmptySeq, EmptySeq DEF Told
<1>4. Ordered
  BY <1>2, <1>3 DEF InitPaging, Ordered, Rising, Ahead
<1>5. Progress /\ Beginning /\ OneAnswer
  BY DEF InitPaging, Progress, Beginning, OneAnswer
<1> QED
  BY <1>1, <1>2, <1>4, <1>5 DEF ListInv, InitPaging

LEMMA StartListInv == ListInv /\ Start => ListInv'
<1> SUFFICES ASSUME ListInv, Start PROVE ListInv'
  OBVIOUS
<1>1. PICK n \in 0..MaxRows : rows' = [i \in 1..n |-> i]
  BY DEF Start
<1>2. rows' \in Seq(Row) /\ Len(rows') = n /\ \A i \in 1..n : rows'[i] = i
  <2>1. n \in Nat /\ MaxRows \in Nat /\ [i \in 1..n |-> i] \in [1..n -> Row]
    BY PagingAssumption DEF Row
  <2> QED
    BY <1>1, <2>1
<1>3. /\ loop = "start" /\ page = 1 /\ cnt = 0 /\ listed = <<>> /\ batch = <<>>
      /\ loop' = "list" /\ UNCHANGED <<source, page, cnt, batch, listed, moved>>
  BY DEF Start, ListInv, Beginning
<1>4. PagingTypeOK'
  BY <1>2, <1>3, PagingAssumption DEF ListInv, PagingTypeOK, Row
<1>5. Told' = <<>>
  BY <1>3, ConcatEmptySeq, EmptySeq DEF Told
<1>6. Ordered'
  <2>1. \A i, j \in 1..n : i < j => rows'[i] < rows'[j]
    BY <1>2
  <2> QED
    BY <1>2, <1>3, <1>5, <2>1 DEF Ordered, Rising, Ahead
<1>7. Progress' /\ Beginning' /\ OneAnswer'
  BY <1>3, OffsetFacts DEF Progress, Beginning, OneAnswer
<1> QED
  BY <1>3, <1>4, <1>6, <1>7 DEF ListInv

LEMMA ListMachinesListInv == ListInv /\ ListMachines => ListInv'
<1> SUFFICES ASSUME ListInv, ListMachines PROVE ListInv'
  OBVIOUS
<1> DEFINE found == PageOf(page)
           total == Len(rows)
<1>1. /\ loop = "list" /\ source = "bridgx" /\ Take(found, total)
      /\ UNCHANGED <<source, rows, batch, moved>>
  BY DEF ListMachines
<1>2. PagingTypeOK /\ cnt = Len(listed) /\ cnt = Offset(page) /\ batch = <<>>
  BY <1>1 DEF ListInv, Progress
<1>3. page \in Nat \ {0} /\ total \in 0..MaxRows
  BY <1>2, LenProperties, PagingAssumption DEF PagingTypeOK
<1>4. /\ found \in Seq(Row) /\ Len(found) <= PageSize
      /\ Len(found) < PageSize => total <= cnt + Len(found)
  BY <1>2, <1>3, PageFacts
<1> HIDE DEF found, total
<1>5. /\ listed' \in Seq(Row) /\ cnt' = Len(listed') /\ cnt' \in Nat
      /\ page' \in Nat \ {0} /\ loop' \in {"list", "listed", "failed"}
      /\ loop' = "list" => cnt' = Offset(page')
  BY <1>1, <1>2, <1>3, <1>4, TakeFacts
<1>6. PagingTypeOK'
  BY <1>1, <1>2, <1>5 DEF PagingTypeOK, Row, Ended
<1>7. Progress' /\ Beginning' /\ OneAnswer' /\ Ordered'
  BY <1>1, <1>2, <1>5 DEF Progress, Beginning, OneAnswer, Ordered
<1> QED
  BY <1>5, <1>6, <1>7 DEF ListInv

LEMMA FindRowsListInv == ListInv /\ FindRows => ListInv'
<1> SUFFICES ASSUME ListInv, FindRows PROVE ListInv'
  OBVIOUS
<1>1. /\ loop = "list" /\ source = "nodes" /\ loop' = "count" /\ batch' = PageOf(page)
      /\ UNCHANGED <<source, rows, page, cnt, listed, moved>>
  BY DEF FindRows
<1>2. PagingTypeOK /\ cnt = Len(listed) /\ cnt = Offset(page) /\ batch = <<>> /\ page \in Nat \ {0}
  BY <1>1 DEF ListInv, Progress, PagingTypeOK
<1>3. /\ batch' \in Seq(Row) /\ Len(batch') <= PageSize
      /\ Len(batch') < PageSize => Len(rows) <= cnt + Len(batch')
  BY <1>1, <1>2, PageFacts
<1>4. PagingTypeOK'
  BY <1>1, <1>2, <1>3 DEF PagingTypeOK, Row
<1>5. Told = listed /\ Told' = listed \o PageOf(page)
  BY <1>1, <1>2, ConcatEmptySeq DEF Told, PagingTypeOK
<1>6. Rising(rows) /\ Rising(listed) /\ Ahead(listed)
  BY <1>1, <1>5 DEF ListInv, Ordered
<1>7. Rising(Told') /\ Ahead(Told')
  BY <1>2, <1>5, <1>6, PageIsAhead
<1>8. Ordered'
  BY <1>1, <1>6, <1>7 DEF Ordered, Rising, Ahead
<1>9. Progress' /\ Beginning' /\ OneAnswer'
  BY <1>1, <1>2, <1>3 DEF Progress, Beginning, OneAnswer
<1> QED
  BY <1>1, <1>2, <1>4, <1>8, <1>9 DEF ListInv

LEMMA CountRowsListInv == ListInv /\ CountRows => ListInv'
<1> SUFFICES ASSUME ListInv, CountRows PROVE ListInv'
  OBVIOUS
<1> DEFINE total == Len(rows)
<1>1. /\ loop = "count" /\ Take(batch, total) /\ batch' = <<>>
      /\ UNCHANGED <<source, rows, moved>>
  BY DEF CountRows
<1>2. /\ PagingTypeOK /\ cnt = Len(listed) /\ cnt = Offset(page) /\ source = "nodes"
      /\ Len(batch) <= PageSize
      /\ Len(batch) < PageSize => total <= cnt + Len(batch)
  BY <1>1 DEF ListInv, Progress, OneAnswer
<1>3. batch \in Seq(Row) /\ total \in 0..MaxRows
  BY <1>2, LenProperties, PagingAssumption DEF PagingTypeOK, Row
<1> HIDE DEF total
<1>4. /\ listed' = listed \o batch /\ listed' \in Seq(Row)
      /\ cnt' = Len(listed') /\ cnt' \in Nat
      /\ page' \in Nat \ {0} /\ loop' \in {"list", "listed", "failed"}
      /\ loop' = "list" => cnt' = Offset(page')
  BY <1>1, <1>2, <1>3, TakeFacts
<1>5. PagingTypeOK'
  BY <1>1, <1>2, <1>4, EmptySeq DEF PagingTypeOK, Row, Ended
<1>6. Told' = listed' /\ listed' = Told
  BY <1>1, <1>4, ConcatEmptySeq DEF Told
<1>7. Rising(rows) /\ Rising(Told) /\ Ahead(Told)
  BY <1>1, <1>2 DEF ListInv, Ordered
<1>8. Ordered'
  BY <1>1, <1>6, <1>7 DEF Ordered, Rising, Ahead
<1>9. Progress' /\ Beginning' /\ OneAnswer'
  BY <1>1, <1>4 DEF Progress, Beginning, OneAnswer
<1> QED
  BY <1>4, <1>5, <1>8, <1>9 DEF ListInv

LEMMA QueryFailsListInv == ListInv /\ PageFails => ListInv'
<1> SUFFICES ASSUME ListInv, PageFails PROVE ListInv'
  OBVIOUS
<1>1. loop' \in {"panic", "failed"} /\ UNCHANGED <<source, rows, page, cnt, batch, listed, moved>>
  BY DEF PageFails
<1>2. PagingTypeOK'
  BY <1>1 DEF ListInv, PagingTypeOK, Ended
<1>3. Ordered'
  BY <1>1 DEF ListInv, Ordered, Rising, Told
<1>4. Progress' /\ Beginning' /\ OneAnswer'
  BY <1>1 DEF Progress, Beginning, OneAnswer
<1> QED
  BY <1>1, <1>2, <1>3, <1>4 DEF ListInv

LEMMA LeavesListInv == ASSUME ListInv, NEW i \in 1..(Len(rows) + 1), Leaves(i) PROVE ListInv'
<1>1. /\ loop \in {"list", "count"} /\ i \in DOMAIN rows /\ rows' = RemoveAt(rows, i)
      /\ moved' = TRUE /\ UNCHANGED <<source, loop, page, cnt, batch, listed>>
  BY DEF Leaves
<1>2. PagingTypeOK /\ rows \in Seq(Row) /\ Len(rows) \in Nat /\ MaxRows \in Nat /\ i \in 1..Len(rows)
  BY <1>1, LenProperties, PagingAssumption DEF ListInv, PagingTypeOK, Row
<1>3. /\ rows' \in Seq(Row) /\ Len(rows') = Len(rows) - 1
      /\ \A k \in 1..Len(rows') : rows'[k] = IF k < i THEN rows[k] ELSE rows[k + 1]
  BY <1>1, <1>2, LeavesRow
<1>4. PagingTypeOK'
  BY <1>1, <1>2, <1>3 DEF PagingTypeOK, Row
<1>5. Progress'
  <2>1. cnt \in Nat /\ Len(batch) \in Nat
    BY <1>2, LenProperties DEF PagingTypeOK
  <2> QED
    BY <1>1, <1>2, <1>3, <2>1 DEF ListInv, Progress
<1>6. ASSUME NEW k \in 1..Len(rows')
      PROVE  \E o \in 1..Len(rows) : o >= k /\ o <= k + 1 /\ rows'[k] = rows[o] /\ (o = k <=> k < i)
  <2>0. k \in Nat /\ i \in Nat /\ k <= Len(rows) - 1
    BY <1>2, <1>3
  <2>1. CASE k < i
    <3>1. k \in 1..Len(rows) /\ rows'[k] = rows[k]
      BY <2>0, <2>1, <1>2, <1>3
    <3> QED
      BY <2>0, <2>1, <3>1
  <2>2. CASE ~(k < i)
    <3>1. k + 1 \in 1..Len(rows) /\ rows'[k] = rows[k + 1]
      BY <2>0, <2>2, <1>2, <1>3
    <3> QED
      BY <2>0, <2>2, <3>1
  <2> QED
    BY <2>1, <2>2
<1>7. ASSUME source = "nodes" PROVE Rising(rows)' /\ Ahead(Told)'
  <2>1. Rising(rows) /\ Ahead(Told) /\ Told' = Told /\ Len(Told) \in Nat
    <3>1. Told \in Seq(Row)
      BY <1>2, ConcatProperties DEF Told, PagingTypeOK, Row
    <3> QED
      BY <1>1, <1>7, <3>1, LenProperties DEF ListInv, Ordered, Told
  <2>2. Rising(rows)'
    <3> SUFFICES ASSUME NEW k \in 1..Len(rows'), NEW l \in 1..Len(rows'), k < l
                 PROVE  rows'[k] < rows'[l]
      BY DEF Rising
    <3>1. PICK o \in 1..Len(rows) : o <= k + 1 /\ rows'[k] = rows[o] /\ o >= k /\ (o = k <=> k < i)
      BY <1>6
    <3>2. PICK q \in 1..Len(rows) : q >= l /\ rows'[l] = rows[q] /\ q <= l + 1 /\ (q = l <=> l < i)
      BY <1>6
    <3>3. o < q
      BY <1>2, <1>3, <3>1, <3>2
    <3> QED
      BY <2>1, <3>1, <3>2, <3>3 DEF Rising
  <2>3. Ahead(Told)'
    <3> SUFFICES ASSUME NEW j \in 1..Len(Told), NEW k \in 1..Len(rows'), k > Len(Told)
                 PROVE  Told[j] < rows'[k]
      BY <2>1 DEF Ahead
    <3>1. PICK o \in 1..Len(rows) : o >= k /\ rows'[k] = rows[o]
      BY <1>6
    <3>2. o > Len(Told)
      BY <2>1, <3>1, <1>3
    <3> QED
      BY <2>1, <3>1, <3>2 DEF Ahead
  <2> QED
    BY <2>2, <2>3
<1>8. Ordered'
  BY <1>1, <1>7 DEF ListInv, Ordered, Rising, Told
<1>9. Beginning' /\ OneAnswer'
  BY <1>1 DEF ListInv, Beginning, OneAnswer
<1> QED
  BY <1>1, <1>4, <1>5, <1>8, <1>9 DEF ListInv

LEMMA EntersListInv == ASSUME ListInv, NEW i \in 1..(Len(rows) + 1), Enters(i) PROVE ListInv'
<1>1. /\ loop = "list" /\ source = "bridgx" /\ Len(rows) < MaxRows
      /\ rows' = InsertAt(rows, i, MaxRows + 1)
      /\ moved' = TRUE /\ UNCHANGED <<source, loop, page, cnt, batch, listed>>
  BY DEF Enters
<1>2. PagingTypeOK /\ MaxRows + 1 \in Row /\ Len(rows) \in Nat /\ MaxRows \in Nat
  BY LenProperties, PagingAssumption DEF ListInv, PagingTypeOK, Row
<1>3. rows' \in Seq(Row) /\ Len(rows') = Len(rows) + 1
  BY <1>1, <1>2, EntersRow
<1>4. PagingTypeOK'
  BY <1>1, <1>2, <1>3 DEF PagingTypeOK, Row
<1>5. Progress' /\ Beginning' /\ OneAnswer' /\ Ordered'
  BY <1>1 DEF ListInv, Progress, Beginning, OneAnswer, Ordered
<1> QED
  BY <1>1, <1>4, <1>5 DEF ListInv

LEMMA NextListInv == ListInv /\ [NextPaging]_pagingVars => ListInv'
<1> SUFFICES ASSUME ListInv, [NextPaging]_pagingVars PROVE ListInv'
  OBVIOUS
<1>1. CASE List
  BY <1>1, StartListInv, ListMachinesListInv, FindRowsListInv, CountRowsListInv, QueryFailsListInv DEF List
<1>2. CASE Move
  BY <1>2, LeavesListInv, EntersListInv DEF Move
<1>3. CASE UNCHANGED pagingVars
  BY <1>3 DEF pagingVars, ListInv, PagingTypeOK, Beginning, OneAnswer, Progress, Ordered, Rising, Ahead, Told
<1> QED
  BY <1>1, <1>2, <1>3 DEF NextPaging

LEMMA Invariance == SpecPaging => []ListInv
BY InitListInv, NextListInv, PTL DEF SpecPaging

-----------------------------------------------------------------------------
(* The listing keeps its types, for every size of a page.                     *)
THEOREM ListingTypes == SpecPaging => []PagingTypeOK
<1>1. ListInv => PagingTypeOK
  BY DEF ListInv
<1> QED
  BY <1>1, Invariance, PTL

(* A page is asked for only after full ones (noteactsvc.go:263,               *)
(* bridgxsvc.go:203), whatever comes and goes between two queries.            *)
THEOREM PagesAreFull == SpecPaging => []FullPages
<1>1. ListInv => FullPages
  BY DEF ListInv, Progress, FullPages
<1> QED
  BY <1>1, Invariance, PTL

(* No node is listed twice, although rows leave between the statements.       *)
THEOREM NoNodeTwice == SpecPaging => []NothingTwice
<1>1. ASSUME ListInv, source = "nodes" PROVE IsInjective(listed)
  <2>1. /\ listed \in Seq(Row) /\ DOMAIN listed = 1..Len(listed) /\ Len(listed) \in Nat
    BY <1>1, LenProperties DEF ListInv, PagingTypeOK, Row
  <2>2. \A i \in 1..Len(listed) : listed[i] \in Row
    BY <2>1, ElementOfSeq
  <2>3. Row \subseteq Nat
    BY PagingAssumption DEF Row
  <2> SUFFICES ASSUME NEW i \in 1..Len(listed), NEW j \in 1..Len(listed), listed[i] = listed[j]
               PROVE  i = j
    BY <2>1 DEF IsInjective
  <2>4. listed[i] \in Nat /\ ~(listed[i] < listed[j]) /\ ~(listed[j] < listed[i])
    <3>1. listed[i] \in Nat
      BY <2>2, <2>3
    <3> QED
      BY <3>1
  <2>5. ~(i < j) /\ ~(j < i)
    BY <1>1, <2>4 DEF ListInv, Ordered, Rising
  <2> QED
    BY <2>1, <2>5
<1>2. ListInv => NothingTwice
  BY <1>1 DEF NothingTwice
<1> QED
  BY <1>2, Invariance, PTL

-----------------------------------------------------------------------------
(* What is listed while nothing moves *)

Prefix(s) == Len(s) <= Len(rows) /\ \A i \in 1..Len(s) : s[i] = rows[i]

Still ==
    ~moved => /\ Prefix(Told)
              /\ loop = "listed" => batch = <<>> /\ cnt >= Len(rows)

\* The page at the offset goes on where the list ends.
LEMMA PageGoesOn ==
    ASSUME PagingTypeOK, cnt = Len(listed), cnt = Offset(page), Prefix(listed)
    PROVE  Prefix(listed \o PageOf(page))
<1>1. PICK found : found = PageOf(page)
  OBVIOUS
<1>2. listed \in Seq(Row) /\ rows \in Seq(Row) /\ page \in Nat \ {0}
  BY DEF PagingTypeOK, Row
<1>3. /\ found \in Seq(Row)
      /\ \A i \in 1..Len(found) : cnt + i \in 1..Len(rows) /\ found[i] = rows[cnt + i]
  BY <1>1, <1>2, PageFacts
<1>4. cnt \in Nat /\ Len(found) \in Nat /\ Len(rows) \in Nat /\ Len(listed) = cnt
  BY <1>2, <1>3, LenProperties
<1>5. PICK told : told = listed \o found
  OBVIOUS
<1>6. /\ Len(told) = cnt + Len(found)
      /\ \A i \in 1..(cnt + Len(found)) : told[i] = IF i <= cnt THEN listed[i] ELSE found[i - cnt]
  <2>1. /\ Len(told) = Len(listed) + Len(found)
        /\ \A i \in 1..(Len(listed) + Len(found)) :
              told[i] = IF i <= Len(listed) THEN listed[i] ELSE found[i - Len(listed)]
    BY <1>2, <1>3, <1>5, ConcatProperties
  <2>2. Len(listed) = cnt
    BY <1>4
  <2> QED
    BY <2>1, <2>2
<1>7. Len(told) <= Len(rows)
  <2>1. CASE Len(found) = 0
    BY <1>4, <1>6, <2>1 DEF Prefix
  <2>2. CASE Len(found) # 0
    <3>1. Len(found) \in 1..Len(found)
      BY <1>4, <2>2
    <3>2. cnt + Len(found) \in 1..Len(rows)
      BY <1>3, <3>1
    <3> QED
      BY <1>4, <1>6, <3>2
  <2> QED
    BY <2>1, <2>2
<1>8. ASSUME NEW i \in 1..Len(told) PROVE told[i] = rows[i]
  <2>1. i \in Nat /\ i >= 1 /\ i <= cnt + Len(found)
    BY <1>4, <1>6
  <2>2. CASE i <= cnt
    BY <1>4, <1>6, <2>1, <2>2 DEF Prefix
  <2>3. CASE ~(i <= cnt)
    <3>1. PICK j \in 1..Len(found) : j = i - cnt /\ cnt + j = i
      BY <1>4, <2>1, <2>3
    <3>2. told[i] = found[j]
      BY <1>6, <2>1, <2>3, <3>1
    <3> QED
      BY <1>3, <3>1, <3>2
  <2> QED
    BY <2>2, <2>3
<1> QED
  BY <1>1, <1>5, <1>7, <1>8 DEF Prefix

\* The loop ends when the list is as long as the rows are many.
LEMMA TakeEnds ==
    ASSUME NEW found, NEW total, Take(found, total), loop' = "listed"
    PROVE  cnt' >= total
  BY DEF Take, Enough

LEMMA ListStill ==
    ASSUME ListInv, Still, List
    PROVE  Still'
<1>1. PagingTypeOK /\ cnt = Len(listed) /\ listed \in Seq(Row) /\ batch \in Seq(Row)
  BY DEF ListInv, PagingTypeOK, Row
<1>2. CASE Start
  <2>1. listed' = <<>> /\ batch' = <<>> /\ loop' = "list"
    BY <1>2 DEF Start, ListInv, Beginning
  <2>2. Told' = <<>>
    BY <2>1, ConcatEmptySeq, EmptySeq DEF Told
  <2>3. Len(rows') \in Nat
    <3>1. ListInv'
      BY <1>2, StartListInv
    <3> QED
      BY <3>1, LenProperties DEF ListInv, PagingTypeOK
  <2> QED
    BY <2>1, <2>2, <2>3 DEF Still, Prefix
<1>3. CASE ListMachines
  <2>1. /\ cnt = Offset(page) /\ batch = <<>> /\ Take(PageOf(page), Len(rows))
        /\ UNCHANGED <<rows, batch, moved>>
    BY <1>3 DEF ListMachines, ListInv, Progress
  <2>2. listed' = listed \o PageOf(page)
    BY <2>1 DEF Take
  <2>3. ListInv'
    BY <1>3, ListMachinesListInv
  <2>4. listed' \in Seq(Row)
    BY <2>3 DEF ListInv, PagingTypeOK, Row
  <2>5. Told = listed /\ Told' = listed'
    BY <1>1, <2>1, <2>4, ConcatEmptySeq DEF Told
  <2>6. ~moved => Prefix(listed')
    BY <1>1, <2>1, <2>2, <2>5, PageGoesOn DEF Still
  <2>7. loop' = "listed" => cnt' >= Len(rows)
    BY <2>1, TakeEnds
  <2> QED
    BY <2>1, <2>5, <2>6, <2>7 DEF Still, Prefix
<1>4. CASE FindRows
  <2>1. /\ cnt = Offset(page) /\ batch = <<>> /\ batch' = PageOf(page) /\ loop' = "count"
        /\ UNCHANGED <<rows, listed, moved>>
    BY <1>4 DEF FindRows, ListInv, Progress
  <2>2. Told = listed /\ Told' = listed \o PageOf(page)
    BY <1>1, <2>1, ConcatEmptySeq DEF Told
  <2>3. ~moved => Prefix(Told')
    BY <1>1, <2>1, <2>2, PageGoesOn DEF Still
  <2> QED
    BY <2>1, <2>3 DEF Still, Prefix
<1>5. CASE CountRows
  <2>1. Take(batch, Len(rows)) /\ batch' = <<>> /\ UNCHANGED <<rows, moved>>
    BY <1>5 DEF CountRows
  <2>2. listed' = Told
    BY <2>1 DEF Take, Told
  <2>3. ListInv'
    BY <1>5, CountRowsListInv
  <2>4. listed' \in Seq(Row)
    BY <2>3 DEF ListInv, PagingTypeOK, Row
  <2>5. Told' = Told
    BY <2>1, <2>2, <2>4, ConcatEmptySeq DEF Told
  <2>6. loop' = "listed" => cnt' >= Len(rows)
    BY <2>1, TakeEnds
  <2> QED
    BY <2>1, <2>5, <2>6 DEF Still, Prefix
<1>6. CASE PageFails
  BY <1>6 DEF PageFails, Still, Prefix, Told
<1> QED
  BY <1>2, <1>3, <1>4, <1>5, <1>6 DEF List

(* If no row came or went, the list the next instruction works on is what was *)
(* there (noteactsvc.go:263, bridgxsvc.go:203), for every size of a page.     *)
THEOREM ListingIsComplete == SpecPaging => []ListedIsComplete
<1>1. InitPaging => Still
  <2> SUFFICES ASSUME InitPaging PROVE Still
    OBVIOUS
  <2>1. Told = <<>> /\ Len(rows) = 0 /\ loop = "start"
    BY ConcatEmptySeq, EmptySeq DEF InitPaging, Told
  <2> QED
    BY <2>1 DEF Still, Prefix
<1>2. ListInv /\ Still /\ [NextPaging]_pagingVars => Still'
  <2>1. Move => Still'
    BY DEF Move, Leaves, Enters, Still
  <2>2. UNCHANGED pagingVars /\ Still => Still'
    BY DEF pagingVars, Still, Prefix, Told
  <2> QED
    BY <2>1, <2>2, ListStill DEF NextPaging
<1>3. ListInv /\ Still => ListedIsComplete
  <2> SUFFICES ASSUME ListInv, Still, loop = "listed", ~moved PROVE listed = rows
    BY DEF ListedIsComplete
  <2>1. listed \in Seq(Row) /\ rows \in Seq(Row) /\ batch = <<>> /\ cnt = Len(listed)
    BY DEF ListInv, PagingTypeOK, Row, Still
  <2>2. Told = listed
    BY <2>1, ConcatEmptySeq DEF Told
  <2>3. Len(listed) = Len(rows) /\ \A i \in 1..Len(listed) : listed[i] = rows[i]
    BY <2>1, <2>2, LenProperties DEF Still, Prefix
  <2> QED
    BY <2>1, <2>3, SeqEqual
<1> QED
  BY <1>1, <1>2, <1>3, Invariance, PTL DEF SpecPaging

-----------------------------------------------------------------------------
(* A poll and the listing after it *)

LEMMA ListingOfBoth == FairBoth => SpecPaging
<1>1. InitBoth => InitPaging
  BY DEF InitBoth
<1>2. [NextBoth]_allVars => [NextPaging]_pagingVars
  BY DEF NextBoth, allVars, pagingVars, Polling, Listing, Goes, Moving, AllRest, NextPaging, List
<1> QED
  BY <1>1, <1>2, PTL DEF FairBoth, SpecPaging

\* The listing begins with the goroutine of the poll gone and its counts forgotten.
LEMMA PollOfBoth == FairBoth => []IInv
<1>1. InitBoth => IInv
  BY InitIInv DEF InitBoth
<1>2. IInv /\ [NextBoth]_allVars => IInv'
  <2> SUFFICES ASSUME IInv, [NextBoth]_allVars PROVE IInv'
    OBVIOUS
  <2>1. CASE Polling
    BY <2>1, NextIInv DEF Polling, Next
  <2>2. CASE UNCHANGED vars
    BY <2>2, NextIInv
  <2>3. CASE Goes
    BY <2>3, TimeAssumption DEF Goes, IInv, TypeOK, OneVerdict, Grounded, ErrorsBounded, Positive,
                                Negative, Overdue, MaxErrors
  <2> QED
    BY <2>1, <2>2, <2>3 DEF NextBoth, Listing, Moving, AllRest, allVars
<1> QED
  BY <1>1, <1>2, PTL DEF FairBoth

(* What holds for a poll and for a listing holds for the two together, where  *)
(* the listing starts only after a poll that passed (bridgxsvc.go,            *)
(* nodeactsvc.go): the specification the run explores.                        *)
THEOREM TogetherAsApart ==
  FairBoth => [](/\ TypeOK /\ NeverBlocks /\ DoneWasSeen /\ EarlyFailureMeansErrors
                 /\ FullPages /\ ListedIsComplete /\ NothingTwice)
<1>1. IInv => TypeOK /\ NeverBlocks /\ DoneWasSeen /\ EarlyFailureMeansErrors
  BY TimeAssumption DEF IInv, TypeOK, OneVerdict, NeverBlocks, HasRoom, Capacity, Grounded, Positive,
                        Negative, Overdue, DoneWasSeen, EarlyFailureMeansErrors, MaxErrors
<1> QED
  BY <1>1, PollOfBoth, ListingOfBoth, PagesAreFull, ListingIsComplete, NoNodeTwice, PTL
=============================================================================
