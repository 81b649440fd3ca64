--------------------------- MODULE Services_proofs ----------------------------
(***************************************************************************)
(* Services and templates, for any number of services, templates and       *)
(* instructions, and whichever requests fail, panic or lack a part.        *)
(*                                                                         *)
(* First what the groups of a new pair are, which the model computes with  *)
(* folds and cardinalities; then one invariant for the templates, one for  *)
(* the services, and one for the tasks; the properties follow from them.   *)
(***************************************************************************)
EXTENDS Services, TLAPS, FiniteSetTheorems, SequenceTheorems, WellFoundedInduction

-----------------------------------------------------------------------------
(* The groups of a new pair *)

\* The instructions of all four expand steps and their reverses.
AllCreated(id, rev) ==
    <<NewInstr("bridgx.expand", id), NewInstr("bridgx.shrink", rev),
      NewInstr("nodeact.initbase", id), NewInstr("nodeact.initsvc", id),
      NewInstr("mount.slb", id), NewInstr("umount.slb", rev)>>

\* How many of them the first n steps create.
CountOf == <<2, 3, 4, 6>>

\* s, then t: \o without its definition.
Then(s, t) == s \o t

LEMMA FlatIs ==
  ASSUME NEW n \in 1..4, NEW s, Len(s) = n
  PROVE  LET b == Then(s[1], s[2])
             c == Then(b, s[3])
             d == Then(c, s[4])
         IN  FlattenSeq(s) = IF n = 1 THEN s[1] ELSE IF n = 2 THEN b ELSE IF n = 3 THEN c ELSE d
<1> DEFINE Unfolds(f) == f = [i \in 1..Len(s) |-> IF i = 1 THEN s[i] ELSE Then(f[i-1], s[i])]
           flat == CHOOSE f : Unfolds(f)
<1>1. FlattenSeq(s) = flat[n]
  BY DEF FlattenSeq, Then
<1>2. PICK b : b = Then(s[1], s[2])
  OBVIOUS
<1>3. PICK c : c = Then(b, s[3])
  OBVIOUS
<1>4. PICK d : d = Then(c, s[4])
  OBVIOUS
<1>5. n \in {1, 2, 3, 4}
  OBVIOUS
<1>6. \E g : Unfolds(g)
  <2> DEFINE g == [i \in 1..n |-> IF i = 1 THEN s[1] ELSE IF i = 2 THEN b ELSE IF i = 3 THEN c ELSE d]
  <2>1. \A i \in 1..n : g[i] = IF i = 1 THEN s[i] ELSE Then(g[i-1], s[i])
    <3> SUFFICES ASSUME NEW i \in 1..n PROVE g[i] = IF i = 1 THEN s[i] ELSE Then(g[i-1], s[i])
      OBVIOUS
    <3>1. i \in {1, 2, 3, 4}
      OBVIOUS
    <3>2. CASE i = 1
      BY <3>2
    <3>3. CASE i = 2
      <4>1. g[1] = s[1] /\ g[2] = b /\ i - 1 = 1 /\ i # 1
        BY <3>3
      <4> HIDE DEF g
      <4> QED
        BY <3>3, <4>1, <1>2
    <3>4. CASE i = 3
      <4>1. g[2] = b /\ g[3] = c /\ i - 1 = 2 /\ i # 1
        BY <3>4
      <4> HIDE DEF g
      <4> QED
        BY <3>4, <4>1, <1>3
    <3>5. CASE i = 4
      <4>1. g[3] = c /\ g[4] = d /\ i - 1 = 3 /\ i # 1
        BY <3>5
      <4> HIDE DEF g
      <4> QED
        BY <3>5, <4>1, <1>4
    <3> QED
      BY <3>1, <3>2, <3>3, <3>4, <3>5
  <2>2. g = [i \in 1..n |-> g[i]]
    OBVIOUS
  <2> HIDE DEF g
  <2>3. g = [i \in 1..n |-> IF i = 1 THEN s[i] ELSE Then(g[i-1], s[i])]
    BY <2>1, <2>2
  <2> QED
    BY <2>3
<1>7. Unfolds(flat)
  <2> HIDE DEF Unfolds
  <2> QED
    BY <1>6
<1> HIDE DEF flat
<1>8. ASSUME NEW i \in 1..n PROVE flat[i] = IF i = 1 THEN s[i] ELSE Then(flat[i-1], s[i])
  BY <1>7
<1>9. flat[1] = s[1]
  BY <1>8
<1>10. n >= 2 => flat[2] = b
  <2>1. n >= 2 => flat[2] = Then(flat[2 - 1], s[2])
    BY <1>8
  <2> QED
    BY <2>1, <1>2, <1>9
<1>11. n >= 3 => flat[3] = c
  <2>1. n >= 3 => flat[3] = Then(flat[3 - 1], s[3])
    BY <1>8
  <2> QED
    BY <2>1, <1>3, <1>10
<1>12. n >= 4 => flat[4] = d
  <2>1. n >= 4 => flat[4] = Then(flat[4 - 1], s[4])
    BY <1>8
  <2> QED
    BY <2>1, <1>4, <1>11
<1>13. flat[n] = IF n = 1 THEN s[1] ELSE IF n = 2 THEN b ELSE IF n = 3 THEN c ELSE d
  BY <1>5, <1>9, <1>10, <1>11, <1>12
<1> QED
  BY <1>1, <1>2, <1>3, <1>4, <1>13

\* One more step, of one instruction or of two.
LEMMA Joined ==
  ASSUME NEW T, NEW s \in Seq(T), NEW t \in Seq(T)
  PROVE  /\ Then(s, t) \in Seq(T) /\ Len(Then(s, t)) = Len(s) + Len(t)
         /\ \A k \in 1..Len(s) : Then(s, t)[k] = s[k]
         /\ \A k \in 1..Len(t) : Then(s, t)[Len(s) + k] = t[k]
<1>1. /\ Then(s, t) \in Seq(T) /\ Len(Then(s, t)) = Len(s) + Len(t)
      /\ \A i \in 1..Len(s) + Len(t) : Then(s, t)[i] = IF i <= Len(s) THEN s[i] ELSE t[i - Len(s)]
  BY ConcatProperties DEF Then
<1>2. Len(s) \in Nat /\ Len(t) \in Nat
  BY LenProperties
<1>3. ASSUME NEW k \in 1..Len(s) PROVE Then(s, t)[k] = s[k]
  BY <1>1, <1>2
<1>4. ASSUME NEW k \in 1..Len(t) PROVE Then(s, t)[Len(s) + k] = t[k]
  <2>1. Len(s) + k \in 1..Len(s) + Len(t) /\ ~(Len(s) + k <= Len(s)) /\ (Len(s) + k) - Len(s) = k
    BY <1>2
  <2> QED
    BY <2>1, <1>1
<1> QED
  BY <1>1, <1>3, <1>4

\* All that is known of them.
IsCreated(created, n, id, rev) ==
    /\ created \in Seq({AllCreated(id, rev)[k] : k \in 1..6})
    /\ Len(created) = CountOf[n]
    /\ \A k \in 1..CountOf[n] : created[k] = AllCreated(id, rev)[k]

LEMMA CreatedIs ==
  ASSUME NEW n \in 1..4, NEW id, NEW rev
  PROVE  IsCreated(CreatedBy(n, id, rev), n, id, rev)
<1> DEFINE s == [k \in 1..n |-> IF ExpandStep[k] \in DOMAIN ReverseStep
                     THEN <<NewInstr(ExpandStep[k], id), NewInstr(ReverseStep[ExpandStep[k]], rev)>>
                     ELSE <<NewInstr(ExpandStep[k], id)>>]
<1>a. PICK all : all = AllCreated(id, rev)
  OBVIOUS
<1>b. PICK T : T = {all[k] : k \in 1..6}
  OBVIOUS
<1>1. CreatedBy(n, id, rev) = FlattenSeq(s) /\ Len(s) = n
  BY DEF CreatedBy
<1>2. /\ s[1] = <<all[1], all[2]>>
      /\ n >= 2 => s[2] = <<all[3]>>
      /\ n >= 3 => s[3] = <<all[4]>>
      /\ n >= 4 => s[4] = <<all[5], all[6]>>
  BY <1>a DEF ExpandStep, ReverseStep, AllCreated
<1> HIDE DEF s
<1>3. all[1] \in T /\ all[2] \in T /\ all[3] \in T /\ all[4] \in T /\ all[5] \in T /\ all[6] \in T
  BY <1>b
<1>4. PICK a : a = <<all[1], all[2]>>
  OBVIOUS
<1>5. a \in Seq(T) /\ Len(a) = 2 /\ a[1] = all[1] /\ a[2] = all[2]
  BY <1>3, <1>4
<1>6. PICK b : b = Then(a, <<all[3]>>)
  OBVIOUS
<1>7. /\ b \in Seq(T) /\ Len(b) = 3
      /\ b[1] = all[1] /\ b[2] = all[2] /\ b[3] = all[3]
  <2>1. PICK t : t = <<all[3]>>
    OBVIOUS
  <2>2. t \in Seq(T) /\ Len(t) = 1 /\ t[1] = all[3]
    BY <2>1, <1>3
  <2>3. b = Then(a, t)
    BY <2>1, <1>6
  <2>4. a \in Seq(T) /\ t \in Seq(T)
    BY <2>2, <1>5
  <2>5. Then(a, t) \in Seq(T)
    BY <2>4, Joined
  <2>6. Len(Then(a, t)) = Len(a) + Len(t)
    BY <2>4, Joined
  <2>7. \A k \in 1..Len(a) : Then(a, t)[k] = a[k]
    BY <2>4, Joined
  <2>8. \A k \in 1..Len(t) : Then(a, t)[Len(a) + k] = t[k]
    BY <2>4, Joined
  <2> QED
    BY ONLY <2>2, <2>3, <2>5, <2>6, <2>7, <2>8, <1>5
<1>8. PICK c : c = Then(b, <<all[4]>>)
  OBVIOUS
<1>9. /\ c \in Seq(T) /\ Len(c) = 4
      /\ c[1] = all[1] /\ c[2] = all[2] /\ c[3] = all[3] /\ c[4] = all[4]
  <2>1. PICK t : t = <<all[4]>>
    OBVIOUS
  <2>2. t \in Seq(T) /\ Len(t) = 1 /\ t[1] = all[4]
    BY <2>1, <1>3
  <2>3. c = Then(b, t)
    BY <2>1, <1>8
  <2>4. b \in Seq(T) /\ t \in Seq(T)
    BY <2>2, <1>7
  <2>5. Then(b, t) \in Seq(T)
    BY <2>4, Joined
  <2>6. Len(Then(b, t)) = Len(b) + Len(t)
    BY <2>4, Joined
  <2>7. \A k \in 1..Len(b) : Then(b, t)[k] = b[k]
    BY <2>4, Joined
  <2>8. \A k \in 1..Len(t) : Then(b, t)[Len(b) + k] = t[k]
    BY <2>4, Joined
  <2> QED
    BY ONLY <2>2, <2>3, <2>5, <2>6, <2>7, <2>8, <1>7
<1>10. PICK d : d = Then(c, <<all[5], all[6]>>)
  OBVIOUS
<1>11. /\ d \in Seq(T) /\ Len(d) = 6
      /\ d[1] = all[1] /\ d[2] = all[2] /\ d[3] = all[3] /\ d[4] = all[4] /\ d[5] = all[5] /\ d[6] = all[6]
  <2>1. PICK t : t = <<all[5], all[6]>>
    OBVIOUS
  <2>2. t \in Seq(T) /\ Len(t) = 2 /\ t[1] = all[5] /\ t[2] = all[6]
    BY <2>1, <1>3
  <2>3. d = Then(c, t)
    BY <2>1, <1>10
  <2>4. c \in Seq(T) /\ t \in Seq(T)
    BY <2>2, <1>9
  <2>5. Then(c, t) \in Seq(T)
    BY <2>4, Joined
  <2>6. Len(Then(c, t)) = Len(c) + Len(t)
    BY <2>4, Joined
  <2>7. \A k \in 1..Len(c) : Then(c, t)[k] = c[k]
    BY <2>4, Joined
  <2>8. \A k \in 1..Len(t) : Then(c, t)[Len(c) + k] = t[k]
    BY <2>4, Joined
  <2> QED
    BY ONLY <2>2, <2>3, <2>5, <2>6, <2>7, <2>8, <1>9
<1>12. PICK f : f = FlattenSeq(s)
  OBVIOUS
<1>13. f = IF n = 1 THEN a ELSE IF n = 2 THEN b ELSE IF n = 3 THEN c ELSE d
  <2>1. LET q == Then(s[1], s[2])
            r == Then(q, s[3])
            u == Then(r, s[4])
        IN  f = IF n = 1 THEN s[1] ELSE IF n = 2 THEN q ELSE IF n = 3 THEN r ELSE u
    BY <1>1, <1>12, FlatIs
  <2> QED
    BY <2>1, <1>2, <1>4, <1>6, <1>8, <1>10
<1>14. f \in Seq(T) /\ Len(f) = CountOf[n] /\ \A k \in 1..CountOf[n] : f[k] = all[k]
  <2>1. CASE n = 1
    BY <2>1, <1>13, <1>5 DEF CountOf
  <2>2. CASE n = 2
    BY <2>2, <1>13, <1>7 DEF CountOf
  <2>3. CASE n = 3
    BY <2>3, <1>13, <1>9 DEF CountOf
  <2>4. CASE n = 4
    BY <2>4, <1>13, <1>11 DEF CountOf
  <2> QED
    BY <2>1, <2>2, <2>3, <2>4
<1> QED
  BY <1>1, <1>12, <1>14, <1>a, <1>b DEF IsCreated

\* As many as there are places.
LEMMA PlacesCounted ==
  ASSUME NEW m \in Nat, NEW P \in [1..m -> Nat],
         \A k, l \in 1..m : k < l => P[k] < P[l]
  PROVE  Cardinality({P[k] : k \in 1..m}) = m
<1> DEFINE S == {P[k] : k \in 1..m}
<1>1. \A k, l \in 1..m : P[k] = P[l] => k = l
  OBVIOUS
<1>2. [k \in 1..m |-> P[k]] \in Bijection(1..m, S)
  BY <1>1 DEF Bijection, Injection, Surjection, IsInjective
<1>3. ExistsBijection(1..m, S)
  BY <1>2 DEF ExistsBijection
<1>4. IsFiniteSet(1..m) /\ Cardinality(1..m) = m
  BY FS_Interval
<1> QED
  BY <1>3, <1>4, FS_Bijection

\* The instructions of template id are at the places P, in this order.
Places(created, id, m, P) ==
    /\ Len(created) \in Nat /\ m \in Nat
    /\ P \in [1..m -> 1..Len(created)]
    /\ \A k, l \in 1..m : k < l => P[k] < P[l]
    /\ \A j \in 1..Len(created) : created[j].tmpl = id <=> \E k \in 1..m : P[k] = j

\* The ids of what is there.
Ids(from, m, P) == [k \in 1..m |-> from + P[k]]

\* A template that owns the instructions at the places P gets their ids in that
\* order: the choice by rank in GroupOf goes through P.
LEMMA GroupIs ==
  ASSUME NEW created, NEW from \in Nat, NEW id, NEW m, NEW P, Places(created, id, m, P)
  PROVE  GroupOf(created, from, id) = Ids(from, m, P)
<1>a. PICK len : len = Len(created)
  OBVIOUS
<1> USE <1>a DEF Places, Ids
<1> DEFINE Owned(j) == {i \in 1..j : created[i].tmpl = id}
           Is(j, k) == j \in 1..len /\ created[j].tmpl = id /\ Cardinality(Owned(j)) = k
<1>1. Cardinality(Owned(len)) = m
  <2>1. Owned(len) = {P[k] : k \in 1..m}
    OBVIOUS
  <2>2. P \in [1..m -> Nat]
    OBVIOUS
  <2>3. Cardinality({P[k] : k \in 1..m}) = m
    BY <2>2, PlacesCounted
  <2> QED
    BY <2>1, <2>3
<1>2. ASSUME NEW k \in 1..m PROVE Cardinality(Owned(P[k])) = k
  <2> DEFINE Q == [l \in 1..k |-> P[l]]
  <2>1. Q \in [1..k -> Nat] /\ k \in Nat /\ \A l, j \in 1..k : l < j => Q[l] < Q[j]
    OBVIOUS
  <2>2. Cardinality({Q[l] : l \in 1..k}) = k
    <3> HIDE DEF Q
    <3> QED
      BY <2>1, PlacesCounted
  <2>3. Owned(P[k]) = {Q[l] : l \in 1..k}
    <3>1. ASSUME NEW j \in Owned(P[k]) PROVE j \in {Q[l] : l \in 1..k}
      <4>1. j \in 1..len /\ j <= P[k] /\ P[k] \in 1..len
        OBVIOUS
      <4>2. PICK l \in 1..m : P[l] = j
        BY <4>1, <3>1
      <4>3. ~(k < l)
        BY <4>1, <4>2
      <4> QED
        BY <4>2, <4>3
    <3>2. ASSUME NEW l \in 1..k PROVE P[l] \in Owned(P[k])
      <4>1. l \in 1..m /\ (l < k \/ l = k) /\ P[l] \in 1..len /\ P[k] \in 1..len
        OBVIOUS
      <4>2. P[l] <= P[k]
        BY <4>1
      <4> QED
        BY <4>1, <4>2
    <3> QED
      BY <3>1, <3>2
  <2> QED
    BY <2>2, <2>3
<1>3. ASSUME NEW k \in 1..m PROVE (CHOOSE j : Is(j, k)) = P[k]
  <2>1. Is(P[k], k)
    BY <1>2
  <2>2. ASSUME NEW j, Is(j, k) PROVE j = P[k]
    <3>1. PICK l \in 1..m : P[l] = j
      BY <2>2
    <3>2. Cardinality(Owned(P[l])) = l /\ Cardinality(Owned(P[l])) = k
      BY <3>1, <1>2, <2>2
    <3> QED
      BY <3>1, <3>2
  <2> HIDE DEF Is
  <2> QED
    BY <2>1, <2>2
<1> DEFINE Ranked(k) == CHOOSE j \in 1..Len(created) :
                           /\ created[j].tmpl = id
                           /\ Cardinality({i \in 1..j : created[i].tmpl = id}) = k
<1>4. ASSUME NEW k \in 1..m PROVE Ranked(k) = P[k]
  BY <1>3
<1>5. {j \in 1..Len(created) : created[j].tmpl = id} = Owned(len)
  OBVIOUS
<1>6. GroupOf(created, from, id) =
        [k \in 1..Cardinality({j \in 1..Len(created) : created[j].tmpl = id}) |-> from + Ranked(k)]
  BY DEF GroupOf
<1> HIDE DEF Ranked, Owned
<1> QED
  BY <1>1, <1>4, <1>5, <1>6

\* The groups of a pair, from the id of the last instruction there was before.
ExpandGroup(n, from) == [k \in 1..n |-> from + <<1, 3, 4, 5>>[k]]

ShrinkGroup(n, from) == IF n = 4 THEN <<from + 6, from + 2>> ELSE <<from + 2>>

LEMMA PairGroups ==
  ASSUME NEW n \in 1..4, NEW from \in Nat, NEW id, NEW rev, id # rev
  PROVE  /\ GroupOf(CreatedBy(n, id, rev), from, id) = ExpandGroup(n, from)
         /\ ReverseGroup(CreatedBy(n, id, rev), from, rev) = ShrinkGroup(n, from)
<1>a. PICK created : created = CreatedBy(n, id, rev)
  OBVIOUS
<1>b. PICK len : len = CountOf[n]
  OBVIOUS
<1>1. n \in {1, 2, 3, 4} /\ len \in Nat /\ len = IF n = 1 THEN 2 ELSE IF n = 4 THEN 6 ELSE n + 1
  BY <1>b DEF CountOf
<1>2. /\ Len(created) = len /\ len \in Nat
      /\ \A k \in 1..len : created[k] = AllCreated(id, rev)[k]
  <2>1. IsCreated(created, n, id, rev)
    BY <1>a, CreatedIs
  <2> QED
    BY <2>1, <1>1, <1>b DEF IsCreated
<1>3. \A k \in 1..6 : AllCreated(id, rev)[k].tmpl = IF k \in {2, 6} THEN rev ELSE id
  BY DEF AllCreated, NewInstr
<1>4. \A k \in 1..len : created[k].tmpl = IF k \in {2, 6} THEN rev ELSE id
  BY <1>1, <1>2, <1>3
<1>5. GroupOf(created, from, id) = ExpandGroup(n, from)
  <2> DEFINE P == [k \in 1..n |-> <<1, 3, 4, 5>>[k]]
  <2>1. \A k \in 1..n : P[k] = IF k = 1 THEN 1 ELSE k + 1
    BY <1>1
  <2>2. P \in [1..n -> 1..len]
    <3>1. P = [k \in 1..n |-> P[k]]
      OBVIOUS
    <3> HIDE DEF P
    <3>2. \A k \in 1..n : P[k] \in 1..len
      BY <2>1, <1>1
    <3> QED
      BY <3>1, <3>2
  <2>3. ExpandGroup(n, from) = Ids(from, n, P)
    BY DEF ExpandGroup, Ids
  <2> HIDE DEF P
  <2>4. \A k, l \in 1..n : k < l => P[k] < P[l]
    BY <2>1
  <2>5. \A j \in 1..len : created[j].tmpl = id <=> j \notin {2, 6}
    BY <1>1, <1>4
  <2>6. \A j \in 1..len : j \notin {2, 6} <=> \E k \in 1..n : P[k] = j
    <3>1. ASSUME NEW j \in 1..len, j \notin {2, 6} PROVE \E k \in 1..n : P[k] = j
      <4>1. CASE j = 1
        BY <4>1, <2>1
      <4>2. CASE j # 1
        <5>1. j - 1 \in 1..n /\ j - 1 # 1
          BY <4>2, <3>1, <1>1
        <5> QED
          BY <5>1, <2>1
      <4> QED
        BY <4>1, <4>2
    <3>2. ASSUME NEW k \in 1..n PROVE P[k] \notin {2, 6}
      BY <2>1, <1>1
    <3> QED
      BY <3>1, <3>2
  <2>7. \A j \in 1..len : created[j].tmpl = id <=> \E k \in 1..n : P[k] = j
    BY <2>5, <2>6
  <2>8. n \in Nat
    OBVIOUS
  <2>9. Places(created, id, n, P)
    BY <1>2, <2>2, <2>4, <2>7, <2>8 DEF Places
  <2>10. GroupOf(created, from, id) = Ids(from, n, P)
    BY <2>9, GroupIs
  <2> QED
    BY <2>3, <2>10
<1>6. CASE n = 4
  <2> DEFINE P == [k \in 1..2 |-> IF k = 1 THEN 2 ELSE 6]
  <2>1. P \in [1..2 -> 1..len] /\ P[1] = 2 /\ P[2] = 6
    BY <1>1, <1>6
  <2> HIDE DEF P
  <2>2. \A k, l \in 1..2 : k < l => P[k] < P[l]
    BY <2>1
  <2>3. \A j \in 1..len : created[j].tmpl = rev <=> \E k \in 1..2 : P[k] = j
    BY <1>1, <1>4, <2>1
  <2>4. Places(created, rev, 2, P)
    BY <1>2, <2>1, <2>2, <2>3 DEF Places
  <2>5. GroupOf(created, from, rev) = Ids(from, 2, P)
    BY <2>4, GroupIs
  <2>6. Reverse(Ids(from, 2, P)) = <<from + 6, from + 2>>
    BY <2>1 DEF Reverse, Ids
  <2> QED
    BY <2>5, <2>6, <1>5, <1>6, <1>a DEF ReverseGroup, ShrinkGroup
<1>7. CASE n # 4
  <2> DEFINE P == [k \in 1..1 |-> 2]
  <2>1. P \in [1..1 -> 1..len] /\ P[1] = 2
    BY <1>1, <1>7
  <2> HIDE DEF P
  <2>2. \A k, l \in 1..1 : k < l => P[k] < P[l]
    BY <2>1
  <2>3. \A j \in 1..len : created[j].tmpl = rev <=> \E k \in 1..1 : P[k] = j
    BY <1>1, <1>4, <1>7, <2>1
  <2>4. Places(created, rev, 1, P)
    BY <1>2, <2>1, <2>2, <2>3 DEF Places
  <2>5. GroupOf(created, from, rev) = Ids(from, 1, P)
    BY <2>4, GroupIs
  <2>6. Reverse(Ids(from, 1, P)) = <<from + 2>>
    BY <2>1 DEF Reverse, Ids
  <2> QED
    BY <2>5, <2>6, <1>5, <1>7, <1>a DEF ReverseGroup, ShrinkGroup
<1> QED
  BY <1>6, <1>7

-----------------------------------------------------------------------------
(* The invariant *)

TmplRow == [type : Types, cluster : Cluster, group : Seq(1..MaxInstr),
            reverse : 0..MaxTmpl, deleted : BOOLEAN]

ActionName ==
    {"bridgx.expand", "bridgx.shrink", "nodeact.initbase", "nodeact.initsvc", "mount.slb",
     "umount.slb", "nodeact.before_download", "nodeact.download", "nodeact.before_deploy",
     "nodeact.deploy", "nodeact.after_deploy"}

InstrRow == [action : ActionName, tmpl : 0..MaxTmpl, deleted : BOOLEAN]

Tables ==
    /\ tmpl \in Seq(TmplRow) /\ Len(tmpl) <= MaxTmpl
    /\ instr \in Seq(InstrRow) /\ Len(instr) <= MaxInstr
    /\ bound \subseteq Cluster /\ torn \subseteq Cluster
    /\ reply \in {"none", "ok", "error"}

(* An expand template is followed by the shrink template that knows it; it   *)
(* knows that one too, and is deleted with it, unless its request panicked   *)
(* or another took the two apart.                                            *)
Coupled(id) ==
    /\ id + 1 \in DOMAIN tmpl
    /\ tmpl[id + 1].type = "shrink"
    /\ tmpl[id + 1].cluster = tmpl[id].cluster
    /\ tmpl[id + 1].reverse = id
    /\ tmpl[id].reverse \in {0, id + 1}
    /\ tmpl[id].cluster \notin torn =>
          tmpl[id].reverse = id + 1 /\ (tmpl[id].deleted <=> tmpl[id + 1].deleted)

PairedAt(id) ==
    /\ tmpl[id].type = "expand" => Coupled(id)
    /\ tmpl[id].type = "shrink" => id - 1 \in DOMAIN tmpl /\ tmpl[id - 1].type = "expand"
    /\ tmpl[id].type = "deploy" => tmpl[id].reverse = 0

Pairs == \A id \in DOMAIN tmpl : PairedAt(id)

(* The group of a template names its own instructions, none of them flagged  *)
(* unless a request panicked after it had flagged them.                      *)
Owns(id) ==
    \A k \in DOMAIN tmpl[id].group :
        LET i == tmpl[id].group[k] IN
        /\ i \in DOMAIN instr
        /\ instr[i].tmpl = id
        /\ tmpl[id].cluster \notin torn => ~instr[i].deleted

AllOwn == \A id \in DOMAIN tmpl : Owns(id)

\* Actions, of a given table.
ActionsIn(rows, group) == [k \in DOMAIN group |-> rows[group[k]].action]

\* What the same number of steps leaves in the groups of two templates.
InStep(rows, g, h) ==
    \E n \in 1..4 : /\ ActionsIn(rows, g) = SubSeq(ExpandStep, 1, n)
                    /\ ActionsIn(rows, h) = ShrinkOf(n)

(* The groups of a pair are in step, either way round once the pair was       *)
(* updated by the id of its shrink template, unless it was never completed.   *)
Fits(id) ==
    /\ tmpl[id].type = "expand" =>
          \/ /\ tmpl[id].group = <<>> /\ tmpl[id + 1].group = <<>>
             /\ tmpl[id].reverse = 0 /\ tmpl[id].cluster \in torn
          \/ InStep(instr, tmpl[id].group, tmpl[id + 1].group)
          \/ InStep(instr, tmpl[id + 1].group, tmpl[id].group) /\ tmpl[id].cluster \in torn
    /\ tmpl[id].type = "deploy" =>
          \/ tmpl[id].group = <<>> /\ tmpl[id].cluster \in torn
          \/ ActionsIn(instr, tmpl[id].group) = InstanceDeploySteps

AllFit == \A id \in DOMAIN tmpl : Fits(id)

(* What a task ran and what is left of its group make up a group it may have *)
(* read.                                                                     *)
JobFits ==
    /\ job \in [tmpl : Nat, left : Seq(Nat), ran : Seq(ActionName)]
    /\ job.left # <<>> =>
          /\ job.tmpl \in DOMAIN tmpl
          /\ \A k \in DOMAIN job.left : job.left[k] \in DOMAIN instr
          /\ MayRun(tmpl[job.tmpl], job.ran \o ActionsIn(instr, job.left))

(* No service has two clusters and none has been without one.                *)
ClustersKnown ==
    /\ service \in [Name -> {"none", "live", "deleted"}]
    /\ service_cluster \in Seq(Name)
    /\ \A i, j \in DOMAIN service_cluster : service_cluster[i] = service_cluster[j] => i = j
    /\ \A name \in Name :
          service[name] = "none" <=> \A i \in DOMAIN service_cluster : service_cluster[i] # name

(* The template of a task, as long as it is there, is the first of its kind:  *)
(* it was when the task started, new ones come behind it.                    *)
RunsFirst ==
    /\ running \in [1..MaxTask -> 0..MaxTmpl]
    /\ looked \in [Caller -> {0} \cup Cluster]
    /\ \A k \in 1..MaxTask : running[k] # 0 => running[k] \in DOMAIN tmpl
    /\ \A k \in 1..MaxTask, j \in DOMAIN tmpl :
          (/\ Live(running[k]) /\ Live(j)
           /\ tmpl[running[k]].cluster = tmpl[j].cluster /\ tmpl[running[k]].type = tmpl[j].type)
             => running[k] <= j

TemplatesHold == Pairs /\ AllOwn /\ AllFit /\ BoundHasTemplate

TasksHold == RunsFirst /\ TasksWithinCallers

ServicesInv == Tables /\ TemplatesHold /\ JobFits /\ ClustersKnown /\ TasksHold

-----------------------------------------------------------------------------
(* What a request does to a table: some rows are flagged, some are added *)

Marked(rows, X) ==
    [k \in DOMAIN rows |-> IF k \in X THEN [rows[k] EXCEPT !.deleted = TRUE] ELSE rows[k]]

Grew(Row, old, cur, X, new) ==
    /\ cur \in Seq(Row) /\ Len(cur) = Len(old) + Len(new)
    /\ \A k \in 1..Len(old) :
          cur[k] = IF k \in X THEN [old[k] EXCEPT !.deleted = TRUE] ELSE old[k]
    /\ \A k \in 1..Len(new) : cur[Len(old) + k] = new[k]

\* Rows with a flag.
Flaggable(Row) == \A r \in Row : [r EXCEPT !.deleted = TRUE] \in Row

LEMMA RowsFlaggable == Flaggable(TmplRow) /\ Flaggable(InstrRow)
  BY DEF Flaggable, TmplRow, InstrRow

LEMMA FunctionIsSeq ==
  ASSUME NEW S, NEW n \in Nat, NEW f \in [1..n -> S]
  PROVE  f \in Seq(S) /\ Len(f) = n
  OBVIOUS

LEMMA MarkedIs ==
  ASSUME NEW Row, Flaggable(Row), NEW old \in Seq(Row), NEW X
  PROVE  Marked(old, X) \in Seq(Row) /\ Len(Marked(old, X)) = Len(old)
<1>1. Len(old) \in Nat /\ DOMAIN old = 1..Len(old) /\ \A k \in 1..Len(old) : old[k] \in Row
  BY LenProperties, ElementOfSeq
<1>2. Marked(old, X) \in [1..Len(old) -> Row]
  BY <1>1 DEF Marked, Flaggable
<1> QED
  BY <1>1, <1>2, FunctionIsSeq

LEMMA MarkedGrows ==
  ASSUME NEW Row, Flaggable(Row), NEW old \in Seq(Row), NEW X, NEW new \in Seq(Row)
  PROVE  Grew(Row, old, Marked(old, X) \o new, X, new)
<1>1. PICK cur : cur = Then(Marked(old, X), new)
  OBVIOUS
<1>2. PICK m : m = Marked(old, X)
  OBVIOUS
<1>3. m \in Seq(Row) /\ Len(m) = Len(old) /\ DOMAIN old = 1..Len(old)
  BY <1>2, MarkedIs, LenProperties
<1>4. \A k \in 1..Len(old) : m[k] = IF k \in X THEN [old[k] EXCEPT !.deleted = TRUE] ELSE old[k]
  BY <1>2, <1>3 DEF Marked
<1>5. m \in Seq(Row) /\ new \in Seq(Row)
  BY <1>3
<1>6. Then(m, new) \in Seq(Row)
  BY <1>5, Joined
<1>7. Len(Then(m, new)) = Len(m) + Len(new)
  BY <1>5, Joined
<1>8. \A k \in 1..Len(m) : Then(m, new)[k] = m[k]
  BY <1>5, Joined
<1>9. \A k \in 1..Len(new) : Then(m, new)[Len(m) + k] = new[k]
  BY <1>5, Joined
<1>10. Grew(Row, old, cur, X, new)
  BY ONLY <1>1, <1>2, <1>3, <1>4, <1>6, <1>7, <1>8, <1>9 DEF Grew
<1> QED
  BY <1>1, <1>10 DEF Then

LEMMA NothingMarked ==
  ASSUME NEW Row, NEW old \in Seq(Row)
  PROVE  Marked(old, {}) = old
  BY LenProperties DEF Marked

LEMMA ConcatGrows ==
  ASSUME NEW Row, Flaggable(Row), NEW old \in Seq(Row), NEW new \in Seq(Row)
  PROVE  Grew(Row, old, old \o new, {}, new)
  BY MarkedGrows, NothingMarked

LEMMA MarkingGrows ==
  ASSUME NEW Row, Flaggable(Row), NEW old \in Seq(Row), NEW X
  PROVE  Grew(Row, old, Marked(old, X), X, <<>>)
<1>1. Marked(old, X) \in Seq(Row) /\ Len(Marked(old, X)) = Len(old)
  BY MarkedIs
<1>2. DOMAIN old = 1..Len(old) /\ Len(old) \in Nat
  BY LenProperties
<1> QED
  BY <1>1, <1>2 DEF Grew, Marked

LEMMA NothingGrows ==
  ASSUME NEW Row, Flaggable(Row), NEW old \in Seq(Row)
  PROVE  Grew(Row, old, old, {}, <<>>)
  BY MarkingGrows, NothingMarked

-----------------------------------------------------------------------------
(* What each request does to both tables *)

ExpandRow(sc, g, r) ==
    [type |-> "expand", cluster |-> sc, group |-> g, reverse |-> r, deleted |-> FALSE]

ShrinkRow(sc, h, id) ==
    [type |-> "shrink", cluster |-> sc, group |-> h, reverse |-> id, deleted |-> FALSE]

DeployRow(sc, g) ==
    [type |-> "deploy", cluster |-> sc, group |-> g, reverse |-> 0, deleted |-> FALSE]

\* A pair is created; what panicked leaves it without groups.
PairAdded(sc, n) ==
    /\ Grew(InstrRow, instr, instr', {}, CreatedBy(n, Len(tmpl) + 1, Len(tmpl) + 2))
    /\ \/ /\ Grew(TmplRow, tmpl, tmpl', {},
                  <<ExpandRow(sc, ExpandGroup(n, Len(instr)), Len(tmpl) + 2),
                    ShrinkRow(sc, ShrinkGroup(n, Len(instr)), Len(tmpl) + 1)>>)
          /\ torn' = torn
       \/ /\ Grew(TmplRow, tmpl, tmpl', {},
                  <<ExpandRow(sc, <<>>, 0), ShrinkRow(sc, <<>>, Len(tmpl) + 1)>>)
          /\ torn' = torn \cup {sc}
    /\ bound' = bound \cup {sc}
    /\ UNCHANGED job

OwnedBy(ids) == {k \in DOMAIN instr : instr[k].tmpl \in ids}

\* Rows that differ in their groups and reverses at most.
ButGroup(r, s) == s.type = r.type /\ s.cluster = r.cluster /\ s.deleted = r.deleted

\* A pair gets new groups; by the id of its shrink template, each gets the other's.
PairRegrouped(id, rev, sc, n) ==
    /\ ~tmpl[id].deleted /\ ~tmpl[rev].deleted
    /\ \/ rev = id + 1 /\ tmpl[id].type = "expand"
       \/ id = rev + 1 /\ tmpl[rev].type = "expand" /\ tmpl[id].cluster \in torn'
    /\ \E ids \in SUBSET {id, rev} :
          Grew(InstrRow, instr, instr', OwnedBy(ids), CreatedBy(n, id, rev))
    /\ tmpl' \in Seq(TmplRow) /\ Len(tmpl') = Len(tmpl)
    /\ \A k \in 1..Len(tmpl) : IF k \in {id, rev} THEN ButGroup(tmpl[k], tmpl'[k])
                                                 ELSE tmpl'[k] = tmpl[k]
    /\ tmpl'[id].group = ExpandGroup(n, Len(instr)) /\ tmpl'[id].reverse = rev
    /\ tmpl'[rev].group = ShrinkGroup(n, Len(instr)) /\ tmpl'[rev].reverse = id
    /\ torn \subseteq torn' /\ (sc \in torn' \/ sc = tmpl[id].cluster)
    /\ bound' = bound \cup {sc}
    /\ UNCHANGED job

\* A pair would have got new groups, had the request not panicked.
PairFlagged(id, sc, n) ==
    /\ \E ids \in SUBSET {id, tmpl[id].reverse} :
          Grew(InstrRow, instr, instr', OwnedBy(ids), CreatedBy(n, id, tmpl[id].reverse))
    /\ tmpl' = tmpl
    /\ torn' = torn \cup {sc, tmpl[id].cluster}
    /\ bound' = bound \cup {sc}
    /\ UNCHANGED job

\* The templates in whose place a deploy template is created for sc: of sc and its
\* kind, or of a cluster that counts as torn from now on.
Replaceable(sc, X) ==
    \A id \in X :
        /\ id \in DOMAIN tmpl
        /\ \/ tmpl[id].deleted
           \/ tmpl[id].type = "deploy" /\ tmpl[id].cluster = sc
           \/ tmpl[id].cluster \in torn'

\* A deploy template is created, perhaps in the place of others, or not all of it.
DeployAdded(sc, X) ==
    /\ Replaceable(sc, X)
    /\ torn \subseteq torn'
    /\ \/ /\ Grew(TmplRow, tmpl, tmpl', X, <<DeployRow(sc, [k \in 1..5 |-> Len(instr) + k])>>)
          /\ Grew(InstrRow, instr, instr', {}, InstanceInstrs(5, Len(tmpl) + 1))
       \/ /\ Grew(TmplRow, tmpl, tmpl', X, <<DeployRow(sc, <<>>)>>)
          /\ \E n \in 0..4 : Grew(InstrRow, instr, instr', {}, InstanceInstrs(n, Len(tmpl) + 1))
          /\ sc \in torn'
       \/ /\ Grew(TmplRow, tmpl, tmpl', X, <<>>)
          /\ instr' = instr
          /\ sc \in torn'
    /\ bound' = bound \cup {sc}
    /\ UNCHANGED job

\* Templates are deleted.
PairsDropped(ids) ==
    /\ \A id \in ids : Live(id)
    /\ Grew(TmplRow, tmpl, tmpl', WithReverses(ids), <<>>)
    /\ bound' = Unbound(ids)
    /\ UNCHANGED <<instr, job, torn>>

\* Templates are deleted without their reverses.
HalvesDropped(ids) ==
    /\ \A id \in ids : Live(id)
    /\ Grew(TmplRow, tmpl, tmpl', ids, <<>>)
    /\ torn' = torn \cup {tmpl[id].cluster : id \in ids}
    /\ UNCHANGED <<instr, bound, job>>

LEMMA TableFacts ==
  ASSUME Tables
  PROVE  /\ tmpl \in Seq(TmplRow) /\ Len(tmpl) \in Nat /\ DOMAIN tmpl = 1..Len(tmpl)
         /\ \A id \in 1..Len(tmpl) : tmpl[id] \in TmplRow
         /\ instr \in Seq(InstrRow) /\ Len(instr) \in Nat /\ DOMAIN instr = 1..Len(instr)
         /\ \A k \in 1..Len(instr) : instr[k] \in InstrRow
         /\ MaxTmpl \in Nat /\ MaxInstr \in Nat
  BY TemplateAssumption, LenProperties, ElementOfSeq DEF Tables

LEMMA CreatedRows ==
  ASSUME NEW n \in 1..4, NEW id \in 0..MaxTmpl, NEW rev \in 0..MaxTmpl
  PROVE  /\ CreatedBy(n, id, rev) \in Seq(InstrRow)
         /\ Len(CreatedBy(n, id, rev)) = CountOf[n] /\ CountOf[n] \in {2, 3, 4, 6}
<1>1. PICK c : c = CreatedBy(n, id, rev)
  OBVIOUS
<1>2. IsCreated(c, n, id, rev)
  BY <1>1, CreatedIs
<1>3. \A k \in 1..6 : AllCreated(id, rev)[k] \in InstrRow
  <2>1. PICK all : all = AllCreated(id, rev)
    OBVIOUS
  <2>2. /\ all[1] = NewInstr("bridgx.expand", id)
        /\ all[2] = NewInstr("bridgx.shrink", rev)
        /\ all[3] = NewInstr("nodeact.initbase", id)
        /\ all[4] = NewInstr("nodeact.initsvc", id)
        /\ all[5] = NewInstr("mount.slb", id)
        /\ all[6] = NewInstr("umount.slb", rev)
    BY <2>1 DEF AllCreated
  <2>3. /\ NewInstr("bridgx.expand", id) \in InstrRow
        /\ NewInstr("bridgx.shrink", rev) \in InstrRow
        /\ NewInstr("nodeact.initbase", id) \in InstrRow
        /\ NewInstr("nodeact.initsvc", id) \in InstrRow
        /\ NewInstr("mount.slb", id) \in InstrRow
        /\ NewInstr("umount.slb", rev) \in InstrRow
    BY DEF NewInstr, InstrRow, ActionName
  <2>4. \A k \in 1..6 : k \in {1, 2, 3, 4, 5, 6}
    OBVIOUS
  <2> QED
    BY <2>1, <2>2, <2>3, <2>4
<1>4. PICK T : T = {AllCreated(id, rev)[k] : k \in 1..6}
  OBVIOUS
<1>5. T \subseteq InstrRow
  BY <1>3, <1>4
<1>6. c \in Seq(T)
  BY <1>2, <1>4 DEF IsCreated
<1>7. c \in Seq(InstrRow)
  BY <1>5, <1>6, SeqMonotonic
<1>8. CountOf[n] \in {2, 3, 4, 6}
  BY DEF CountOf
<1> QED
  BY <1>1, <1>2, <1>7, <1>8 DEF IsCreated

LEMMA GroupsTyped ==
  ASSUME NEW n \in 1..4, NEW from \in Nat, from + CountOf[n] <= MaxInstr
  PROVE  /\ ExpandGroup(n, from) \in Seq(1..MaxInstr) /\ Len(ExpandGroup(n, from)) = n
         /\ ShrinkGroup(n, from) \in Seq(1..MaxInstr)
<1>1. n \in {1, 2, 3, 4} /\ CountOf[n] = IF n = 1 THEN 2 ELSE IF n = 4 THEN 6 ELSE n + 1
  BY DEF CountOf
<1>2. \A k \in 1..n : <<1, 3, 4, 5>>[k] = IF k = 1 THEN 1 ELSE k + 1
  OBVIOUS
<1>3. \A k \in 1..n : from + <<1, 3, 4, 5>>[k] \in 1..MaxInstr
  BY <1>1, <1>2, TemplateAssumption
<1>4. ExpandGroup(n, from) \in [1..n -> 1..MaxInstr]
  BY <1>3 DEF ExpandGroup
<1>5. n \in Nat
  OBVIOUS
<1>6. from + 2 \in 1..MaxInstr /\ (n = 4 => from + 6 \in 1..MaxInstr)
  BY <1>1, TemplateAssumption
<1>7. ShrinkGroup(n, from) \in Seq(1..MaxInstr)
  <2>1. PICK a, b : a = from + 2 /\ b = from + 6
    OBVIOUS
  <2>2. CASE n = 4
    BY <2>1, <2>2, <1>6 DEF ShrinkGroup
  <2>3. CASE n # 4
    BY <2>1, <2>3, <1>6 DEF ShrinkGroup
  <2> QED
    BY <2>2, <2>3
<1> QED
  BY <1>4, <1>5, <1>7, FunctionIsSeq

LEMMA NewRows ==
  ASSUME NEW sc \in Cluster, NEW g \in Seq(1..MaxInstr), NEW r \in 0..MaxTmpl
  PROVE  ExpandRow(sc, g, r) \in TmplRow /\ ShrinkRow(sc, g, r) \in TmplRow
  BY DEF ExpandRow, ShrinkRow, TmplRow, Types

LEMMA NewDeployRow ==
  ASSUME NEW sc \in Cluster, NEW g \in Seq(1..MaxInstr)
  PROVE  DeployRow(sc, g) \in TmplRow
<1>1. 0 \in 0..MaxTmpl
  BY TemplateAssumption
<1> QED
  BY <1>1 DEF DeployRow, TmplRow, Types

LEMMA SameRow ==
  ASSUME NEW r \in TmplRow, NEW s \in TmplRow,
         r.type = s.type, r.cluster = s.cluster, r.group = s.group, r.reverse = s.reverse,
         r.deleted = s.deleted
  PROVE  r = s
  BY DEF TmplRow

LEMMA RowChanged ==
  ASSUME NEW r \in TmplRow, NEW g \in Seq(1..MaxInstr), NEW rev \in 0..MaxTmpl
  PROVE  /\ [r EXCEPT !.group = g] \in TmplRow
         /\ [r EXCEPT !.group = g].type = r.type
         /\ [r EXCEPT !.group = g].cluster = r.cluster
         /\ [r EXCEPT !.group = g].group = g
         /\ [r EXCEPT !.group = g].reverse = r.reverse
         /\ [r EXCEPT !.group = g].deleted = r.deleted
         /\ [r EXCEPT !.reverse = rev] \in TmplRow
         /\ [r EXCEPT !.reverse = rev].type = r.type
         /\ [r EXCEPT !.reverse = rev].cluster = r.cluster
         /\ [r EXCEPT !.reverse = rev].group = r.group
         /\ [r EXCEPT !.reverse = rev].reverse = rev
         /\ [r EXCEPT !.reverse = rev].deleted = r.deleted
  BY DEF TmplRow

LEMMA NewRowsFilled ==
  ASSUME NEW sc \in Cluster, NEW g \in Seq(1..MaxInstr), NEW r \in 0..MaxTmpl
  PROVE  /\ [[ExpandRow(sc, <<>>, 0) EXCEPT !.group = g] EXCEPT !.reverse = r] = ExpandRow(sc, g, r)
         /\ [ShrinkRow(sc, <<>>, r) EXCEPT !.group = g] = ShrinkRow(sc, g, r)
<1>1. <<>> \in Seq(1..MaxInstr) /\ 0 \in 0..MaxTmpl
  BY TemplateAssumption
<1>2. PICK e : e = ExpandRow(sc, <<>>, 0)
  OBVIOUS
<1>3. /\ e \in TmplRow
      /\ e.type = "expand" /\ e.cluster = sc /\ e.deleted = FALSE
  BY <1>1, <1>2, NewRows DEF ExpandRow
<1>4. PICK f : f = [e EXCEPT !.group = g]
  OBVIOUS
<1>5. /\ f \in TmplRow
      /\ f.type = "expand" /\ f.cluster = sc /\ f.group = g /\ f.deleted = FALSE
  BY <1>3, <1>4, RowChanged
<1>6. PICK d : d = [f EXCEPT !.reverse = r]
  OBVIOUS
<1>7. /\ d \in TmplRow
      /\ d.type = "expand" /\ d.cluster = sc /\ d.group = g /\ d.reverse = r /\ d.deleted = FALSE
  BY <1>5, <1>6, RowChanged
<1>8. PICK c : c = ExpandRow(sc, g, r)
  OBVIOUS
<1>9. /\ c \in TmplRow
      /\ c.type = "expand" /\ c.cluster = sc /\ c.group = g /\ c.reverse = r /\ c.deleted = FALSE
  BY <1>8, NewRows DEF ExpandRow
<1>10. d = c
  BY <1>7, <1>9, SameRow
<1>11. PICK s : s = ShrinkRow(sc, <<>>, r)
  OBVIOUS
<1>12. /\ s \in TmplRow
       /\ s.type = "shrink" /\ s.cluster = sc /\ s.reverse = r /\ s.deleted = FALSE
  BY <1>1, <1>11, NewRows DEF ShrinkRow
<1>13. PICK t : t = [s EXCEPT !.group = g]
  OBVIOUS
<1>14. /\ t \in TmplRow
       /\ t.type = "shrink" /\ t.cluster = sc /\ t.group = g /\ t.reverse = r /\ t.deleted = FALSE
  BY <1>12, <1>13, RowChanged
<1>15. PICK u : u = ShrinkRow(sc, g, r)
  OBVIOUS
<1>16. /\ u \in TmplRow
       /\ u.type = "shrink" /\ u.cluster = sc /\ u.group = g /\ u.reverse = r /\ u.deleted = FALSE
  BY <1>15, NewRows DEF ShrinkRow
<1>17. t = u
  BY <1>14, <1>16, SameRow
<1>18. [[ExpandRow(sc, <<>>, 0) EXCEPT !.group = g] EXCEPT !.reverse = r] = ExpandRow(sc, g, r)
  BY <1>2, <1>4, <1>6, <1>8, <1>10, Zenon
<1>19. [ShrinkRow(sc, <<>>, r) EXCEPT !.group = g] = ShrinkRow(sc, g, r)
  BY <1>11, <1>13, <1>15, <1>17, Zenon
<1> QED
  BY <1>18, <1>19

LEMMA CreateContainerAdds ==
  ASSUME Tables, NEW sc \in Cluster, NEW n \in 1..4, CreateContainer(sc, n)
  PROVE  PairAdded(sc, n) /\ Tables'
<1> DEFINE id == Len(tmpl) + 1
           rev == Len(tmpl) + 2
           from == Len(instr)
<1>a. PICK created : created = CreatedBy(n, id, rev)
  OBVIOUS
<1>b. PICK g : g = ExpandGroup(n, from)
  OBVIOUS
<1>c. PICK h : h = ShrinkGroup(n, from)
  OBVIOUS
<1>d. PICK pair : pair = <<ExpandRow(sc, <<>>, 0), ShrinkRow(sc, <<>>, id)>>
  OBVIOUS
<1>1. /\ rev <= MaxTmpl /\ from + Len(created) <= MaxInstr
      /\ tmpl' = [tmpl \o NewPair(sc) EXCEPT
                 ![id].group = GroupOf(created, from, id), ![id].reverse = rev,
                 ![rev].group = ReverseGroup(created, from, rev)]
      /\ instr' = instr \o created
      /\ bound' = bound \cup {sc} /\ reply' = "ok" /\ job' = job /\ torn' = torn
  BY <1>a DEF CreateContainer
<1>2. /\ tmpl \in Seq(TmplRow) /\ Len(tmpl) \in Nat
      /\ instr \in Seq(InstrRow) /\ from \in Nat /\ MaxTmpl \in Nat /\ MaxInstr \in Nat
  BY TableFacts
<1>3. id \in 0..MaxTmpl /\ rev \in 0..MaxTmpl /\ id # rev /\ 0 \in 0..MaxTmpl
  BY <1>1, <1>2
<1>4. created \in Seq(InstrRow) /\ Len(created) = CountOf[n]
  BY <1>3, <1>a, CreatedRows
<1>5. g \in Seq(1..MaxInstr) /\ h \in Seq(1..MaxInstr)
  BY <1>1, <1>2, <1>4, <1>b, <1>c, GroupsTyped
<1>6. GroupOf(created, from, id) = g /\ ReverseGroup(created, from, rev) = h
  BY <1>2, <1>3, <1>a, <1>b, <1>c, PairGroups
<1>7. Grew(InstrRow, instr, instr', {}, created)
  BY <1>1, <1>2, <1>4, ConcatGrows, RowsFlaggable
<1>8. NewPair(sc) = pair
  BY <1>d DEF NewPair, ExpandRow, ShrinkRow, NewTemplate
<1>9. pair \in Seq(TmplRow) /\ Len(pair) = 2
  <2>1. <<>> \in Seq(1..MaxInstr)
    OBVIOUS
  <2>2. ExpandRow(sc, <<>>, 0) \in TmplRow /\ ShrinkRow(sc, <<>>, id) \in TmplRow
    BY <1>3, <2>1, NewRows
  <2> QED
    BY <1>d, <2>2
<1>10. PICK rows : rows = tmpl \o pair
  OBVIOUS
<1>11. Grew(TmplRow, tmpl, rows, {}, pair)
  BY <1>2, <1>9, <1>10, ConcatGrows, RowsFlaggable
<1> HIDE DEF id, rev, from
<1>12. PICK e : e = ExpandRow(sc, g, rev)
  OBVIOUS
<1>13. PICK s : s = ShrinkRow(sc, h, id)
  OBVIOUS
<1>14. e \in TmplRow /\ s \in TmplRow
  BY <1>3, <1>5, <1>12, <1>13, NewRows
<1>15. /\ rows \in Seq(TmplRow) /\ Len(rows) = rev /\ DOMAIN rows = 1..rev
       /\ \A k \in 1..Len(tmpl) : rows[k] = tmpl[k]
       /\ rows[id] = ExpandRow(sc, <<>>, 0) /\ rows[rev] = ShrinkRow(sc, <<>>, id)
  <2>1. rows \in Seq(TmplRow) /\ Len(rows) = Len(tmpl) + 2
    BY <1>9, <1>11 DEF Grew
  <2>2. rows[Len(tmpl) + 1] = pair[1] /\ rows[Len(tmpl) + 2] = pair[2]
    BY <1>9, <1>11 DEF Grew
  <2>3. pair[1] = ExpandRow(sc, <<>>, 0) /\ pair[2] = ShrinkRow(sc, <<>>, id)
    BY <1>d
  <2>4. \A k \in 1..Len(tmpl) : rows[k] = tmpl[k]
    BY <1>11 DEF Grew
  <2> QED
    BY <2>1, <2>2, <2>3, <2>4, LenProperties DEF id, rev
<1>16. tmpl' = [rows EXCEPT ![id] = e, ![rev] = s]
  <2>1. tmpl' = [rows EXCEPT ![id].group = g, ![id].reverse = rev, ![rev].group = h]
    BY <1>1, <1>6, <1>8, <1>10
  <2>2. id \in DOMAIN rows /\ rev \in DOMAIN rows /\ id # rev
    BY <1>2, <1>15 DEF id, rev
  <2>3. [[rows[id] EXCEPT !.group = g] EXCEPT !.reverse = rev] = e
    <3>1. [[ExpandRow(sc, <<>>, 0) EXCEPT !.group = g] EXCEPT !.reverse = rev] = ExpandRow(sc, g, rev)
      BY <1>3, <1>5, NewRowsFilled
    <3>2. rows[id] = ExpandRow(sc, <<>>, 0)
      BY <1>15
    <3> QED
      BY <3>1, <3>2, <1>12, Zenon
  <2>4. [rows[rev] EXCEPT !.group = h] = s
    <3>1. [ShrinkRow(sc, <<>>, id) EXCEPT !.group = h] = ShrinkRow(sc, h, id)
      BY <1>3, <1>5, NewRowsFilled
    <3>2. rows[rev] = ShrinkRow(sc, <<>>, id)
      BY <1>15
    <3> QED
      BY <3>1, <3>2, <1>13, Zenon
  <2> QED
    BY <2>1, <2>2, <2>3, <2>4
<1>17. /\ tmpl' \in Seq(TmplRow) /\ Len(tmpl') = rev
       /\ \A k \in 1..Len(tmpl) : tmpl'[k] = tmpl[k]
       /\ tmpl'[id] = e /\ tmpl'[rev] = s
  <2>1. id \in 1..rev /\ rev \in 1..rev /\ id # rev /\ rev \in Nat
    BY <1>2 DEF id, rev
  <2>2. tmpl' \in [1..rev -> TmplRow]
    BY <1>14, <1>15, <1>16, <2>1, LenProperties
  <2>3. tmpl' \in Seq(TmplRow) /\ Len(tmpl') = rev
    BY <2>1, <2>2, FunctionIsSeq
  <2>4. ASSUME NEW k \in 1..Len(tmpl) PROVE tmpl'[k] = tmpl[k]
    <3>1. k \in 1..rev /\ k # id /\ k # rev
      BY <1>2 DEF id, rev
    <3> QED
      BY <3>1, <1>15, <1>16
  <2>5. tmpl'[id] = e /\ tmpl'[rev] = s
    BY <2>1, <1>15, <1>16
  <2> QED
    BY <2>3, <2>4, <2>5
<1>18. Grew(TmplRow, tmpl, tmpl', {}, <<e, s>>)
  <2>1. PICK new : new = <<e, s>>
    OBVIOUS
  <2>2. Len(new) = 2 /\ new[1] = e /\ new[2] = s
    BY <2>1
  <2>3. \A k \in 1..Len(new) : tmpl'[Len(tmpl) + k] = new[k]
    BY <1>17, <2>2 DEF id, rev
  <2>4. Len(tmpl') = Len(tmpl) + Len(new)
    BY <1>17, <2>2 DEF rev
  <2> QED
    BY <1>17, <2>1, <2>3, <2>4 DEF Grew
<1>19. Tables'
  <2>1. instr' \in Seq(InstrRow) /\ Len(instr') <= MaxInstr
    BY <1>1, <1>7 DEF Grew, from
  <2> QED
    BY <2>1, <1>1, <1>17 DEF Tables
<1> QED
  BY <1>1, <1>7, <1>18, <1>19, <1>a, <1>b, <1>c, <1>12, <1>13 DEF PairAdded, id, rev, from

LEMMA CreateContainerPanicsAdds ==
  ASSUME Tables, NEW sc \in Cluster, NEW n \in 1..4, CreateContainerPanics(sc, n)
  PROVE  PairAdded(sc, n) /\ Tables'
<1> DEFINE id == Len(tmpl) + 1
<1>a. PICK created : created = CreatedBy(n, id, Len(tmpl) + 2)
  OBVIOUS
<1>b. PICK pair : pair = <<ExpandRow(sc, <<>>, 0), ShrinkRow(sc, <<>>, id)>>
  OBVIOUS
<1>1. /\ Len(tmpl) + 2 <= MaxTmpl /\ Len(instr) + Len(created) <= MaxInstr
      /\ tmpl' = tmpl \o NewPair(sc) /\ instr' = instr \o created
      /\ bound' = bound \cup {sc} /\ reply' = "error" /\ job' = job /\ torn' = torn \cup {sc}
  BY <1>a DEF CreateContainerPanics, HalfDone
<1>2. /\ tmpl \in Seq(TmplRow) /\ Len(tmpl) \in Nat
      /\ instr \in Seq(InstrRow) /\ MaxTmpl \in Nat
  BY TableFacts
<1>3. id \in 0..MaxTmpl /\ Len(tmpl) + 2 \in 0..MaxTmpl /\ 0 \in 0..MaxTmpl
  BY <1>1, <1>2
<1>4. created \in Seq(InstrRow)
  BY <1>3, <1>a, CreatedRows
<1>5. Grew(InstrRow, instr, instr', {}, created)
  BY <1>1, <1>2, <1>4, ConcatGrows, RowsFlaggable
<1>6. NewPair(sc) = pair
  BY <1>b DEF NewPair, ExpandRow, ShrinkRow, NewTemplate
<1>7. pair \in Seq(TmplRow) /\ Len(pair) = 2
  <2>1. <<>> \in Seq(1..MaxInstr)
    OBVIOUS
  <2>2. ExpandRow(sc, <<>>, 0) \in TmplRow /\ ShrinkRow(sc, <<>>, id) \in TmplRow
    BY <1>3, <2>1, NewRows
  <2> QED
    BY <1>b, <2>2
<1>8. Grew(TmplRow, tmpl, tmpl', {}, pair)
  BY <1>1, <1>2, <1>6, <1>7, ConcatGrows, RowsFlaggable
<1>9. Tables'
  <2>1. instr' \in Seq(InstrRow) /\ Len(instr') <= MaxInstr
    BY <1>1, <1>5 DEF Grew
  <2>2. tmpl' \in Seq(TmplRow) /\ Len(tmpl') <= MaxTmpl
    BY <1>1, <1>7, <1>8 DEF Grew
  <2> QED
    BY <2>1, <2>2, <1>1 DEF Tables
<1> QED
  BY <1>1, <1>5, <1>8, <1>9, <1>a, <1>b DEF PairAdded

\* The flags of the old instructions, then the new ones.
LEMMA ReplacedGrows ==
  ASSUME Tables, NEW ids, NEW created \in Seq(InstrRow)
  PROVE  Grew(InstrRow, instr, Replaced(ids, created), OwnedBy(ids), created)
<1>1. Flagged(instr, ids) = Marked(instr, OwnedBy(ids))
  BY DEF Flagged, Marked, OwnedBy
<1>2. instr \in Seq(InstrRow)
  BY DEF Tables
<1>3. Grew(InstrRow, instr, Marked(instr, OwnedBy(ids)) \o created, OwnedBy(ids), created)
  BY <1>2, MarkedGrows, RowsFlaggable
<1> QED
  BY <1>1, <1>3 DEF Replaced

\* Where the reverse of a template is.
LEMMA Reverses ==
  ASSUME Tables, Pairs, NEW id \in DOMAIN tmpl
  PROVE  LET rev == tmpl[id].reverse IN
         /\ id \in Nat /\ id # 0 /\ rev \in Nat
         /\ rev # 0 => rev \in DOMAIN tmpl /\ tmpl[rev].cluster = tmpl[id].cluster
         /\ rev # 0 => \/ tmpl[id].type = "expand" /\ rev = id + 1
                       \/ tmpl[id].type = "shrink" /\ id = rev + 1 /\ tmpl[rev].type = "expand"
<1>1. /\ DOMAIN tmpl = 1..Len(tmpl) /\ Len(tmpl) \in Nat /\ tmpl[id] \in TmplRow /\ MaxTmpl \in Nat
  BY TableFacts
<1>2. id \in Nat /\ id # 0 /\ tmpl[id].reverse \in Nat /\ tmpl[id].type \in {"expand", "shrink", "deploy"}
  BY <1>1 DEF TmplRow, Types
<1>3. CASE tmpl[id].type = "expand"
  BY <1>2, <1>3 DEF Pairs, PairedAt, Coupled
<1>4. CASE tmpl[id].type = "shrink"
  <2>1. id - 1 \in DOMAIN tmpl /\ tmpl[id - 1].type = "expand" /\ (id - 1) + 1 = id
    BY <1>2, <1>4 DEF Pairs, PairedAt
  <2>2. Coupled(id - 1)
    BY <2>1 DEF Pairs, PairedAt
  <2>3. tmpl[id].reverse = id - 1 /\ tmpl[id].cluster = tmpl[id - 1].cluster
    BY <2>1, <2>2 DEF Coupled
  <2> QED
    BY <1>2, <1>4, <2>1, <2>3
<1>5. CASE tmpl[id].type = "deploy"
  BY <1>2, <1>5 DEF Pairs, PairedAt
<1> QED
  BY <1>2, <1>3, <1>4, <1>5

\* The row with a group and a reverse.
Rewritten(r, g, rev, s) == s = [[r EXCEPT !.group = g] EXCEPT !.reverse = rev]

LEMMA RowsWritten ==
  ASSUME NEW r \in TmplRow, NEW g \in Seq(1..MaxInstr), NEW rev \in 0..MaxTmpl,
         NEW s, Rewritten(r, g, rev, s)
  PROVE  s \in TmplRow /\ ButGroup(r, s) /\ s.group = g /\ s.reverse = rev
<1>1. PICK f : f = [r EXCEPT !.group = g]
  OBVIOUS
<1>2. f \in TmplRow /\ ButGroup(r, f) /\ f.group = g
  BY <1>1, RowChanged DEF ButGroup
<1>3. s = [f EXCEPT !.reverse = rev]
  BY <1>1, Zenon DEF Rewritten
<1>4. s \in TmplRow /\ ButGroup(f, s) /\ s.group = g /\ s.reverse = rev
  BY <1>2, <1>3 DEF TmplRow, ButGroup
<1>5. ButGroup(r, s)
  BY <1>2, <1>4 DEF ButGroup
<1> QED
  BY <1>1, <1>3, <1>4, <1>5

LEMMA UpdateContainerRegroups ==
  ASSUME Tables, Pairs, NEW id \in DOMAIN tmpl, NEW sc \in Cluster, NEW n \in 1..4,
         UpdateContainer(id, sc, n)
  PROVE  PairRegrouped(id, tmpl[id].reverse, sc, n) /\ Tables'
<1> DEFINE from == Len(instr)
<1>r. PICK rev : rev = tmpl[id].reverse
  OBVIOUS
<1>a. PICK created : created = CreatedBy(n, id, rev)
  OBVIOUS
<1>b. PICK g : g = ExpandGroup(n, from)
  OBVIOUS
<1>c. PICK h : h = ShrinkGroup(n, from)
  OBVIOUS
<1>1. /\ tmpl \in Seq(TmplRow) /\ Len(tmpl) \in Nat /\ DOMAIN tmpl = 1..Len(tmpl)
      /\ \A k \in 1..Len(tmpl) : tmpl[k] \in TmplRow
      /\ instr \in Seq(InstrRow) /\ from \in Nat /\ MaxTmpl \in Nat /\ Len(tmpl) <= MaxTmpl
  BY TableFacts DEF Tables
<1>2. /\ Live(id) /\ Live(rev)
      /\ from + Len(created) <= MaxInstr
      /\ tmpl' = [tmpl EXCEPT
            ![id].group = GroupOf(created, from, id), ![id].reverse = rev,
            ![rev].group = ReverseGroup(created, from, rev), ![rev].reverse = id]
      /\ \E ids \in FlaggedOf(id, rev) : instr' = Replaced(ids, created)
      /\ bound' = bound \cup {sc}
      /\ reply' = "ok" /\ job' = job
      /\ torn' = torn \cup ({sc} \ {tmpl[id].cluster})
                      \cup (IF tmpl[id].type = "expand" THEN {} ELSE {tmpl[id].cluster})
  BY <1>r, <1>a DEF UpdateContainer
<1>3. /\ rev \in DOMAIN tmpl /\ tmpl[rev].cluster = tmpl[id].cluster
      /\ \/ rev = id + 1 /\ tmpl[id].type = "expand"
         \/ id = rev + 1 /\ tmpl[id].type = "shrink" /\ tmpl[rev].type = "expand"
  <2>1. rev # 0
    BY <1>1, <1>2 DEF Live
  <2> QED
    BY <2>1, <1>r, Reverses
<1>5. id \in 0..MaxTmpl /\ rev \in 0..MaxTmpl /\ id # rev
  BY <1>1, <1>3
<1>6. created \in Seq(InstrRow) /\ Len(created) = CountOf[n]
  BY <1>5, <1>a, CreatedRows
<1>7. g \in Seq(1..MaxInstr) /\ h \in Seq(1..MaxInstr)
  BY <1>1, <1>2, <1>6, <1>b, <1>c, GroupsTyped
<1>8. GroupOf(created, from, id) = g /\ ReverseGroup(created, from, rev) = h
  BY <1>1, <1>5, <1>a, <1>b, <1>c, PairGroups
<1>9. PICK ids \in SUBSET {id, rev} : Grew(InstrRow, instr, instr', OwnedBy(ids), created)
  <2>1. PICK ids \in FlaggedOf(id, rev) : instr' = Replaced(ids, created)
    BY <1>2
  <2>2. ids \in SUBSET {id, rev}
    BY <2>1 DEF FlaggedOf
  <2> QED
    BY <2>1, <2>2, <1>6, ReplacedGrows
<1> HIDE DEF from
<1>10. tmpl' = [tmpl EXCEPT ![id].group = g, ![id].reverse = rev,
                            ![rev].group = h, ![rev].reverse = id]
  BY <1>2, <1>8
<1>11. PICK e : e = [[tmpl[id] EXCEPT !.group = g] EXCEPT !.reverse = rev]
  OBVIOUS
<1>12. PICK s : s = [[tmpl[rev] EXCEPT !.group = h] EXCEPT !.reverse = id]
  OBVIOUS
<1>13. tmpl' = [tmpl EXCEPT ![id] = e, ![rev] = s]
  BY <1>1, <1>3, <1>5, <1>10, <1>11, <1>12
<1>14. /\ e \in TmplRow /\ ButGroup(tmpl[id], e) /\ e.group = g /\ e.reverse = rev
       /\ s \in TmplRow /\ ButGroup(tmpl[rev], s) /\ s.group = h /\ s.reverse = id
  <2>1. tmpl[id] \in TmplRow /\ tmpl[rev] \in TmplRow
    BY <1>1, <1>3
  <2>2. e \in TmplRow /\ ButGroup(tmpl[id], e) /\ e.group = g /\ e.reverse = rev
    <3>1. PICK r : r = tmpl[id]
      OBVIOUS
    <3>2. Rewritten(r, g, rev, e)
      BY ONLY <1>11, <3>1, Zenon DEF Rewritten
    <3>3. r \in TmplRow
      BY <2>1, <3>1
    <3>4. e \in TmplRow /\ ButGroup(r, e) /\ e.group = g /\ e.reverse = rev
      BY <1>5, <1>7, <3>2, <3>3, RowsWritten
    <3> QED
      BY <3>1, <3>4
  <2>3. s \in TmplRow /\ ButGroup(tmpl[rev], s) /\ s.group = h /\ s.reverse = id
    <3>1. PICK r : r = tmpl[rev]
      OBVIOUS
    <3>2. Rewritten(r, h, id, s)
      BY ONLY <1>12, <3>1, Zenon DEF Rewritten
    <3>3. r \in TmplRow
      BY <2>1, <3>1
    <3>4. s \in TmplRow /\ ButGroup(r, s) /\ s.group = h /\ s.reverse = id
      BY <1>5, <1>7, <3>2, <3>3, RowsWritten
    <3> QED
      BY <3>1, <3>4
  <2> QED
    BY <2>2, <2>3
<1>15. tmpl' \in [1..Len(tmpl) -> TmplRow]
  BY <1>1, <1>13, <1>14
<1>16. tmpl' \in Seq(TmplRow) /\ Len(tmpl') = Len(tmpl)
  BY <1>1, <1>15, FunctionIsSeq
<1>17. /\ tmpl'[id] = e /\ tmpl'[rev] = s
       /\ \A k \in 1..Len(tmpl) : k \notin {id, rev} => tmpl'[k] = tmpl[k]
  BY <1>1, <1>3, <1>5, <1>13
<1>18. PairRegrouped(id, rev, sc, n)
  <2>1. ~tmpl[id].deleted /\ ~tmpl[rev].deleted
    BY <1>2 DEF Live
  <2>2. \/ rev = id + 1 /\ tmpl[id].type = "expand"
        \/ id = rev + 1 /\ tmpl[rev].type = "expand" /\ tmpl[id].cluster \in torn'
    BY <1>2, <1>3
  <2>3. torn \subseteq torn' /\ (sc \in torn' \/ sc = tmpl[id].cluster)
    BY <1>2
  <2>4. \A k \in 1..Len(tmpl) : IF k \in {id, rev} THEN ButGroup(tmpl[k], tmpl'[k])
                                                  ELSE tmpl'[k] = tmpl[k]
    BY <1>14, <1>17
  <2> QED
    BY <2>1, <2>2, <2>3, <2>4, <1>2, <1>9, <1>14, <1>16, <1>17, <1>a, <1>b, <1>c
    DEF PairRegrouped, from
<1>19. Tables'
  <2>1. instr' \in Seq(InstrRow) /\ Len(instr') <= MaxInstr
    BY <1>2, <1>9 DEF Grew, from
  <2>2. tmpl[id].cluster \in Cluster
    BY <1>1 DEF TmplRow
  <2>3. bound' \subseteq Cluster /\ torn' \subseteq Cluster
    BY <1>2, <2>2 DEF Tables
  <2> QED
    BY <2>1, <2>3, <1>1, <1>2, <1>16 DEF Tables
<1> QED
  BY <1>18, <1>19, <1>r

LEMMA UpdateContainerPanicsFlags ==
  ASSUME Tables, NEW id \in DOMAIN tmpl, NEW sc \in Cluster, NEW n \in 1..4,
         UpdateContainerPanics(id, sc, n)
  PROVE  PairFlagged(id, sc, n) /\ Tables'
<1>r. PICK rev : rev = tmpl[id].reverse
  OBVIOUS
<1>a. PICK created : created = CreatedBy(n, id, rev)
  OBVIOUS
<1>1. /\ Len(instr) + Len(created) <= MaxInstr
      /\ \E ids \in FlaggedOf(id, rev) : instr' = Replaced(ids, created)
      /\ bound' = bound \cup {sc}
      /\ tmpl' = tmpl /\ reply' = "error" /\ job' = job
      /\ torn' = torn \cup {sc, tmpl[id].cluster}
  BY <1>r, <1>a DEF UpdateContainerPanics, HalfDone
<1>2. /\ Len(tmpl) \in Nat /\ DOMAIN tmpl = 1..Len(tmpl)
      /\ tmpl[id] \in TmplRow /\ Len(tmpl) <= MaxTmpl /\ MaxTmpl \in Nat
  BY TableFacts DEF Tables
<1>3. id \in 0..MaxTmpl /\ rev \in 0..MaxTmpl /\ tmpl[id].cluster \in Cluster
  BY <1>2, <1>r DEF TmplRow
<1>4. created \in Seq(InstrRow)
  BY <1>3, <1>a, CreatedRows
<1>5. PICK ids \in SUBSET {id, rev} : Grew(InstrRow, instr, instr', OwnedBy(ids), created)
  <2>1. PICK ids \in FlaggedOf(id, rev) : instr' = Replaced(ids, created)
    BY <1>1
  <2>2. ids \in SUBSET {id, rev}
    BY <2>1 DEF FlaggedOf
  <2> QED
    BY <2>1, <2>2, <1>4, ReplacedGrows
<1>6. Tables'
  <2>1. instr' \in Seq(InstrRow) /\ Len(instr') <= MaxInstr
    BY <1>1, <1>5 DEF Grew
  <2>2. bound' \subseteq Cluster /\ torn' \subseteq Cluster
    BY <1>1, <1>3 DEF Tables
  <2> QED
    BY <2>1, <2>2, <1>1 DEF Tables
<1> QED
  BY <1>1, <1>5, <1>6, <1>a, <1>r DEF PairFlagged

LEMMA WithDeployGrows ==
  ASSUME Tables, NEW sc \in Cluster, NEW X, NEW g \in Seq(1..MaxInstr)
  PROVE  Grew(TmplRow, tmpl, WithDeploy(Marked(tmpl, X), sc, g), X, <<DeployRow(sc, g)>>)
<1>1. <<>> \in Seq(1..MaxInstr) /\ 0 \in 0..MaxTmpl
  BY TemplateAssumption
<1>2. PICK e : e = NewTemplate("deploy", sc, 0)
  OBVIOUS
<1>3. e \in TmplRow /\ e.type = "deploy" /\ e.cluster = sc /\ e.reverse = 0 /\ e.deleted = FALSE
  BY <1>1, <1>2 DEF NewTemplate, TmplRow, Types
<1>4. PICK f : f = [e EXCEPT !.group = g]
  OBVIOUS
<1>5. /\ f \in TmplRow
      /\ f.type = "deploy" /\ f.cluster = sc /\ f.group = g /\ f.reverse = 0 /\ f.deleted = FALSE
  BY <1>1, <1>3, <1>4, RowChanged
<1>6. PICK d : d = DeployRow(sc, g)
  OBVIOUS
<1>7. /\ d \in TmplRow
      /\ d.type = "deploy" /\ d.cluster = sc /\ d.group = g /\ d.reverse = 0 /\ d.deleted = FALSE
  BY <1>6, NewDeployRow DEF DeployRow
<1>8. f = d
  BY <1>5, <1>7, SameRow
<1>9. PICK m : m = Marked(tmpl, X)
  OBVIOUS
<1>10. tmpl \in Seq(TmplRow)
  BY DEF Tables
<1>11. m \in Seq(TmplRow)
  BY <1>9, <1>10, MarkedIs, RowsFlaggable
<1>12. WithDeploy(m, sc, g) = m \o <<d>>
  BY <1>2, <1>4, <1>8, <1>7, <1>11, AppendIsConcat DEF WithDeploy
<1>13. PICK new : new = <<d>>
  OBVIOUS
<1>14. new \in Seq(TmplRow)
  BY <1>7, <1>13
<1>15. Grew(TmplRow, tmpl, Marked(tmpl, X) \o new, X, new)
  BY <1>10, <1>14, MarkedGrows, RowsFlaggable
<1> QED
  BY <1>6, <1>9, <1>12, <1>13, <1>15

LEMMA InstanceRows ==
  ASSUME NEW n \in 0..5, NEW id \in 0..MaxTmpl
  PROVE  InstanceInstrs(n, id) \in Seq(InstrRow) /\ Len(InstanceInstrs(n, id)) = n
<1>1. \A k \in 1..n : InstanceDeploySteps[k] \in ActionName
  <2>1. \A k \in 1..n : k \in {1, 2, 3, 4, 5}
    OBVIOUS
  <2> QED
    BY <2>1 DEF InstanceDeploySteps, ActionName
<1>2. \A k \in 1..n : NewInstr(InstanceDeploySteps[k], id) \in InstrRow
  BY <1>1 DEF NewInstr, InstrRow
<1>3. InstanceInstrs(n, id) \in [1..n -> InstrRow]
  BY <1>2 DEF InstanceInstrs
<1> QED
  BY <1>3, FunctionIsSeq

LEMMA DeployDone ==
  ASSUME Tables, NEW sc \in Cluster, NEW X, Replaceable(sc, X),
         CreateInstanceIn(Marked(tmpl, X), sc), reply' = "ok", job' = job,
         torn \subseteq torn', torn' \subseteq Cluster
  PROVE  DeployAdded(sc, X) /\ Tables'
<1> DEFINE id == Len(tmpl) + 1
<1>a. PICK g : g = [k \in 1..5 |-> Len(instr) + k]
  OBVIOUS
<1>b. PICK new : new = InstanceInstrs(5, id)
  OBVIOUS
<1>c. PICK row : row = <<DeployRow(sc, g)>>
  OBVIOUS
<1>1. /\ tmpl \in Seq(TmplRow) /\ Len(tmpl) \in Nat
      /\ instr \in Seq(InstrRow) /\ Len(instr) \in Nat /\ MaxTmpl \in Nat /\ MaxInstr \in Nat
  BY TableFacts
<1>2. Len(Marked(tmpl, X)) = Len(tmpl)
  BY <1>1, MarkedIs, RowsFlaggable
<1>3. /\ id <= MaxTmpl /\ Len(instr) + 5 <= MaxInstr
      /\ tmpl' = WithDeploy(Marked(tmpl, X), sc, g)
      /\ instr' = instr \o new
      /\ bound' = bound \cup {sc}
  BY <1>2, <1>a, <1>b DEF CreateInstanceIn
<1>4. g \in [1..5 -> 1..MaxInstr]
  BY <1>1, <1>3, <1>a
<1>5. g \in Seq(1..MaxInstr)
  BY <1>4, FunctionIsSeq
<1>6. Grew(TmplRow, tmpl, tmpl', X, row)
  BY <1>3, <1>5, <1>c, WithDeployGrows
<1>7. new \in Seq(InstrRow) /\ Len(new) = 5
  BY <1>1, <1>3, <1>b, InstanceRows
<1>8. Grew(InstrRow, instr, instr', {}, new)
  BY <1>1, <1>3, <1>7, ConcatGrows, RowsFlaggable
<1>9. Tables'
  <2>1. instr' \in Seq(InstrRow) /\ Len(instr') <= MaxInstr
    BY <1>3, <1>7, <1>8 DEF Grew
  <2>2. Len(row) = 1
    BY <1>c
  <2>3. tmpl' \in Seq(TmplRow) /\ Len(tmpl') <= MaxTmpl
    BY <1>3, <1>6, <2>2 DEF Grew
  <2> QED
    BY <2>1, <2>3, <1>3 DEF Tables
<1> QED
  BY <1>3, <1>6, <1>8, <1>9, <1>a, <1>b, <1>c DEF DeployAdded

LEMMA DeployHalfDone ==
  ASSUME Tables, NEW sc \in Cluster, NEW X, Replaceable(sc, X), NEW n \in 0..4,
         ShadowedIn(Marked(tmpl, X), sc, n), NEW scs \in SUBSET Cluster, HalfDone(scs), sc \in scs
  PROVE  DeployAdded(sc, X) /\ Tables'
<1> DEFINE id == Len(tmpl) + 1
<1>b. PICK new : new = InstanceInstrs(n, id)
  OBVIOUS
<1>c. PICK row : row = <<DeployRow(sc, <<>>)>>
  OBVIOUS
<1>1. /\ tmpl \in Seq(TmplRow) /\ Len(tmpl) \in Nat
      /\ instr \in Seq(InstrRow) /\ Len(instr) \in Nat /\ MaxTmpl \in Nat /\ MaxInstr \in Nat
  BY TableFacts
<1>2. Len(Marked(tmpl, X)) = Len(tmpl)
  BY <1>1, MarkedIs, RowsFlaggable
<1>3. /\ id <= MaxTmpl /\ Len(instr) + n <= MaxInstr
      /\ tmpl' = WithDeploy(Marked(tmpl, X), sc, <<>>)
      /\ instr' = instr \o new
      /\ bound' = bound \cup {sc} /\ reply' = "error" /\ torn' = torn \cup scs /\ job' = job
  BY <1>2, <1>b DEF ShadowedIn, GroupSoFar, HalfDone
<1>5. <<>> \in Seq(1..MaxInstr)
  OBVIOUS
<1>6. Grew(TmplRow, tmpl, tmpl', X, row)
  BY <1>3, <1>5, <1>c, WithDeployGrows
<1>7. new \in Seq(InstrRow) /\ Len(new) = n
  <2>1. n \in 0..5 /\ id \in 0..MaxTmpl
    BY <1>1, <1>3
  <2> HIDE DEF id
  <2> QED
    BY <2>1, <1>b, InstanceRows
<1>8. Grew(InstrRow, instr, instr', {}, new)
  BY <1>1, <1>3, <1>7, ConcatGrows, RowsFlaggable
<1>9. Tables'
  <2>1. instr' \in Seq(InstrRow) /\ Len(instr') <= MaxInstr
    BY <1>3, <1>7, <1>8 DEF Grew
  <2>2. Len(row) = 1
    BY <1>c
  <2>3. tmpl' \in Seq(TmplRow) /\ Len(tmpl') <= MaxTmpl
    BY <1>3, <1>6, <2>2 DEF Grew
  <2> QED
    BY <2>1, <2>3, <1>3 DEF Tables
<1> QED
  BY <1>3, <1>6, <1>8, <1>9, <1>b, <1>c DEF DeployAdded

LEMMA DeployLeftOut ==
  ASSUME Tables, NEW sc \in Cluster, NEW X, Replaceable(sc, X),
         OmittedIn(Marked(tmpl, X), sc), NEW scs \in SUBSET Cluster, HalfDone(scs), sc \in scs
  PROVE  DeployAdded(sc, X) /\ Tables'
<1>1. /\ tmpl' = Marked(tmpl, X) /\ instr' = instr
      /\ bound' = bound \cup {sc} /\ reply' = "error" /\ torn' = torn \cup scs /\ job' = job
  BY DEF OmittedIn, HalfDone
<1>2. tmpl \in Seq(TmplRow) /\ Len(tmpl) \in Nat
  BY TableFacts
<1>3. Grew(TmplRow, tmpl, tmpl', X, <<>>)
  BY <1>1, <1>2, MarkingGrows, RowsFlaggable
<1>4. Tables'
  <2>1. tmpl' \in Seq(TmplRow) /\ Len(tmpl') = Len(tmpl)
    BY <1>1, <1>2, MarkedIs, RowsFlaggable
  <2> QED
    BY <2>1, <1>1 DEF Tables
<1> QED
  BY <1>1, <1>3, <1>4 DEF DeployAdded

LEMMA InstanceAdds ==
  ASSUME Tables, NEW sc \in Cluster, Instance(sc)
  PROVE  DeployAdded(sc, {}) /\ Tables'
<1>1. Replaceable(sc, {})
  BY DEF Replaceable
<1>2. tmpl \in Seq(TmplRow)
  BY TableFacts
<1>3. tmpl = Marked(tmpl, {})
  BY <1>2, NothingMarked
<1>4. PICK m : m = Marked(tmpl, {})
  OBVIOUS
<1>5. tmpl = m
  BY <1>3, <1>4
<1>6. CASE CreateInstance(sc)
  <2>1. CreateInstanceIn(m, sc) /\ reply' = "ok" /\ job' = job /\ torn' = torn
    <3>1. CreateInstanceIn(tmpl, sc) /\ reply' = "ok" /\ job' = job /\ torn' = torn
      BY <1>6 DEF CreateInstance
    <3> QED
      BY <3>1, <1>5 DEF CreateInstanceIn
  <2>2. torn \subseteq torn' /\ torn' \subseteq Cluster
    BY <2>1 DEF Tables
  <2> QED
    BY <2>1, <2>2, <1>1, <1>4, DeployDone
<1>7. CASE CreateInstanceFails(sc)
  <2>1. HalfDone({sc})
    BY <1>7 DEF CreateInstanceFails
  <2>2. ASSUME NEW n \in {0} \cup Parts, ShadowedIn(tmpl, sc, n)
        PROVE  DeployAdded(sc, {}) /\ Tables'
    <3>1. ShadowedIn(m, sc, n)
      BY <2>2, <1>5 DEF ShadowedIn
    <3>2. n \in 0..4
      BY TemplateAssumption
    <3> QED
      BY <3>1, <3>2, <2>1, <1>1, <1>4, DeployHalfDone
  <2>3. CASE OmittedIn(tmpl, sc)
    <3>1. OmittedIn(m, sc)
      BY <2>3, <1>5 DEF OmittedIn
    <3> QED
      BY <3>1, <2>1, <1>1, <1>4, DeployLeftOut
  <2> QED
    BY <2>2, <2>3, <1>7 DEF CreateInstanceFails
<1> QED
  BY <1>6, <1>7 DEF Instance

LEMMA UpdateInstanceAdds ==
  ASSUME Tables, NEW id \in DOMAIN tmpl, NEW sc \in Cluster,
         UpdateInstance(id, sc) \/ UpdateInstanceFails(id, sc)
  PROVE  DeployAdded(sc, {id}) /\ Tables'
<1>1. tmpl[id].cluster \in Cluster
  <2>1. tmpl[id] \in TmplRow
    BY TableFacts
  <2> QED
    BY <2>1 DEF TmplRow
<1>2. Dropped({id}) = Marked(tmpl, {id})
  BY DEF Dropped, Marked
<1>3. CASE UpdateInstance(id, sc)
  <2>1. /\ CreateInstanceIn(Marked(tmpl, {id}), sc) /\ reply' = "ok" /\ job' = job
        /\ torn' = IF Live(id) => tmpl[id].type = "deploy" /\ tmpl[id].cluster = sc
                   THEN torn ELSE torn \cup {tmpl[id].cluster}
    BY <1>2, <1>3 DEF UpdateInstance
  <2>2. torn \subseteq torn' /\ torn' \subseteq Cluster
    BY <1>1, <2>1 DEF Tables
  <2>3. Replaceable(sc, {id})
    BY <2>1 DEF Replaceable, Live
  <2> QED
    BY <2>1, <2>2, <2>3, DeployDone
<1>4. CASE UpdateInstanceFails(id, sc)
  <2>1. PICK scs : scs = {sc, tmpl[id].cluster}
    OBVIOUS
  <2>2. scs \in SUBSET Cluster /\ sc \in scs
    BY <1>1, <2>1
  <2>3. HalfDone(scs)
    BY <1>4, <2>1 DEF UpdateInstanceFails
  <2>4. Replaceable(sc, {id})
    BY <2>1, <2>3 DEF HalfDone, Replaceable
  <2>5. ASSUME NEW n \in {0} \cup Parts, ShadowedIn(Marked(tmpl, {id}), sc, n)
        PROVE  DeployAdded(sc, {id}) /\ Tables'
    <3>1. n \in 0..4
      BY TemplateAssumption
    <3> QED
      BY <3>1, <2>2, <2>3, <2>4, <2>5, DeployHalfDone
  <2>6. CASE OmittedIn(Marked(tmpl, {id}), sc)
    BY <2>2, <2>3, <2>4, <2>6, DeployLeftOut
  <2> QED
    BY <2>5, <2>6, <1>2, <1>4 DEF UpdateInstanceFails
<1> QED
  BY <1>3, <1>4

LEMMA DeleteDrops ==
  ASSUME Tables, NEW ids \in SUBSET DOMAIN tmpl, Delete(ids)
  PROVE  PairsDropped(ids) /\ Tables'
<1>1. /\ \A id \in ids : Live(id)
      /\ tmpl' = Marked(tmpl, WithReverses(ids))
      /\ bound' = Unbound(ids) /\ reply' = "ok"
      /\ instr' = instr /\ job' = job /\ torn' = torn
  BY DEF Delete, Dropped, Marked
<1>2. tmpl \in Seq(TmplRow) /\ Len(tmpl) \in Nat
  BY TableFacts
<1>3. Grew(TmplRow, tmpl, tmpl', WithReverses(ids), <<>>)
  BY <1>1, <1>2, MarkingGrows, RowsFlaggable
<1>4. Tables'
  <2>1. tmpl' \in Seq(TmplRow) /\ Len(tmpl') = Len(tmpl)
    BY <1>1, <1>2, MarkedIs, RowsFlaggable
  <2>2. bound' \subseteq bound
    BY <1>1 DEF Unbound
  <2> QED
    BY <2>1, <2>2, <1>1 DEF Tables
<1> QED
  BY <1>1, <1>3, <1>4 DEF PairsDropped

LEMMA DeleteUnseenDrops ==
  ASSUME Tables, NEW ids \in SUBSET DOMAIN tmpl, DeleteUnseen(ids)
  PROVE  HalvesDropped(ids) /\ Tables'
<1>1. /\ \A id \in ids : Live(id)
      /\ tmpl' = Marked(tmpl, ids)
      /\ torn' = torn \cup {tmpl[id].cluster : id \in ids} /\ reply' = "ok"
      /\ instr' = instr /\ bound' = bound /\ job' = job
  BY DEF DeleteUnseen, Dropped, Marked
<1>2. tmpl \in Seq(TmplRow) /\ Len(tmpl) \in Nat
  BY TableFacts
<1>3. Grew(TmplRow, tmpl, tmpl', ids, <<>>)
  BY <1>1, <1>2, MarkingGrows, RowsFlaggable
<1>4. Tables'
  <2>1. tmpl' \in Seq(TmplRow) /\ Len(tmpl') = Len(tmpl)
    BY <1>1, <1>2, MarkedIs, RowsFlaggable
  <2>2. \A id \in ids : tmpl[id].cluster \in Cluster
    BY TableFacts DEF TmplRow
  <2> QED
    BY <2>1, <2>2, <1>1 DEF Tables
<1> QED
  BY <1>1, <1>3, <1>4 DEF HalvesDropped

-----------------------------------------------------------------------------
(* What no request changes, and what follows from that *)

\* Whatever is there keeps what it is; it may be flagged, and a template may get
\* another group and learn its reverse.
KeepsTables ==
    /\ Len(tmpl) \in Nat /\ Len(tmpl') \in Nat /\ Len(tmpl) <= Len(tmpl')
    /\ \A k \in 1..Len(tmpl) :
          /\ tmpl'[k].type = tmpl[k].type /\ tmpl'[k].cluster = tmpl[k].cluster
          /\ tmpl[k].deleted => tmpl'[k].deleted
    /\ Len(instr) \in Nat /\ Len(instr') \in Nat /\ Len(instr) <= Len(instr')
    /\ \A k \in 1..Len(instr) :
          instr'[k].action = instr[k].action /\ instr'[k].tmpl = instr[k].tmpl
    /\ torn \subseteq torn'
    /\ UNCHANGED job

LEMMA Domains ==
  ASSUME Tables
  PROVE  DOMAIN tmpl = 1..Len(tmpl) /\ DOMAIN instr = 1..Len(instr)
  BY LenProperties DEF Tables

LEMMA PairKept ==
  ASSUME Tables, Tables', KeepsTables, NEW id \in 1..Len(tmpl), PairedAt(id),
         \/ tmpl'[id].reverse = tmpl[id].reverse
         \/ tmpl[id].type = "expand" /\ tmpl'[id].reverse = id + 1,
         tmpl[id].type = "expand" =>
            /\ tmpl'[id + 1].reverse = tmpl[id + 1].reverse
            /\ (tmpl[id].cluster \notin torn' /\ tmpl[id].reverse = id + 1)
                  => (tmpl'[id].deleted <=> tmpl'[id + 1].deleted)
  PROVE  PairedAt(id)'
<1>1. DOMAIN tmpl = 1..Len(tmpl) /\ DOMAIN tmpl' = 1..Len(tmpl')
  BY Domains DEF Tables
<1>2. ASSUME tmpl[id].type = "expand" PROVE Coupled(id)'
  <2>1. Coupled(id)
    BY <1>2 DEF PairedAt
  <2>2. id + 1 \in 1..Len(tmpl)
    BY <1>1, <2>1 DEF Coupled
  <2>3. /\ tmpl'[id].type = tmpl[id].type /\ tmpl'[id].cluster = tmpl[id].cluster
        /\ tmpl'[id + 1].type = tmpl[id + 1].type /\ tmpl'[id + 1].cluster = tmpl[id + 1].cluster
        /\ torn \subseteq torn' /\ id + 1 \in DOMAIN tmpl'
    BY <1>1, <2>2 DEF KeepsTables
  <2>4. tmpl'[id].reverse \in {0, id + 1} /\ (tmpl[id].reverse = id + 1 => tmpl'[id].reverse = id + 1)
    BY <2>1 DEF Coupled
  <2>5. ASSUME tmpl'[id].cluster \notin torn'
        PROVE  tmpl'[id].reverse = id + 1 /\ (tmpl'[id].deleted <=> tmpl'[id + 1].deleted)
    <3>1. tmpl[id].reverse = id + 1
      BY <2>1, <2>3, <2>5 DEF Coupled
    <3> QED
      BY <1>2, <2>3, <2>4, <2>5, <3>1
  <2>6. tmpl'[id + 1].reverse = id
    BY <1>2, <2>1 DEF Coupled
  <2>7. tmpl'[id + 1].type = "shrink" /\ tmpl'[id + 1].cluster = tmpl'[id].cluster
    BY <2>1, <2>3 DEF Coupled
  <2> QED
    BY <2>3, <2>4, <2>5, <2>6, <2>7 DEF Coupled
<1>3. ASSUME tmpl[id].type = "shrink"
      PROVE  id - 1 \in DOMAIN tmpl' /\ tmpl'[id - 1].type = "expand"
  <2>1. id - 1 \in 1..Len(tmpl) /\ tmpl[id - 1].type = "expand"
    BY <1>1, <1>3 DEF PairedAt
  <2> QED
    BY <1>1, <2>1 DEF KeepsTables
<1>4. tmpl'[id].type = tmpl[id].type
  BY DEF KeepsTables
<1>5. tmpl[id].type = "deploy" => tmpl'[id].reverse = 0
  BY DEF PairedAt
<1> QED
  BY <1>2, <1>3, <1>4, <1>5 DEF PairedAt

LEMMA OwnsKept ==
  ASSUME Tables, Tables', KeepsTables, NEW id \in 1..Len(tmpl), Owns(id),
         tmpl'[id].group = tmpl[id].group,
         \/ tmpl[id].cluster \in torn'
         \/ \A k \in 1..Len(instr) : instr[k].tmpl = id => (instr'[k].deleted <=> instr[k].deleted)
  PROVE  Owns(id)'
<1>1. DOMAIN instr = 1..Len(instr) /\ DOMAIN instr' = 1..Len(instr')
  BY Domains DEF Tables
<1>2. tmpl'[id].cluster = tmpl[id].cluster /\ torn \subseteq torn'
  BY DEF KeepsTables
<1>3. ASSUME NEW k \in DOMAIN tmpl[id].group
      PROVE  LET i == tmpl[id].group[k] IN
             /\ i \in DOMAIN instr'
             /\ instr'[i].tmpl = id
             /\ tmpl[id].cluster \notin torn' => ~instr'[i].deleted
  <2>1. PICK i : i = tmpl[id].group[k]
    OBVIOUS
  <2>2. i \in 1..Len(instr) /\ instr[i].tmpl = id /\ (tmpl[id].cluster \notin torn => ~instr[i].deleted)
    BY <1>1, <2>1 DEF Owns
  <2>3. i \in 1..Len(instr') /\ instr'[i].tmpl = id
    BY <2>2 DEF KeepsTables
  <2>4. tmpl[id].cluster \notin torn' => ~instr'[i].deleted
    BY <1>2, <2>2
  <2> QED
    BY <1>1, <2>1, <2>3, <2>4
<1> QED
  BY <1>2, <1>3 DEF Owns

LEMMA ActionsKept ==
  ASSUME KeepsTables, NEW g, \A k \in DOMAIN g : g[k] \in 1..Len(instr)
  PROVE  ActionsIn(instr', g) = ActionsIn(instr, g)
  BY DEF ActionsIn, KeepsTables

LEMMA FitsKept ==
  ASSUME Tables, Tables', KeepsTables, Pairs, AllOwn, NEW id \in 1..Len(tmpl), Fits(id),
         tmpl'[id].group = tmpl[id].group, tmpl'[id].reverse = tmpl[id].reverse,
         tmpl[id].type = "expand" => tmpl'[id + 1].group = tmpl[id + 1].group
  PROVE  Fits(id)'
<1>1. DOMAIN tmpl = 1..Len(tmpl) /\ DOMAIN instr = 1..Len(instr)
  BY Domains
<1>2. /\ tmpl'[id].type = tmpl[id].type /\ tmpl'[id].cluster = tmpl[id].cluster
      /\ torn \subseteq torn'
  BY DEF KeepsTables
<1>3. PICK g : g = tmpl[id].group
  OBVIOUS
<1>4. ActionsIn(instr', g) = ActionsIn(instr, g)
  <2>1. \A k \in DOMAIN g : g[k] \in 1..Len(instr)
    BY <1>1, <1>3 DEF AllOwn, Owns
  <2> QED
    BY <2>1, ActionsKept
<1>5. CASE tmpl[id].type = "expand"
  <2>1. PICK h : h = tmpl[id + 1].group
    OBVIOUS
  <2>2. id + 1 \in DOMAIN tmpl
    BY <1>1, <1>5 DEF Pairs, PairedAt, Coupled
  <2>3. \A k \in DOMAIN h : h[k] \in 1..Len(instr)
    BY <1>1, <2>1, <2>2 DEF AllOwn, Owns
  <2>4. ActionsIn(instr', h) = ActionsIn(instr, h)
    BY <2>3, ActionsKept
  <2> QED
    BY <1>2, <1>3, <1>4, <1>5, <2>1, <2>4 DEF Fits, InStep
<1>6. CASE tmpl[id].type # "expand"
  BY <1>2, <1>3, <1>4, <1>6 DEF Fits
<1> QED
  BY <1>5, <1>6

LEMMA JobKept ==
  ASSUME Tables, Tables', KeepsTables, JobFits
  PROVE  JobFits'
<1>1. /\ DOMAIN tmpl = 1..Len(tmpl) /\ DOMAIN tmpl' = 1..Len(tmpl')
      /\ DOMAIN instr = 1..Len(instr) /\ DOMAIN instr' = 1..Len(instr')
  BY Domains DEF Tables
<1>2. job' = job
  BY DEF KeepsTables
<1>3. job \in [tmpl : Nat, left : Seq(Nat), ran : Seq(ActionName)]
  BY DEF JobFits
<1>4. ASSUME job.left # <<>>
      PROVE  /\ job.tmpl \in DOMAIN tmpl'
             /\ \A k \in DOMAIN job.left : job.left[k] \in DOMAIN instr'
             /\ MayRun(tmpl[job.tmpl], job.ran \o ActionsIn(instr, job.left))'
  <2>1. /\ job.tmpl \in 1..Len(tmpl) /\ \A k \in DOMAIN job.left : job.left[k] \in 1..Len(instr)
        /\ MayRun(tmpl[job.tmpl], job.ran \o ActionsIn(instr, job.left))
    BY <1>1, <1>4 DEF JobFits
  <2>2. ActionsIn(instr', job.left) = ActionsIn(instr, job.left)
    BY <2>1, ActionsKept
  <2>3. /\ tmpl'[job.tmpl].type = tmpl[job.tmpl].type
        /\ tmpl'[job.tmpl].cluster = tmpl[job.tmpl].cluster /\ torn \subseteq torn'
    BY <2>1 DEF KeepsTables
  <2>4. job.tmpl \in DOMAIN tmpl' /\ \A k \in DOMAIN job.left : job.left[k] \in DOMAIN instr'
    BY <1>1, <2>1 DEF KeepsTables
  <2>5. MayRun(tmpl[job.tmpl], job.ran \o ActionsIn(instr, job.left))'
    BY <1>2, <2>1, <2>2, <2>3 DEF MayRun
  <2> QED
    BY <2>4, <2>5
<1> QED
  BY <1>2, <1>3, <1>4 DEF JobFits

\* A smaller set of a finite one.
LEMMA Fewer ==
  ASSUME NEW S, NEW T, IsFiniteSet(T), S \subseteq T
  PROVE  /\ IsFiniteSet(S) /\ Cardinality(S) \in Nat /\ Cardinality(T) \in Nat
         /\ Cardinality(S) <= Cardinality(T)
  BY FS_Subset, FS_CardinalityType

LEMMA CountsFinite ==
  ASSUME NEW sc
  PROVE  /\ IsFiniteSet(TasksOf(sc)) /\ Cardinality(TasksOf(sc)) \in Nat
         /\ IsFiniteSet(AboutToStart(sc)) /\ Cardinality(AboutToStart(sc)) \in Nat
         /\ Cardinality(Caller) \in Nat /\ Cardinality(AboutToStart(sc)) <= Cardinality(Caller)
<1>1. IsFiniteSet(1..MaxTask) /\ IsFiniteSet(Caller)
  BY ServicesAssumption, FS_Interval
<1>2. TasksOf(sc) \subseteq 1..MaxTask /\ AboutToStart(sc) \subseteq Caller
  BY DEF TasksOf, AboutToStart
<1> QED
  BY <1>1, <1>2, Fewer

\* Fewer tasks, and fewer callers about to start one.
LEMMA CountsKept ==
  ASSUME TasksWithinCallers,
         \A sc \in Cluster : /\ TasksOf(sc)' \subseteq TasksOf(sc)
                             /\ AboutToStart(sc)' \subseteq AboutToStart(sc)
  PROVE  TasksWithinCallers'
<1>1. ASSUME NEW sc \in Cluster, Careful = Caller
      PROVE  Cardinality(TasksOf(sc)') + Cardinality(AboutToStart(sc)') <= Cardinality(Caller)
  <2>1. PICK S, T, A, B : S = TasksOf(sc)' /\ T = TasksOf(sc) /\ A = AboutToStart(sc)' /\ B = AboutToStart(sc)
    OBVIOUS
  <2>2. IsFiniteSet(T) /\ IsFiniteSet(B) /\ Cardinality(Caller) \in Nat
    BY <2>1, CountsFinite
  <2>3. S \subseteq T /\ A \subseteq B
    BY <2>1
  <2>4. /\ Cardinality(S) \in Nat /\ Cardinality(T) \in Nat /\ Cardinality(S) <= Cardinality(T)
        /\ Cardinality(A) \in Nat /\ Cardinality(B) \in Nat /\ Cardinality(A) <= Cardinality(B)
    BY <2>2, <2>3, Fewer
  <2>5. Cardinality(T) + Cardinality(B) <= Cardinality(Caller)
    BY <1>1, <2>1 DEF TasksWithinCallers
  <2>6. Cardinality(S) + Cardinality(A) <= Cardinality(Caller)
    BY <2>2, <2>4, <2>5
  <2> QED
    BY <2>1, <2>6
<1> QED
  BY <1>1 DEF TasksWithinCallers

LEMMA RunsKept ==
  ASSUME Tables, Tables', KeepsTables, TasksHold, UNCHANGED taskVars
  PROVE  TasksHold'
<1>1. DOMAIN tmpl = 1..Len(tmpl) /\ DOMAIN tmpl' = 1..Len(tmpl')
  BY Domains DEF Tables
<1>2. /\ Len(tmpl) \in Nat /\ Len(tmpl') \in Nat /\ Len(tmpl) <= Len(tmpl')
      /\ \A k \in 1..Len(tmpl) :
          /\ tmpl'[k].type = tmpl[k].type /\ tmpl'[k].cluster = tmpl[k].cluster
          /\ tmpl[k].deleted => tmpl'[k].deleted
  BY DEF KeepsTables
<1>3. RunsFirst /\ TasksWithinCallers /\ running' = running /\ looked' = looked
  BY DEF TasksHold, taskVars
<1>4. \A k \in 1..MaxTask : running[k] # 0 => running[k] \in 1..Len(tmpl)
  BY <1>1, <1>3 DEF RunsFirst
<1>5. \A k \in 1..MaxTask : running[k] # 0 => running[k] \in DOMAIN tmpl'
  BY <1>1, <1>2, <1>4
<1>6. ASSUME NEW k \in 1..MaxTask, NEW i, i = running[k], NEW j \in DOMAIN tmpl', i \in DOMAIN tmpl',
             ~tmpl'[i].deleted, ~tmpl'[j].deleted, tmpl'[i].cluster = tmpl'[j].cluster,
             tmpl'[i].type = tmpl'[j].type
      PROVE  i <= j
  <2>1. i \in 1..Len(tmpl)
    BY <1>1, <1>4, <1>6
  <2>2. CASE j \in 1..Len(tmpl)
    <3>1. /\ ~tmpl[i].deleted /\ ~tmpl[j].deleted /\ tmpl[i].cluster = tmpl[j].cluster
          /\ tmpl[i].type = tmpl[j].type
      BY <1>2, <1>6, <2>1, <2>2
    <3> QED
      BY <1>1, <1>3, <1>6, <2>1, <2>2, <3>1 DEF RunsFirst, Live
  <2>3. CASE j \notin 1..Len(tmpl)
    BY <1>1, <1>2, <2>1, <2>3
  <2> QED
    BY <2>2, <2>3
<1>7. RunsFirst'
  BY <1>3, <1>5, <1>6 DEF RunsFirst, Live
<1>8. ASSUME NEW sc \in Cluster
      PROVE  TasksOf(sc)' \subseteq TasksOf(sc) /\ AboutToStart(sc)' \subseteq AboutToStart(sc)
  <2>1. ASSUME NEW k \in 1..MaxTask, running[k] \in DOMAIN tmpl', ~tmpl'[running[k]].deleted,
               tmpl'[running[k]].cluster = sc
        PROVE  running[k] \in DOMAIN tmpl /\ ~tmpl[running[k]].deleted /\ tmpl[running[k]].cluster = sc
    <3>1. running[k] \in 1..Len(tmpl)
      BY <1>1, <1>4, <2>1
    <3> QED
      BY <1>1, <1>2, <2>1, <3>1
  <2> QED
    BY <1>3, <2>1 DEF TasksOf, AboutToStart, GetAllTmplsBySvcClusterId, Live
<1> QED
  BY <1>3, <1>7, <1>8, CountsKept DEF TasksHold

LEMMA TmplFlagged ==
  ASSUME NEW r \in TmplRow
  PROVE  LET s == [r EXCEPT !.deleted = TRUE] IN
         s.type = r.type /\ s.cluster = r.cluster /\ s.group = r.group /\ s.reverse = r.reverse
         /\ s.deleted
  BY DEF TmplRow

LEMMA InstrFlagged ==
  ASSUME NEW r \in InstrRow
  PROVE  LET s == [r EXCEPT !.deleted = TRUE] IN
         s.action = r.action /\ s.tmpl = r.tmpl /\ s.deleted
  BY DEF InstrRow

LEMMA TmplGrew ==
  ASSUME Tables, NEW X, NEW new, Len(new) \in Nat, Grew(TmplRow, tmpl, tmpl', X, new),
         NEW k \in 1..Len(tmpl)
  PROVE  /\ tmpl'[k].type = tmpl[k].type /\ tmpl'[k].cluster = tmpl[k].cluster
         /\ tmpl'[k].reverse = tmpl[k].reverse /\ tmpl'[k].group = tmpl[k].group
         /\ tmpl'[k].deleted <=> (k \in X \/ tmpl[k].deleted)
<1>1. tmpl[k] \in TmplRow
  BY TableFacts
<1>2. PICK s : s = [tmpl[k] EXCEPT !.deleted = TRUE]
  OBVIOUS
<1>3. s.type = tmpl[k].type /\ s.cluster = tmpl[k].cluster /\ s.group = tmpl[k].group
      /\ s.reverse = tmpl[k].reverse /\ s.deleted
  BY <1>1, <1>2, TmplFlagged
<1>4. tmpl'[k] = IF k \in X THEN s ELSE tmpl[k]
  BY <1>2 DEF Grew
<1> QED
  BY <1>3, <1>4

LEMMA InstrGrew ==
  ASSUME Tables, NEW X, NEW new, Len(new) \in Nat, Grew(InstrRow, instr, instr', X, new),
         NEW k \in 1..Len(instr)
  PROVE  /\ instr'[k].action = instr[k].action /\ instr'[k].tmpl = instr[k].tmpl
         /\ instr'[k].deleted <=> (k \in X \/ instr[k].deleted)
<1>1. instr[k] \in InstrRow
  BY TableFacts
<1>2. PICK s : s = [instr[k] EXCEPT !.deleted = TRUE]
  OBVIOUS
<1>3. s.action = instr[k].action /\ s.tmpl = instr[k].tmpl /\ s.deleted
  BY <1>1, <1>2, InstrFlagged
<1>4. instr'[k] = IF k \in X THEN s ELSE instr[k]
  BY <1>2 DEF Grew
<1> QED
  BY <1>3, <1>4

LEMMA GrewKeeps ==
  ASSUME Tables, Tables', NEW X, NEW newT, Len(newT) \in Nat, Grew(TmplRow, tmpl, tmpl', X, newT),
         NEW Y, NEW newI, Len(newI) \in Nat, Grew(InstrRow, instr, instr', Y, newI),
         torn \subseteq torn', job' = job
  PROVE  KeepsTables
<1>1. Len(tmpl) \in Nat /\ Len(instr) \in Nat
  BY TableFacts
<1>2. Len(tmpl') = Len(tmpl) + Len(newT) /\ Len(instr') = Len(instr) + Len(newI)
  BY DEF Grew
<1>3. ASSUME NEW k \in 1..Len(tmpl)
      PROVE  /\ tmpl'[k].type = tmpl[k].type /\ tmpl'[k].cluster = tmpl[k].cluster
             /\ tmpl[k].deleted => tmpl'[k].deleted
  BY TmplGrew
<1>4. ASSUME NEW k \in 1..Len(instr)
      PROVE  instr'[k].action = instr[k].action /\ instr'[k].tmpl = instr[k].tmpl
  BY InstrGrew
<1> QED
  BY <1>1, <1>2, <1>3, <1>4 DEF KeepsTables

-----------------------------------------------------------------------------
(* The groups of new templates *)

GroupBelongs(rows, g, id) ==
    \A k \in DOMAIN g : g[k] \in DOMAIN rows /\ rows[g[k]].tmpl = id /\ ~rows[g[k]].deleted

LEMMA PairGroupsFit ==
  ASSUME Tables, Tables', NEW n \in 1..4, NEW id, NEW rev, id # rev, NEW X,
         Grew(InstrRow, instr, instr', X, CreatedBy(n, id, rev))
  PROVE  LET g == ExpandGroup(n, Len(instr))
             h == ShrinkGroup(n, Len(instr))
         IN  /\ GroupBelongs(instr', g, id) /\ ActionsIn(instr', g) = SubSeq(ExpandStep, 1, n)
             /\ GroupBelongs(instr', h, rev) /\ ActionsIn(instr', h) = ShrinkOf(n)
<1>a. PICK created : created = CreatedBy(n, id, rev)
  OBVIOUS
<1>b. PICK len : len = CountOf[n]
  OBVIOUS
<1>c. PICK from : from = Len(instr)
  OBVIOUS
<1>1. n \in {1, 2, 3, 4} /\ len \in Nat /\ len = IF n = 1 THEN 2 ELSE IF n = 4 THEN 6 ELSE n + 1
  BY <1>b DEF CountOf
<1>2. Len(created) = len /\ \A k \in 1..len : created[k] = AllCreated(id, rev)[k]
  <2>1. IsCreated(created, n, id, rev)
    BY <1>a, CreatedIs
  <2> QED
    BY <2>1, <1>b DEF IsCreated
<1>3. /\ Len(instr') = from + len /\ \A k \in 1..len : instr'[from + k] = created[k]
  BY <1>2, <1>a, <1>c DEF Grew
<1>4. from \in Nat /\ DOMAIN instr' = 1..(from + len)
  BY <1>3, <1>c, TableFacts, Domains DEF Tables
<1>5. \A k \in 1..len : from + k \in DOMAIN instr' /\ instr'[from + k] = AllCreated(id, rev)[k]
  <2>1. TAKE k \in 1..len
  <2>2. k \in Nat /\ 1 <= k /\ k <= len
    BY <1>1
  <2>3. from + k \in DOMAIN instr'
    BY <2>2, <1>1, <1>4
  <2>4. instr'[from + k] = created[k] /\ created[k] = AllCreated(id, rev)[k]
    BY <1>2, <1>3
  <2> QED
    BY <2>3, <2>4
<1>6. /\ AllCreated(id, rev)[1] = NewInstr("bridgx.expand", id)
      /\ AllCreated(id, rev)[2] = NewInstr("bridgx.shrink", rev)
      /\ AllCreated(id, rev)[3] = NewInstr("nodeact.initbase", id)
      /\ AllCreated(id, rev)[4] = NewInstr("nodeact.initsvc", id)
      /\ AllCreated(id, rev)[5] = NewInstr("mount.slb", id)
      /\ AllCreated(id, rev)[6] = NewInstr("umount.slb", rev)
  BY DEF AllCreated
<1>7. \A k \in 1..4 : ExpandStep[k] = IF k = 1 THEN "bridgx.expand" ELSE
                                     IF k = 2 THEN "nodeact.initbase" ELSE
                                     IF k = 3 THEN "nodeact.initsvc" ELSE "mount.slb"
  BY DEF ExpandStep
<1>8. PICK g : g = ExpandGroup(n, from)
  OBVIOUS
<1>9. DOMAIN g = 1..n /\ \A k \in 1..n : g[k] = from + (IF k = 1 THEN 1 ELSE k + 1)
  <2>1. \A k \in 1..n : <<1, 3, 4, 5>>[k] = IF k = 1 THEN 1 ELSE k + 1
    BY <1>1
  <2> QED
    BY <2>1, <1>8 DEF ExpandGroup
<1>10. \A k \in 1..n : /\ g[k] \in DOMAIN instr'
                       /\ instr'[g[k]] = NewInstr(ExpandStep[k], id)
  <2>1. ASSUME NEW k \in 1..n
        PROVE  g[k] \in DOMAIN instr' /\ instr'[g[k]] = NewInstr(ExpandStep[k], id)
    <3>1. k \in {1, 2, 3, 4} /\ k \in 1..4
      BY <1>1
    <3>2. PICK j : j = IF k = 1 THEN 1 ELSE k + 1
      OBVIOUS
    <3>3. j \in 1..len /\ g[k] = from + j
      BY <1>1, <1>9, <3>1, <3>2
    <3>4. AllCreated(id, rev)[j] = NewInstr(ExpandStep[k], id)
      BY <1>6, <1>7, <3>1, <3>2
    <3> QED
      BY <1>5, <3>3, <3>4
  <2> QED
    BY <2>1
<1>11. \A a, t : NewInstr(a, t).action = a /\ NewInstr(a, t).tmpl = t /\ ~NewInstr(a, t).deleted
  BY DEF NewInstr
<1>12. GroupBelongs(instr', g, id)
  BY <1>9, <1>10, <1>11 DEF GroupBelongs
<1>13. ActionsIn(instr', g) = SubSeq(ExpandStep, 1, n)
  <2>1. ActionsIn(instr', g) = [k \in 1..n |-> ExpandStep[k]]
    BY <1>9, <1>10, <1>11 DEF ActionsIn
  <2>2. SubSeq(ExpandStep, 1, n) = [k \in 1..n |-> ExpandStep[k]]
    BY <1>1 DEF ExpandStep
  <2> QED
    BY <2>1, <2>2
<1>14. PICK h : h = ShrinkGroup(n, from)
  OBVIOUS
<1>15. CASE n = 4
  <2>1. DOMAIN h = 1..2 /\ h[1] = from + 6 /\ h[2] = from + 2
    BY <1>14, <1>15 DEF ShrinkGroup
  <2>2. from + 6 \in DOMAIN instr' /\ from + 2 \in DOMAIN instr'
        /\ instr'[from + 6] = NewInstr("umount.slb", rev)
        /\ instr'[from + 2] = NewInstr("bridgx.shrink", rev)
    BY <1>1, <1>5, <1>6, <1>15
  <2>3. \A k \in DOMAIN h : k = 1 \/ k = 2
    BY <2>1
  <2>4. GroupBelongs(instr', h, rev)
    BY <2>1, <2>2, <2>3, <1>11 DEF GroupBelongs
  <2>5. ActionsIn(instr', h) = ShrinkOf(n)
    <3>1. /\ ActionsIn(instr', h) = [k \in 1..2 |-> ActionsIn(instr', h)[k]]
          /\ ActionsIn(instr', h)[1] = "umount.slb" /\ ActionsIn(instr', h)[2] = "bridgx.shrink"
      BY <2>1, <2>2, <1>11 DEF ActionsIn
    <3>2. PICK b : b = ActionsIn(instr', h)
      OBVIOUS
    <3>3. b = [k \in 1..2 |-> b[k]] /\ b[1] = "umount.slb" /\ b[2] = "bridgx.shrink"
      BY <3>1, <3>2
    <3>4. b = <<b[1], b[2]>>
      BY <3>3
    <3> QED
      BY <3>2, <3>3, <3>4, <1>15 DEF ShrinkOf
  <2> QED
    BY <2>4, <2>5, <1>c, <1>8, <1>12, <1>13, <1>14
<1>16. CASE n # 4
  <2>1. DOMAIN h = 1..1 /\ h[1] = from + 2
    BY <1>14, <1>16 DEF ShrinkGroup
  <2>2. from + 2 \in DOMAIN instr' /\ instr'[from + 2] = NewInstr("bridgx.shrink", rev)
    BY <1>1, <1>5, <1>6
  <2>3. \A k \in DOMAIN h : k = 1
    BY <2>1
  <2>4. GroupBelongs(instr', h, rev)
    BY <2>1, <2>2, <2>3, <1>11 DEF GroupBelongs
  <2>5. ActionsIn(instr', h) = ShrinkOf(n)
    <3>1. /\ ActionsIn(instr', h) = [k \in 1..1 |-> ActionsIn(instr', h)[k]]
          /\ ActionsIn(instr', h)[1] = "bridgx.shrink"
      BY <2>1, <2>2, <1>11 DEF ActionsIn
    <3>2. PICK b : b = ActionsIn(instr', h)
      OBVIOUS
    <3>3. b = [k \in 1..1 |-> b[k]] /\ b[1] = "bridgx.shrink"
      BY <3>1, <3>2
    <3>4. b = <<b[1]>>
      BY <3>3
    <3> QED
      BY <3>2, <3>3, <3>4, <1>16 DEF ShrinkOf
  <2> QED
    BY <2>4, <2>5, <1>c, <1>8, <1>12, <1>13, <1>14
<1> QED
  BY <1>15, <1>16

LEMMA DeployGroupFits ==
  ASSUME Tables, Tables', NEW id, NEW X,
         Grew(InstrRow, instr, instr', X, InstanceInstrs(5, id))
  PROVE  LET g == [k \in 1..5 |-> Len(instr) + k] IN
         /\ GroupBelongs(instr', g, id) /\ ActionsIn(instr', g) = InstanceDeploySteps
<1>a. PICK from : from = Len(instr)
  OBVIOUS
<1>b. PICK created : created = InstanceInstrs(5, id)
  OBVIOUS
<1>1. /\ created = [k \in 1..5 |-> NewInstr(InstanceDeploySteps[k], id)]
      /\ Len(created) = 5
  BY <1>b DEF InstanceInstrs
<1>2. \A k \in 1..5 : created[k] = NewInstr(InstanceDeploySteps[k], id)
  BY <1>1
<1>3. /\ Len(instr') = from + 5 /\ \A k \in 1..5 : instr'[from + k] = created[k]
  BY <1>1, <1>a, <1>b DEF Grew
<1>4. from \in Nat /\ DOMAIN instr' = 1..(from + 5)
  BY <1>3, <1>a, TableFacts, Domains DEF Tables
<1>5. PICK g : g = [k \in 1..5 |-> from + k]
  OBVIOUS
<1>6. \A k \in 1..5 : /\ g[k] \in DOMAIN instr'
                      /\ instr'[g[k]] = NewInstr(InstanceDeploySteps[k], id)
  BY <1>2, <1>3, <1>4, <1>5
<1>7. \A a, t : NewInstr(a, t).action = a /\ NewInstr(a, t).tmpl = t /\ ~NewInstr(a, t).deleted
  BY DEF NewInstr
<1>8. GroupBelongs(instr', g, id)
  BY <1>5, <1>6, <1>7 DEF GroupBelongs
<1>9. ActionsIn(instr', g) = InstanceDeploySteps
  <2>1. ActionsIn(instr', g) = [k \in 1..5 |-> InstanceDeploySteps[k]]
    BY <1>5, <1>6, <1>7 DEF ActionsIn
  <2>2. InstanceDeploySteps = [k \in 1..5 |-> InstanceDeploySteps[k]]
    BY DEF InstanceDeploySteps
  <2> QED
    BY <2>1, <2>2
<1> QED
  BY <1>8, <1>9, <1>a, <1>5

-----------------------------------------------------------------------------
(* Each request keeps what is claimed of the templates *)

\* New rows disturb no old ones; flags of templates do not if they come in pairs.
LEMMA OldKept ==
  ASSUME Tables, Tables', TemplatesHold,
         NEW X, NEW newT, Len(newT) \in Nat, Grew(TmplRow, tmpl, tmpl', X, newT),
         NEW newI, Len(newI) \in Nat, Grew(InstrRow, instr, instr', {}, newI),
         torn \subseteq torn', job' = job,
         \A k \in 1..Len(tmpl) :
            (tmpl[k].type = "expand" /\ tmpl[k].cluster \notin torn' /\ tmpl[k].reverse = k + 1)
               => (k \in X \/ tmpl[k].deleted <=> k + 1 \in X \/ tmpl[k + 1].deleted),
         NEW id \in 1..Len(tmpl)
  PROVE  KeepsTables /\ PairedAt(id)' /\ Owns(id)' /\ Fits(id)'
<1>1. KeepsTables
  BY GrewKeeps
<1>2. DOMAIN tmpl = 1..Len(tmpl)
  BY Domains
<1>3. PairedAt(id) /\ Owns(id) /\ Fits(id)
  BY <1>2 DEF TemplatesHold, Pairs, AllOwn, AllFit
<1>4. /\ tmpl'[id].group = tmpl[id].group /\ tmpl'[id].reverse = tmpl[id].reverse
      /\ tmpl'[id].deleted <=> (id \in X \/ tmpl[id].deleted)
  BY TmplGrew
<1>5. ASSUME tmpl[id].type = "expand"
      PROVE  /\ Coupled(id) /\ tmpl'[id + 1].group = tmpl[id + 1].group
             /\ tmpl'[id + 1].reverse = tmpl[id + 1].reverse
             /\ tmpl'[id + 1].deleted <=> (id + 1 \in X \/ tmpl[id + 1].deleted)
  <2>1. Coupled(id)
    BY <1>3, <1>5 DEF PairedAt
  <2>2. id + 1 \in 1..Len(tmpl)
    BY <1>2, <2>1 DEF Coupled
  <2> QED
    BY <2>1, <2>2, TmplGrew
<1>6. PairedAt(id)'
  <2>1. ASSUME tmpl[id].type = "expand", tmpl[id].cluster \notin torn', tmpl[id].reverse = id + 1
        PROVE  tmpl'[id].deleted <=> tmpl'[id + 1].deleted
    <3>1. id \in X \/ tmpl[id].deleted <=> id + 1 \in X \/ tmpl[id + 1].deleted
      BY <2>1
    <3> QED
      BY <1>4, <1>5, <2>1, <3>1
  <2> QED
    BY <1>1, <1>3, <1>4, <1>5, <2>1, PairKept
<1>7. Owns(id)'
  <2>1. \A k \in 1..Len(instr) : instr[k].tmpl = id => (instr'[k].deleted <=> instr[k].deleted)
    <3>1. ASSUME NEW k \in 1..Len(instr) PROVE instr'[k].deleted <=> instr[k].deleted
      <4>1. instr'[k].deleted <=> (k \in {} \/ instr[k].deleted)
        BY InstrGrew
      <4> QED
        BY <4>1
    <3> QED
      BY <3>1
  <2> QED
    BY <1>1, <1>3, <1>4, <2>1, OwnsKept
<1>8. Fits(id)'
  BY <1>1, <1>3, <1>4, <1>5, FitsKept DEF TemplatesHold
<1> QED
  BY <1>1, <1>6, <1>7, <1>8

LEMMA BoundKept ==
  ASSUME Tables, Tables', KeepsTables, BoundHasTemplate, NEW sc \in bound, sc \notin torn',
         \A k \in 1..Len(tmpl) : tmpl[k].cluster = sc /\ ~tmpl[k].deleted => ~tmpl'[k].deleted
  PROVE  \E k \in DOMAIN tmpl' : k \in DOMAIN tmpl' /\ ~tmpl'[k].deleted /\ tmpl'[k].cluster = sc
<1>1. DOMAIN tmpl = 1..Len(tmpl) /\ DOMAIN tmpl' = 1..Len(tmpl')
  BY Domains DEF Tables
<1>2. PICK k \in DOMAIN tmpl : ~tmpl[k].deleted /\ tmpl[k].cluster = sc
  BY DEF BoundHasTemplate, Live, KeepsTables
<1>3. k \in 1..Len(tmpl) /\ k \in 1..Len(tmpl')
  BY <1>1, <1>2 DEF KeepsTables
<1>4. ~tmpl'[k].deleted /\ tmpl'[k].cluster = sc
  BY <1>2, <1>3 DEF KeepsTables
<1> QED
  BY <1>1, <1>3, <1>4

LEMMA PairAddedKeeps ==
  ASSUME Tables, Tables', TemplatesHold, NEW sc \in Cluster, NEW n \in 1..4, PairAdded(sc, n)
  PROVE  KeepsTables /\ TemplatesHold'
<1>a. PICK id : id = Len(tmpl) + 1
  OBVIOUS
<1>b. PICK created : created = CreatedBy(n, id, id + 1)
  OBVIOUS
<1>1. /\ Len(tmpl) \in Nat /\ Len(instr) \in Nat
      /\ DOMAIN tmpl = 1..Len(tmpl) /\ DOMAIN tmpl' = 1..Len(tmpl')
  BY TableFacts, Domains DEF Tables
<1>2. id \in Nat /\ id # id + 1 /\ Len(tmpl) + 2 = id + 1
  BY <1>1, <1>a
<1>3. Grew(InstrRow, instr, instr', {}, created) /\ Len(created) \in Nat
  <2>1. IsCreated(created, n, id, id + 1)
    BY <1>b, CreatedIs
  <2>2. Len(created) \in Nat
    BY <2>1 DEF IsCreated, CountOf
  <2> QED
    BY <2>2, <1>2, <1>a, <1>b DEF PairAdded
<1>4. bound' = bound \cup {sc} /\ job' = job /\ torn \subseteq torn'
  BY DEF PairAdded
<1>5. PICK new :
        /\ Grew(TmplRow, tmpl, tmpl', {}, new) /\ Len(new) = 2
        /\ new[1].type = "expand" /\ new[1].cluster = sc /\ ~new[1].deleted
        /\ new[1].reverse = id + 1 \/ (new[1].reverse = 0 /\ sc \in torn')
        /\ new[2].type = "shrink" /\ new[2].cluster = sc /\ ~new[2].deleted /\ new[2].reverse = id
        /\ GroupBelongs(instr', new[1].group, id) /\ GroupBelongs(instr', new[2].group, id + 1)
        /\ \/ new[1].group = <<>> /\ new[2].group = <<>> /\ new[1].reverse = 0 /\ sc \in torn'
           \/ /\ ActionsIn(instr', new[1].group) = SubSeq(ExpandStep, 1, n)
              /\ ActionsIn(instr', new[2].group) = ShrinkOf(n)
  <2>1. CASE /\ Grew(TmplRow, tmpl, tmpl', {},
                     <<ExpandRow(sc, ExpandGroup(n, Len(instr)), id + 1),
                       ShrinkRow(sc, ShrinkGroup(n, Len(instr)), id)>>)
    <3>1. PICK g : g = ExpandGroup(n, Len(instr))
      OBVIOUS
    <3>2. PICK h : h = ShrinkGroup(n, Len(instr))
      OBVIOUS
    <3>3. PICK new : new = <<ExpandRow(sc, g, id + 1), ShrinkRow(sc, h, id)>>
      OBVIOUS
    <3>4. /\ Len(new) = 2
          /\ new[1].type = "expand" /\ new[1].cluster = sc /\ ~new[1].deleted
          /\ new[1].reverse = id + 1 /\ new[1].group = g
          /\ new[2].type = "shrink" /\ new[2].cluster = sc /\ ~new[2].deleted
          /\ new[2].reverse = id /\ new[2].group = h
      BY <3>3 DEF ExpandRow, ShrinkRow
    <3>5. /\ GroupBelongs(instr', g, id) /\ ActionsIn(instr', g) = SubSeq(ExpandStep, 1, n)
          /\ GroupBelongs(instr', h, id + 1) /\ ActionsIn(instr', h) = ShrinkOf(n)
      BY <1>2, <1>3, <1>b, <3>1, <3>2, PairGroupsFit
    <3>6. Grew(TmplRow, tmpl, tmpl', {}, new)
      BY <2>1, <3>1, <3>2, <3>3
    <3> QED
      BY <3>4, <3>5, <3>6
  <2>2. CASE /\ Grew(TmplRow, tmpl, tmpl', {}, <<ExpandRow(sc, <<>>, 0), ShrinkRow(sc, <<>>, id)>>)
             /\ torn' = torn \cup {sc}
    <3>1. PICK new : new = <<ExpandRow(sc, <<>>, 0), ShrinkRow(sc, <<>>, id)>>
      OBVIOUS
    <3>2. /\ Len(new) = 2
          /\ new[1].type = "expand" /\ new[1].cluster = sc /\ ~new[1].deleted
          /\ new[1].reverse = 0 /\ new[1].group = <<>>
          /\ new[2].type = "shrink" /\ new[2].cluster = sc /\ ~new[2].deleted
          /\ new[2].reverse = id /\ new[2].group = <<>>
      BY <3>1 DEF ExpandRow, ShrinkRow
    <3>3. GroupBelongs(instr', <<>>, id) /\ GroupBelongs(instr', <<>>, id + 1)
      BY DEF GroupBelongs
    <3>4. Grew(TmplRow, tmpl, tmpl', {}, new) /\ sc \in torn'
      BY <2>2, <3>1
    <3> QED
      BY <3>2, <3>3, <3>4
  <2> QED
    BY <2>1, <2>2, <1>2, <1>a DEF PairAdded
<1>6. Len(tmpl') = id + 1 /\ tmpl'[id] = new[1] /\ tmpl'[id + 1] = new[2]
  <2>1. tmpl'[Len(tmpl) + 1] = new[1] /\ tmpl'[Len(tmpl) + 2] = new[2] /\ Len(tmpl') = Len(tmpl) + 2
    BY <1>5 DEF Grew
  <2> QED
    BY <2>1, <1>2, <1>a
<1>7. KeepsTables
  BY <1>3, <1>4, <1>5, GrewKeeps
<1>8. ASSUME NEW k \in 1..Len(tmpl) PROVE PairedAt(k)' /\ Owns(k)' /\ Fits(k)'
  <2>1. Len(new) \in Nat
    BY <1>5
  <2>2. \A j \in 1..Len(tmpl) :
           (tmpl[j].type = "expand" /\ tmpl[j].cluster \notin torn' /\ tmpl[j].reverse = j + 1)
              => (j \in {} \/ tmpl[j].deleted <=> j + 1 \in {} \/ tmpl[j + 1].deleted)
    <3> SUFFICES ASSUME NEW j \in 1..Len(tmpl), tmpl[j].type = "expand", tmpl[j].cluster \notin torn'
                 PROVE  tmpl[j].deleted <=> tmpl[j + 1].deleted
      OBVIOUS
    <3>1. Coupled(j) /\ tmpl[j].cluster \notin torn
      BY <1>1, <1>4 DEF TemplatesHold, Pairs, PairedAt
    <3> QED
      BY <3>1 DEF Coupled
  <2> QED
    BY <1>3, <1>4, <1>5, <2>1, <2>2, OldKept
<1>9. ASSUME NEW k \in DOMAIN tmpl' PROVE k \in 1..Len(tmpl) \/ k = id \/ k = id + 1
  BY <1>1, <1>6, <1>a
<1>10. id \in DOMAIN tmpl' /\ id + 1 \in DOMAIN tmpl' /\ (id + 1) - 1 = id
  BY <1>1, <1>2, <1>6, <1>a
<1>11. Pairs'
  <2>1. PairedAt(id)'
    BY <1>5, <1>6, <1>10 DEF PairedAt, Coupled
  <2>2. PairedAt(id + 1)'
    BY <1>5, <1>6, <1>10 DEF PairedAt
  <2> QED
    BY <1>8, <1>9, <2>1, <2>2 DEF Pairs
<1>12. AllOwn'
  <2>1. Owns(id)'
    BY <1>5, <1>6 DEF Owns, GroupBelongs
  <2>2. Owns(id + 1)'
    BY <1>5, <1>6 DEF Owns, GroupBelongs
  <2> QED
    BY <1>8, <1>9, <2>1, <2>2 DEF AllOwn
<1>13. AllFit'
  <2>1. Fits(id)'
    BY <1>5, <1>6 DEF Fits, InStep
  <2>2. Fits(id + 1)'
    BY <1>5, <1>6 DEF Fits
  <2> QED
    BY <1>8, <1>9, <2>1, <2>2 DEF AllFit
<1>14. BoundHasTemplate'
  <2>1. ASSUME NEW c \in bound' \ torn'
        PROVE  \E k \in DOMAIN tmpl' : k \in DOMAIN tmpl' /\ ~tmpl'[k].deleted /\ tmpl'[k].cluster = c
    <3>1. CASE c = sc
      BY <3>1, <1>5, <1>6, <1>10
    <3>2. CASE c # sc
      <4>1. c \in bound
        BY <1>4, <3>2
      <4>2. ASSUME NEW k \in 1..Len(tmpl), ~tmpl[k].deleted PROVE ~tmpl'[k].deleted
        <5>1. tmpl'[k].deleted <=> (k \in {} \/ tmpl[k].deleted)
          BY <1>5, TmplGrew
        <5> QED
          BY <4>2, <5>1
      <4> QED
        BY <1>7, <4>1, <4>2, BoundKept DEF TemplatesHold
    <3> QED
      BY <3>1, <3>2
  <2> QED
    BY <2>1 DEF BoundHasTemplate, Live
<1> QED
  BY <1>7, <1>11, <1>12, <1>13, <1>14 DEF TemplatesHold

LEMMA PairRegroupedKeeps ==
  ASSUME Tables, Tables', TemplatesHold, NEW id \in DOMAIN tmpl, NEW rev \in DOMAIN tmpl,
         NEW sc \in Cluster, NEW n \in 1..4, PairRegrouped(id, rev, sc, n)
  PROVE  KeepsTables /\ TemplatesHold'
<1>a. PICK created : created = CreatedBy(n, id, rev)
  OBVIOUS
<1>1. /\ Len(tmpl) \in Nat /\ Len(instr) \in Nat
      /\ DOMAIN tmpl = 1..Len(tmpl) /\ DOMAIN tmpl' = 1..Len(tmpl')
  BY TableFacts, Domains DEF Tables
<1>2. PICK ids \in SUBSET {id, rev} : Grew(InstrRow, instr, instr', OwnedBy(ids), created)
  BY <1>a DEF PairRegrouped
<1>3. /\ ~tmpl[id].deleted /\ ~tmpl[rev].deleted
      /\ \/ rev = id + 1 /\ tmpl[id].type = "expand"
         \/ id = rev + 1 /\ tmpl[rev].type = "expand" /\ tmpl[id].cluster \in torn'
      /\ bound' = bound \cup {sc} /\ job' = job /\ torn \subseteq torn'
      /\ sc \in torn' \/ sc = tmpl[id].cluster
      /\ Len(tmpl') = Len(tmpl)
      /\ \A k \in 1..Len(tmpl) : IF k \in {id, rev} THEN ButGroup(tmpl[k], tmpl'[k])
                                                   ELSE tmpl'[k] = tmpl[k]
      /\ tmpl'[id].group = ExpandGroup(n, Len(instr)) /\ tmpl'[id].reverse = rev
      /\ tmpl'[rev].group = ShrinkGroup(n, Len(instr)) /\ tmpl'[rev].reverse = id
  BY DEF PairRegrouped
\* The expand template of the pair.
<1>b. PICK low : low = IF rev = id + 1 THEN id ELSE rev
  OBVIOUS
<1>4. /\ id # rev /\ low \in Nat /\ {id, rev} = {low, low + 1} /\ low \in DOMAIN tmpl
      /\ low + 1 \in DOMAIN tmpl /\ tmpl[low].type = "expand" /\ tmpl[low + 1].type = "shrink"
      /\ tmpl[low + 1].reverse = low /\ tmpl[low + 1].cluster = tmpl[low].cluster
      /\ tmpl'[low].reverse = low + 1 /\ tmpl'[low + 1].reverse = low
      /\ ~tmpl[low].deleted /\ ~tmpl[low + 1].deleted
  <2>1. id \in Nat /\ rev \in Nat
    BY <1>1
  <2>2. CASE rev = id + 1
    <3>1. low = id /\ id # rev /\ tmpl[id].type = "expand"
      BY <2>1, <2>2, <1>3, <1>b
    <3>2. Coupled(id)
      BY <3>1 DEF TemplatesHold, Pairs, PairedAt
    <3> QED
      BY <2>1, <2>2, <1>3, <3>1, <3>2 DEF Coupled
  <2>3. CASE id = rev + 1 /\ tmpl[rev].type = "expand"
    <3>1. low = rev /\ id # rev
      BY <2>1, <2>3, <1>b
    <3>2. Coupled(rev)
      BY <2>3 DEF TemplatesHold, Pairs, PairedAt
    <3> QED
      BY <2>1, <2>3, <1>3, <3>1, <3>2 DEF Coupled
  <2> QED
    BY <2>2, <2>3, <1>3
<1>5. Len(created) \in Nat
  <2>1. IsCreated(created, n, id, rev)
    BY <1>a, CreatedIs
  <2> QED
    BY <2>1 DEF IsCreated, CountOf
<1>6. ASSUME NEW k \in 1..Len(tmpl)
      PROVE  /\ tmpl'[k].type = tmpl[k].type /\ tmpl'[k].cluster = tmpl[k].cluster
             /\ tmpl'[k].deleted = tmpl[k].deleted
  BY <1>3 DEF ButGroup
<1>7. ASSUME NEW k \in 1..Len(instr)
      PROVE  /\ instr'[k].action = instr[k].action /\ instr'[k].tmpl = instr[k].tmpl
             /\ instr'[k].deleted <=> (k \in OwnedBy(ids) \/ instr[k].deleted)
  BY <1>2, <1>5, InstrGrew
<1>8. KeepsTables
  <2>1. Len(instr') = Len(instr) + Len(created)
    BY <1>2 DEF Grew
  <2> QED
    BY <1>1, <1>3, <1>5, <1>6, <1>7, <2>1 DEF KeepsTables
<1>9. LET g == tmpl'[id].group
          h == tmpl'[rev].group
      IN  /\ GroupBelongs(instr', g, id) /\ ActionsIn(instr', g) = SubSeq(ExpandStep, 1, n)
          /\ GroupBelongs(instr', h, rev) /\ ActionsIn(instr', h) = ShrinkOf(n)
  <2>1. LET g == ExpandGroup(n, Len(instr))
            h == ShrinkGroup(n, Len(instr))
        IN  /\ GroupBelongs(instr', g, id) /\ ActionsIn(instr', g) = SubSeq(ExpandStep, 1, n)
            /\ GroupBelongs(instr', h, rev) /\ ActionsIn(instr', h) = ShrinkOf(n)
    BY <1>2, <1>4, <1>a, PairGroupsFit
  <2> QED
    BY <1>3, <2>1
<1>10. ASSUME NEW k \in DOMAIN tmpl, k # low, k # low + 1
       PROVE  tmpl'[k].group = tmpl[k].group /\ tmpl'[k].reverse = tmpl[k].reverse
  <2>1. k \notin {id, rev}
    BY <1>4, <1>10
  <2> QED
    BY <1>1, <1>3, <2>1
<1>11. DOMAIN tmpl' = DOMAIN tmpl
  BY <1>1, <1>3
\* Another expand template has another reverse.
<1>c. ASSUME NEW k \in DOMAIN tmpl, k # low, k # low + 1, tmpl[k].type = "expand"
      PROVE  k + 1 \in DOMAIN tmpl /\ k + 1 # low /\ k + 1 # low + 1
  <2>1. k + 1 \in DOMAIN tmpl /\ tmpl[k + 1].type = "shrink" /\ k \in Nat
    BY <1>1, <1>c DEF TemplatesHold, Pairs, PairedAt, Coupled
  <2> QED
    BY <1>4, <1>c, <2>1
<1>12. Pairs'
  <2>1. ASSUME NEW k \in DOMAIN tmpl PROVE PairedAt(k)'
    <3>1. k \in 1..Len(tmpl) /\ PairedAt(k)
      BY <1>1 DEF TemplatesHold, Pairs
    <3>2. ASSUME tmpl[k].type = "expand"
          PROVE  /\ tmpl'[k + 1].reverse = tmpl[k + 1].reverse
                 /\ tmpl[k].reverse = k + 1 /\ tmpl[k].cluster \notin torn' =>
                       (tmpl'[k].deleted <=> tmpl'[k + 1].deleted)
      <4>1. Coupled(k)
        BY <3>1, <3>2 DEF PairedAt
      <4>2. k + 1 \in 1..Len(tmpl)
        BY <1>1, <4>1 DEF Coupled
      <4>3. tmpl[k].cluster \notin torn' => (tmpl[k].deleted <=> tmpl[k + 1].deleted)
        BY <1>3, <4>1 DEF Coupled
      <4>4. tmpl'[k + 1].reverse = tmpl[k + 1].reverse
        <5>1. CASE k = low
          BY <1>4, <5>1
        <5>2. CASE k = low + 1
          BY <1>4, <3>2, <5>2
        <5>3. CASE k # low /\ k # low + 1
          BY <1>10, <1>c, <3>2, <5>3
        <5> QED
          BY <5>1, <5>2, <5>3
      <4> QED
        BY <1>6, <3>1, <4>2, <4>3, <4>4
    <3>3. \/ tmpl'[k].reverse = tmpl[k].reverse
          \/ tmpl[k].type = "expand" /\ tmpl'[k].reverse = k + 1
      BY <1>4, <1>10
    <3> QED
      BY <1>8, <3>1, <3>2, <3>3, PairKept
  <2> QED
    BY <2>1, <1>11 DEF Pairs
<1>13. AllOwn'
  <2>1. Owns(id)' /\ Owns(rev)'
    BY <1>9 DEF Owns, GroupBelongs
  <2>2. ASSUME NEW k \in DOMAIN tmpl, k # id, k # rev PROVE Owns(k)'
    <3>1. k \in 1..Len(tmpl) /\ Owns(k)
      BY <1>1 DEF TemplatesHold, AllOwn
    <3>2. ASSUME NEW j \in 1..Len(instr), instr[j].tmpl = k
          PROVE  instr'[j].deleted <=> instr[j].deleted
      <4>1. j \notin OwnedBy(ids)
        BY <2>2, <3>2 DEF OwnedBy
      <4> QED
        BY <4>1, <1>7
    <3>3. tmpl'[k].group = tmpl[k].group
      BY <1>4, <1>10, <2>2
    <3> QED
      BY <1>8, <3>1, <3>2, <3>3, OwnsKept
  <2> QED
    BY <2>1, <2>2, <1>11 DEF AllOwn
<1>14. AllFit'
  <2>1. Fits(low)'
    <3>1. tmpl'[low].type = "expand" /\ tmpl'[low].cluster = tmpl[low].cluster
      BY <1>1, <1>4, <1>6
    <3>2. CASE rev = id + 1
      <4>1. low = id /\ low + 1 = rev
        BY <1>b, <3>2
      <4>2. InStep(instr', tmpl'[low].group, tmpl'[low + 1].group)
        BY <1>9, <4>1 DEF InStep
      <4> QED
        BY <3>1, <4>2 DEF Fits
    <3>3. CASE rev # id + 1
      <4>1. low = rev /\ low + 1 = id /\ tmpl[id].cluster \in torn'
        BY <1>3, <1>b, <3>3
      <4>2. InStep(instr', tmpl'[low + 1].group, tmpl'[low].group)
        BY <1>9, <4>1 DEF InStep
      <4>3. tmpl'[low].cluster \in torn'
        BY <1>4, <3>1, <4>1
      <4> QED
        BY <3>1, <4>2, <4>3 DEF Fits
    <3> QED
      BY <3>2, <3>3
  <2>2. Fits(low + 1)'
    <3>1. tmpl'[low + 1].type = "shrink"
      BY <1>1, <1>4, <1>6
    <3> QED
      BY <3>1 DEF Fits
  <2>3. ASSUME NEW k \in DOMAIN tmpl, k # low, k # low + 1 PROVE Fits(k)'
    <3>1. k \in 1..Len(tmpl) /\ Fits(k)
      BY <1>1 DEF TemplatesHold, AllFit
    <3>2. ASSUME tmpl[k].type = "expand" PROVE tmpl'[k + 1].group = tmpl[k + 1].group
      BY <1>10, <1>c, <2>3, <3>2
    <3> QED
      BY <1>8, <1>10, <2>3, <3>1, <3>2, FitsKept DEF TemplatesHold
  <2> QED
    BY <2>1, <2>2, <2>3, <1>11 DEF AllFit
<1>15. BoundHasTemplate'
  <2>1. ASSUME NEW c \in bound' \ torn'
        PROVE  \E k \in DOMAIN tmpl' : k \in DOMAIN tmpl' /\ ~tmpl'[k].deleted /\ tmpl'[k].cluster = c
    <3>1. CASE c = tmpl[id].cluster
      <4>1. ~tmpl'[id].deleted /\ tmpl'[id].cluster = c
        BY <1>1, <1>3, <1>6, <3>1
      <4> QED
        BY <4>1, <1>11
    <3>2. CASE c # tmpl[id].cluster
      <4>1. c \in bound
        BY <1>3, <2>1, <3>2
      <4> QED
        BY <1>6, <1>8, <2>1, <4>1, BoundKept DEF TemplatesHold
    <3> QED
      BY <3>1, <3>2
  <2> QED
    BY <2>1 DEF BoundHasTemplate, Live
<1> QED
  BY <1>8, <1>12, <1>13, <1>14, <1>15 DEF TemplatesHold

LEMMA PairFlaggedKeeps ==
  ASSUME Tables, Tables', TemplatesHold, NEW id \in DOMAIN tmpl, NEW sc \in Cluster,
         NEW n \in 1..4, PairFlagged(id, sc, n)
  PROVE  KeepsTables /\ TemplatesHold'
<1>a. PICK rev : rev = tmpl[id].reverse
  OBVIOUS
<1>b. PICK created : created = CreatedBy(n, id, rev)
  OBVIOUS
<1>1. /\ Len(tmpl) \in Nat /\ Len(instr) \in Nat /\ DOMAIN tmpl = 1..Len(tmpl)
  BY TableFacts, Domains
<1>2. /\ tmpl' = tmpl /\ bound' = bound \cup {sc} /\ job' = job
      /\ torn' = torn \cup {sc, tmpl[id].cluster}
  BY DEF PairFlagged
<1>c. PICK ids \in SUBSET {id, rev} : Grew(InstrRow, instr, instr', OwnedBy(ids), created)
  BY <1>a, <1>b DEF PairFlagged
<1>3. Len(created) \in Nat
  <2>1. IsCreated(created, n, id, rev)
    BY <1>b, CreatedIs
  <2> QED
    BY <2>1 DEF IsCreated, CountOf
<1>4. ASSUME NEW k \in 1..Len(instr)
      PROVE  /\ instr'[k].action = instr[k].action /\ instr'[k].tmpl = instr[k].tmpl
             /\ instr'[k].deleted <=> (k \in OwnedBy(ids) \/ instr[k].deleted)
  BY <1>c, <1>3, InstrGrew
<1>5. KeepsTables
  <2>1. Len(instr') = Len(instr) + Len(created)
    BY <1>c DEF Grew
  <2> QED
    BY <1>1, <1>2, <1>3, <1>4, <2>1 DEF KeepsTables
<1>6. Pairs'
  <2>1. ASSUME NEW k \in DOMAIN tmpl PROVE PairedAt(k)'
    <3>1. k \in 1..Len(tmpl) /\ PairedAt(k)
      BY <1>1 DEF TemplatesHold, Pairs
    <3>2. ASSUME tmpl[k].type = "expand", tmpl[k].cluster \notin torn'
          PROVE  tmpl'[k].deleted <=> tmpl'[k + 1].deleted
      <4>1. tmpl[k].cluster \notin torn
        BY <1>2, <3>2
      <4> QED
        BY <1>2, <3>1, <3>2, <4>1 DEF PairedAt, Coupled
    <3> QED
      BY <1>2, <1>5, <3>1, <3>2, PairKept
  <2> QED
    BY <2>1, <1>2 DEF Pairs
<1>7. AllOwn'
  <2>1. ASSUME NEW k \in DOMAIN tmpl PROVE Owns(k)'
    <3>1. k \in 1..Len(tmpl) /\ Owns(k) /\ tmpl'[k].group = tmpl[k].group
      BY <1>1, <1>2 DEF TemplatesHold, AllOwn
    <3>2. CASE tmpl[k].cluster = tmpl[id].cluster
      BY <1>2, <1>5, <3>1, <3>2, OwnsKept
    <3>3. CASE tmpl[k].cluster # tmpl[id].cluster
      <4>1. k # id /\ k # rev
        BY <1>1, <1>a, <3>1, <3>3, Reverses DEF TemplatesHold
      <4>2. ASSUME NEW j \in 1..Len(instr), instr[j].tmpl = k
            PROVE  instr'[j].deleted <=> instr[j].deleted
        <5>1. j \notin OwnedBy(ids)
          BY <4>1, <4>2 DEF OwnedBy
        <5> QED
          BY <5>1, <1>4
      <4> QED
        BY <1>5, <3>1, <4>2, OwnsKept
    <3> QED
      BY <3>2, <3>3
  <2> QED
    BY <2>1, <1>2 DEF AllOwn
<1>8. AllFit'
  <2>1. ASSUME NEW k \in DOMAIN tmpl PROVE Fits(k)'
    <3>1. k \in 1..Len(tmpl) /\ Fits(k)
      BY <1>1 DEF TemplatesHold, AllFit
    <3> QED
      BY <1>2, <1>5, <3>1, FitsKept DEF TemplatesHold
  <2> QED
    BY <2>1, <1>2 DEF AllFit
<1>9. BoundHasTemplate'
  <2>1. ASSUME NEW c \in bound' \ torn'
        PROVE  \E k \in DOMAIN tmpl' : k \in DOMAIN tmpl' /\ ~tmpl'[k].deleted /\ tmpl'[k].cluster = c
    <3>1. c \in bound
      BY <1>2, <2>1
    <3> QED
      BY <1>2, <1>5, <2>1, <3>1, BoundKept DEF TemplatesHold
  <2> QED
    BY <2>1 DEF BoundHasTemplate, Live
<1> QED
  BY <1>5, <1>6, <1>7, <1>8, <1>9 DEF TemplatesHold

LEMMA DeployAddedKeeps ==
  ASSUME Tables, Tables', TemplatesHold, NEW sc \in Cluster, NEW X, DeployAdded(sc, X)
  PROVE  KeepsTables /\ TemplatesHold'
<1>1. /\ Len(tmpl) \in Nat /\ Len(instr) \in Nat
      /\ DOMAIN tmpl = 1..Len(tmpl) /\ DOMAIN tmpl' = 1..Len(tmpl')
  BY TableFacts, Domains DEF Tables
<1>2. /\ Replaceable(sc, X)
      /\ bound' = bound \cup {sc} /\ job' = job /\ torn \subseteq torn'
  BY DEF DeployAdded
<1>a. PICK id : id = Len(tmpl) + 1
  OBVIOUS
<1>3. PICK newT, newI :
        /\ Grew(TmplRow, tmpl, tmpl', X, newT) /\ Grew(InstrRow, instr, instr', {}, newI)
        /\ Len(newI) \in Nat
        /\ \/ /\ Len(newT) = 1
              /\ newT[1].type = "deploy" /\ newT[1].cluster = sc /\ newT[1].reverse = 0
              /\ ~newT[1].deleted
              /\ GroupBelongs(instr', newT[1].group, id)
              /\ \/ newT[1].group = <<>> /\ sc \in torn'
                 \/ ActionsIn(instr', newT[1].group) = InstanceDeploySteps
           \/ Len(newT) = 0 /\ sc \in torn'
  <2>1. ASSUME NEW n \in 0..5 PROVE Len(InstanceInstrs(n, id)) \in Nat
    BY DEF InstanceInstrs
  <2>2. CASE /\ Grew(TmplRow, tmpl, tmpl', X, <<DeployRow(sc, [k \in 1..5 |-> Len(instr) + k])>>)
             /\ Grew(InstrRow, instr, instr', {}, InstanceInstrs(5, id))
    <3>1. PICK g : g = [k \in 1..5 |-> Len(instr) + k]
      OBVIOUS
    <3>2. PICK newT : newT = <<DeployRow(sc, g)>>
      OBVIOUS
    <3>3. /\ Len(newT) = 1 /\ newT[1].type = "deploy" /\ newT[1].cluster = sc
          /\ newT[1].reverse = 0 /\ newT[1].group = g /\ ~newT[1].deleted
      BY <3>2 DEF DeployRow
    <3>4. GroupBelongs(instr', g, id) /\ ActionsIn(instr', g) = InstanceDeploySteps
      BY <2>2, <3>1, DeployGroupFits
    <3>5. Grew(TmplRow, tmpl, tmpl', X, newT)
      BY <2>2, <3>1, <3>2
    <3>6. Len(InstanceInstrs(5, id)) \in Nat
      BY <2>1
    <3> QED
      BY <2>2, <3>3, <3>4, <3>5, <3>6
  <2>3. CASE /\ Grew(TmplRow, tmpl, tmpl', X, <<DeployRow(sc, <<>>)>>)
             /\ \E n \in 0..4 : Grew(InstrRow, instr, instr', {}, InstanceInstrs(n, id))
             /\ sc \in torn'
    <3>1. PICK n \in 0..4 : Grew(InstrRow, instr, instr', {}, InstanceInstrs(n, id))
      BY <2>3
    <3>2. PICK newT : newT = <<DeployRow(sc, <<>>)>>
      OBVIOUS
    <3>3. /\ Len(newT) = 1 /\ newT[1].type = "deploy" /\ newT[1].cluster = sc
          /\ newT[1].reverse = 0 /\ newT[1].group = <<>> /\ ~newT[1].deleted
      BY <3>2 DEF DeployRow
    <3>4. GroupBelongs(instr', <<>>, id)
      BY DEF GroupBelongs
    <3>5. Grew(TmplRow, tmpl, tmpl', X, newT) /\ sc \in torn'
      BY <2>3, <3>2
    <3>6. Len(InstanceInstrs(n, id)) \in Nat
      BY <2>1
    <3> QED
      BY <3>1, <3>3, <3>4, <3>5, <3>6
  <2>4. CASE /\ Grew(TmplRow, tmpl, tmpl', X, <<>>)
             /\ instr' = instr /\ sc \in torn'
    <3>1. Grew(InstrRow, instr, instr, {}, <<>>)
      BY TableFacts, NothingGrows, RowsFlaggable
    <3>2. Len(<<>>) = 0 /\ Len(<<>>) \in Nat /\ sc \in torn'
      BY <2>4
    <3>3. PICK e : e = <<>>
      OBVIOUS
    <3>4. Grew(TmplRow, tmpl, tmpl', X, e) /\ Grew(InstrRow, instr, instr', {}, e)
      BY <2>4, <3>1, <3>3
    <3>5. Len(e) = 0 /\ Len(e) \in Nat
      BY <3>2, <3>3
    <3> QED
      BY <3>2, <3>4, <3>5
  <2> QED
    BY <2>2, <2>3, <2>4, <1>a DEF DeployAdded
<1>4. Len(newT) \in Nat
  BY <1>3
<1>5. ASSUME NEW k \in 1..Len(tmpl) PROVE KeepsTables /\ PairedAt(k)' /\ Owns(k)' /\ Fits(k)'
  <2>1. ASSUME NEW j \in 1..Len(tmpl), tmpl[j].type = "expand", tmpl[j].cluster \notin torn'
        PROVE  j \in X \/ tmpl[j].deleted <=> j + 1 \in X \/ tmpl[j + 1].deleted
    <3>1. Coupled(j) /\ tmpl[j].cluster \notin torn
      BY <1>1, <1>2, <2>1 DEF TemplatesHold, Pairs, PairedAt
    <3>2. /\ tmpl[j + 1].type = "shrink" /\ tmpl[j + 1].cluster \notin torn'
          /\ tmpl[j].deleted <=> tmpl[j + 1].deleted
      BY <2>1, <3>1 DEF Coupled
    <3>3. j \in X => tmpl[j].deleted
      BY <1>2, <2>1 DEF Replaceable
    <3>4. j + 1 \in X => tmpl[j + 1].deleted
      BY <1>2, <3>2 DEF Replaceable
    <3> QED
      BY <3>2, <3>3, <3>4
  <2> QED
    BY <1>2, <1>3, <1>4, <2>1, OldKept
<1>6. KeepsTables
  BY <1>2, <1>3, <1>4, GrewKeeps
<1>7. ASSUME NEW k \in DOMAIN tmpl', k \notin 1..Len(tmpl)
      PROVE  Len(newT) = 1 /\ k = id /\ tmpl'[k] = newT[1]
  <2>1. Len(tmpl') = Len(tmpl) + Len(newT) /\ \A j \in 1..Len(newT) : tmpl'[Len(tmpl) + j] = newT[j]
    BY <1>3 DEF Grew
  <2>2. Len(newT) = 0 \/ Len(newT) = 1
    BY <1>3
  <2>3. Len(newT) = 1 /\ k = Len(tmpl) + 1
    BY <2>1, <2>2, <1>1, <1>7
  <2>4. tmpl'[Len(tmpl) + 1] = newT[1]
    BY <2>1, <2>3
  <2> QED
    BY <2>3, <2>4, <1>a
<1>8. Pairs'
  <2>1. ASSUME NEW k \in DOMAIN tmpl', k \notin 1..Len(tmpl) PROVE PairedAt(k)'
    BY <1>3, <1>7, <2>1 DEF PairedAt
  <2> QED
    BY <1>5, <2>1 DEF Pairs
<1>9. AllOwn'
  <2>1. ASSUME NEW k \in DOMAIN tmpl', k \notin 1..Len(tmpl) PROVE Owns(k)'
    BY <1>3, <1>7, <2>1 DEF Owns, GroupBelongs
  <2> QED
    BY <1>5, <2>1 DEF AllOwn
<1>10. AllFit'
  <2>1. ASSUME NEW k \in DOMAIN tmpl', k \notin 1..Len(tmpl) PROVE Fits(k)'
    BY <1>3, <1>7, <2>1 DEF Fits
  <2> QED
    BY <1>5, <2>1 DEF AllFit
<1>11. BoundHasTemplate'
  <2>1. ASSUME NEW c \in bound' \ torn'
        PROVE  \E k \in DOMAIN tmpl' : k \in DOMAIN tmpl' /\ ~tmpl'[k].deleted /\ tmpl'[k].cluster = c
    <3>1. CASE c = sc
      <4>1. Len(newT) = 1
        BY <1>3, <2>1, <3>1
      <4>2. id \in DOMAIN tmpl' /\ id \notin 1..Len(tmpl)
        BY <1>1, <1>3, <1>a, <4>1 DEF Grew
      <4>3. tmpl'[id] = newT[1]
        BY <1>7, <4>2
      <4> QED
        BY <1>3, <3>1, <4>1, <4>2, <4>3
    <3>2. CASE c # sc
      <4>1. c \in bound
        BY <1>2, <2>1, <3>2
      <4>2. ASSUME NEW k \in 1..Len(tmpl), tmpl[k].cluster = c, ~tmpl[k].deleted
            PROVE  ~tmpl'[k].deleted
        <5>1. k \notin X
          BY <1>2, <2>1, <3>2, <4>2 DEF Replaceable
        <5>2. tmpl'[k].deleted <=> (k \in X \/ tmpl[k].deleted)
          BY <1>3, <1>4, TmplGrew
        <5> QED
          BY <4>2, <5>1, <5>2
      <4> QED
        BY <1>6, <2>1, <4>1, <4>2, BoundKept DEF TemplatesHold
    <3> QED
      BY <3>1, <3>2
  <2> QED
    BY <2>1 DEF BoundHasTemplate, Live
<1> QED
  BY <1>6, <1>8, <1>9, <1>10, <1>11 DEF TemplatesHold

LEMMA PairsDroppedKeeps ==
  ASSUME Tables, Tables', TemplatesHold, NEW ids \in SUBSET DOMAIN tmpl, PairsDropped(ids)
  PROVE  KeepsTables /\ TemplatesHold'
<1>a. PICK X : X = WithReverses(ids)
  OBVIOUS
<1>b. PICK e : e = <<>>
  OBVIOUS
<1>1. /\ Len(tmpl) \in Nat /\ Len(instr) \in Nat
      /\ DOMAIN tmpl = 1..Len(tmpl) /\ DOMAIN tmpl' = 1..Len(tmpl')
  BY TableFacts, Domains DEF Tables
<1>2. /\ \A k \in ids : k \in DOMAIN tmpl
      /\ Grew(TmplRow, tmpl, tmpl', X, e)
      /\ bound' = Unbound(ids) /\ instr' = instr /\ job' = job /\ torn' = torn
  BY <1>a, <1>b DEF PairsDropped
<1>3. Len(e) = 0 /\ Len(e) \in Nat
  BY <1>b
<1>4. Len(tmpl') = Len(tmpl)
  BY <1>1, <1>2, <1>3 DEF Grew
<1>5. Grew(InstrRow, instr, instr', {}, e)
  BY <1>2, <1>b, TableFacts, NothingGrows, RowsFlaggable
<1>6. X = ids \cup {tmpl[k].reverse : k \in ids}
  BY <1>a DEF WithReverses
<1>d. ASSUME NEW k \in ids
      PROVE  LET rev == tmpl[k].reverse IN
             /\ k \in Nat
             /\ rev \in DOMAIN tmpl => tmpl[rev].cluster = tmpl[k].cluster
             /\ \A j \in DOMAIN tmpl : tmpl[j].type = "expand" =>
                   (rev = j => k = j + 1) /\ (rev = j + 1 => k = j)
  <2>1. PICK rev : rev = tmpl[k].reverse
    OBVIOUS
  <2>2. /\ k \in Nat /\ rev \in Nat /\ 0 \notin DOMAIN tmpl
        /\ rev # 0 => rev \in DOMAIN tmpl /\ tmpl[rev].cluster = tmpl[k].cluster
        /\ rev # 0 => \/ tmpl[k].type = "expand" /\ rev = k + 1
                      \/ tmpl[k].type = "shrink" /\ k = rev + 1 /\ tmpl[rev].type = "expand"
    <3>1. k \in DOMAIN tmpl
      BY <1>2
    <3> QED
      BY <1>1, <2>1, <3>1, Reverses DEF TemplatesHold
  <2>3. ASSUME NEW j \in DOMAIN tmpl, tmpl[j].type = "expand"
        PROVE  (rev = j => k = j + 1) /\ (rev = j + 1 => k = j)
    <3>1. j \in Nat /\ j # 0
      BY <1>1
    <3>2. tmpl[j + 1].type = "shrink"
      BY <2>3 DEF TemplatesHold, Pairs, PairedAt, Coupled
    <3>3. ASSUME rev = j PROVE k = j + 1
      <4>1. k + 1 = rev => FALSE
        <5>1. ASSUME k + 1 = rev, tmpl[k].type = "expand" PROVE FALSE
          <6>1. tmpl[k + 1].type = "shrink"
            BY <1>2, <5>1 DEF TemplatesHold, Pairs, PairedAt, Coupled
          <6> QED
            BY <2>3, <3>3, <5>1, <6>1
        <5> QED
          BY <2>2, <3>1, <3>3, <5>1
      <4> QED
        BY <2>2, <3>1, <3>3, <4>1
    <3>4. ASSUME rev = j + 1 PROVE k = j
      BY <2>2, <3>1, <3>2, <3>4
    <3> QED
      BY <3>3, <3>4
  <2> QED
    BY <2>1, <2>2, <2>3
<1>7. ASSUME NEW j \in 1..Len(tmpl), tmpl[j].type = "expand", tmpl[j].cluster \notin torn',
             tmpl[j].reverse = j + 1
      PROVE  j \in X \/ tmpl[j].deleted <=> j + 1 \in X \/ tmpl[j + 1].deleted
  <2>1. tmpl[j + 1].reverse = j /\ (tmpl[j].deleted <=> tmpl[j + 1].deleted)
    BY <1>1, <1>2, <1>7 DEF TemplatesHold, Pairs, PairedAt, Coupled
  <2>2. j \in X <=> j + 1 \in X
    BY <1>1, <1>6, <1>7, <1>d, <2>1
  <2> QED
    BY <2>1, <2>2
<1>8. ASSUME NEW k \in 1..Len(tmpl) PROVE KeepsTables /\ PairedAt(k)' /\ Owns(k)' /\ Fits(k)'
  BY <1>2, <1>3, <1>5, <1>7, OldKept
<1>9. KeepsTables
  BY <1>2, <1>3, <1>5, GrewKeeps
<1>10. Pairs' /\ AllOwn' /\ AllFit'
  BY <1>1, <1>4, <1>8 DEF Pairs, AllOwn, AllFit
<1>11. BoundHasTemplate'
  <2>1. ASSUME NEW c \in bound' \ torn'
        PROVE  \E k \in DOMAIN tmpl' : k \in DOMAIN tmpl' /\ ~tmpl'[k].deleted /\ tmpl'[k].cluster = c
    <3>1. c \in bound /\ \A k \in ids : tmpl[k].cluster # c
      BY <1>2 DEF Unbound
    <3>2. ASSUME NEW k \in 1..Len(tmpl), tmpl[k].cluster = c, ~tmpl[k].deleted
          PROVE  ~tmpl'[k].deleted
      <4>1. k \notin ids
        BY <3>1, <3>2
      <4>2. ASSUME NEW j \in ids, tmpl[j].reverse = k PROVE FALSE
        BY <1>1, <1>d, <3>1, <3>2, <4>2
      <4>3. k \notin X
        BY <1>6, <4>1, <4>2
      <4>4. tmpl'[k].deleted <=> (k \in X \/ tmpl[k].deleted)
        BY <1>2, <1>3, TmplGrew
      <4> QED
        BY <3>2, <4>3, <4>4
    <3> QED
      BY <1>9, <3>1, <3>2, BoundKept DEF TemplatesHold
  <2> QED
    BY <2>1 DEF BoundHasTemplate, Live
<1> QED
  BY <1>9, <1>10, <1>11 DEF TemplatesHold

LEMMA HalvesDroppedKeeps ==
  ASSUME Tables, Tables', TemplatesHold, NEW ids \in SUBSET DOMAIN tmpl, HalvesDropped(ids)
  PROVE  KeepsTables /\ TemplatesHold'
<1>b. PICK e : e = <<>>
  OBVIOUS
<1>1. /\ Len(tmpl) \in Nat /\ Len(instr) \in Nat
      /\ DOMAIN tmpl = 1..Len(tmpl) /\ DOMAIN tmpl' = 1..Len(tmpl')
  BY TableFacts, Domains DEF Tables
<1>2. /\ Grew(TmplRow, tmpl, tmpl', ids, e)
      /\ torn' = torn \cup {tmpl[k].cluster : k \in ids}
      /\ instr' = instr /\ job' = job /\ bound' = bound
  BY <1>b DEF HalvesDropped
<1>3. Len(e) = 0 /\ Len(e) \in Nat
  BY <1>b
<1>4. Len(tmpl') = Len(tmpl)
  BY <1>1, <1>2, <1>3 DEF Grew
<1>5. Grew(InstrRow, instr, instr', {}, e)
  BY <1>2, <1>b, TableFacts, NothingGrows, RowsFlaggable
<1>6. torn \subseteq torn' /\ \A k \in ids : tmpl[k].cluster \in torn'
  BY <1>2
<1>7. ASSUME NEW j \in 1..Len(tmpl), tmpl[j].type = "expand", tmpl[j].cluster \notin torn'
      PROVE  j \in ids \/ tmpl[j].deleted <=> j + 1 \in ids \/ tmpl[j + 1].deleted
  <2>1. tmpl[j + 1].cluster = tmpl[j].cluster /\ (tmpl[j].deleted <=> tmpl[j + 1].deleted)
    BY <1>1, <1>6, <1>7 DEF TemplatesHold, Pairs, PairedAt, Coupled
  <2>2. j \notin ids /\ j + 1 \notin ids
    BY <1>6, <1>7, <2>1
  <2> QED
    BY <2>1, <2>2
<1>8. ASSUME NEW k \in 1..Len(tmpl) PROVE KeepsTables /\ PairedAt(k)' /\ Owns(k)' /\ Fits(k)'
  BY <1>2, <1>3, <1>5, <1>6, <1>7, OldKept
<1>9. KeepsTables
  BY <1>2, <1>3, <1>5, <1>6, GrewKeeps
<1>10. Pairs' /\ AllOwn' /\ AllFit'
  BY <1>1, <1>4, <1>8 DEF Pairs, AllOwn, AllFit
<1>11. BoundHasTemplate'
  <2>1. ASSUME NEW c \in bound' \ torn'
        PROVE  \E k \in DOMAIN tmpl' : k \in DOMAIN tmpl' /\ ~tmpl'[k].deleted /\ tmpl'[k].cluster = c
    <3>1. ASSUME NEW k \in 1..Len(tmpl), tmpl[k].cluster = c, ~tmpl[k].deleted
          PROVE  ~tmpl'[k].deleted
      <4>1. k \notin ids
        BY <1>6, <2>1, <3>1
      <4>2. tmpl'[k].deleted <=> (k \in ids \/ tmpl[k].deleted)
        BY <1>2, <1>3, TmplGrew
      <4> QED
        BY <3>1, <4>1, <4>2
    <3> QED
      BY <1>2, <1>9, <2>1, <3>1, BoundKept DEF TemplatesHold
  <2> QED
    BY <2>1 DEF BoundHasTemplate, Live
<1> QED
  BY <1>9, <1>10, <1>11 DEF TemplatesHold

-----------------------------------------------------------------------------
(* Every step keeps the invariant *)

LEMMA KnownClusters ==
  ASSUME ClustersKnown
  PROVE  /\ Len(service_cluster) \in Nat /\ DOMAIN service_cluster = 1..Len(service_cluster)
         /\ Len(service_cluster) <= Cardinality(Name) /\ DOMAIN service_cluster \subseteq Cluster
<1>1. /\ service_cluster \in Seq(Name) /\ Len(service_cluster) \in Nat
      /\ DOMAIN service_cluster = 1..Len(service_cluster)
  BY LenProperties DEF ClustersKnown
<1>2. service_cluster \in [1..Len(service_cluster) -> Name]
  BY <1>1, LenProperties
<1>3. service_cluster \in Injection(1..Len(service_cluster), Name)
  BY <1>1, <1>2 DEF ClustersKnown, Injection, IsInjective
<1>4. Cardinality(1..Len(service_cluster)) <= Cardinality(Name)
  BY <1>3, FS_Injection, ServicesAssumption
<1>5. Cardinality(1..Len(service_cluster)) = Len(service_cluster)
  BY <1>1, FS_Interval
<1>6. Cardinality(Name) \in Nat
  BY FS_CardinalityType, ServicesAssumption
<1> QED
  BY <1>1, <1>4, <1>5, <1>6, ServicesAssumption

\* A request works on the tables, as one of the views says.
LEMMA RequestKeeps ==
  ASSUME Tables, TemplatesHold,
         \/ \E sc \in Cluster : Container(sc) \/ Instance(sc)
         \/ \E id \in DOMAIN tmpl, sc \in Cluster : Update(id, sc)
         \/ \E ids \in SUBSET DOMAIN tmpl : Delete(ids) \/ DeleteUnseen(ids)
  PROVE  KeepsTables /\ Tables' /\ TemplatesHold'
<1>1. Parts \subseteq 1..4
  BY TemplateAssumption
<1>3. ASSUME NEW sc \in Cluster, NEW n \in Parts, CreateContainer(sc, n)
      PROVE  KeepsTables /\ Tables' /\ TemplatesHold'
  <2>1. n \in 1..4
    BY <1>1
  <2>2. PairAdded(sc, n) /\ Tables'
    BY <1>3, <2>1, CreateContainerAdds
  <2> QED
    BY <2>1, <2>2, PairAddedKeeps
<1>4. ASSUME NEW sc \in Cluster, NEW n \in Parts, CreateContainerPanics(sc, n)
      PROVE  KeepsTables /\ Tables' /\ TemplatesHold'
  <2>1. n \in 1..4
    BY <1>1
  <2>2. PairAdded(sc, n) /\ Tables'
    BY <1>4, <2>1, CreateContainerPanicsAdds
  <2> QED
    BY <2>1, <2>2, PairAddedKeeps
<1>5. ASSUME NEW sc \in Cluster, Instance(sc)
      PROVE  KeepsTables /\ Tables' /\ TemplatesHold'
  <2>1. DeployAdded(sc, {}) /\ Tables'
    BY <1>5, InstanceAdds
  <2> QED
    BY <2>1, DeployAddedKeeps
<1>6. ASSUME NEW id \in DOMAIN tmpl, NEW sc \in Cluster, NEW n \in Parts, UpdateContainer(id, sc, n)
      PROVE  KeepsTables /\ Tables' /\ TemplatesHold'
  <2>1. n \in 1..4
    BY <1>1
  <2>2. PairRegrouped(id, tmpl[id].reverse, sc, n) /\ Tables'
    BY <1>6, <2>1, UpdateContainerRegroups DEF TemplatesHold
  <2>3. tmpl[id].reverse \in DOMAIN tmpl
    BY <1>6 DEF UpdateContainer, Live
  <2> QED
    BY <2>1, <2>2, <2>3, PairRegroupedKeeps
<1>7. ASSUME NEW id \in DOMAIN tmpl, NEW sc \in Cluster, NEW n \in Parts,
             UpdateContainerPanics(id, sc, n)
      PROVE  KeepsTables /\ Tables' /\ TemplatesHold'
  <2>1. n \in 1..4
    BY <1>1
  <2>2. PairFlagged(id, sc, n) /\ Tables'
    BY <1>7, <2>1, UpdateContainerPanicsFlags
  <2> QED
    BY <2>1, <2>2, PairFlaggedKeeps
<1>8. ASSUME NEW id \in DOMAIN tmpl, NEW sc \in Cluster,
             UpdateInstance(id, sc) \/ UpdateInstanceFails(id, sc)
      PROVE  KeepsTables /\ Tables' /\ TemplatesHold'
  <2>1. DeployAdded(sc, {id}) /\ Tables'
    BY <1>8, UpdateInstanceAdds
  <2> QED
    BY <2>1, DeployAddedKeeps
<1>9. ASSUME NEW ids \in SUBSET DOMAIN tmpl, Delete(ids)
      PROVE  KeepsTables /\ Tables' /\ TemplatesHold'
  <2>1. PairsDropped(ids) /\ Tables'
    BY <1>9, DeleteDrops
  <2> QED
    BY <2>1, PairsDroppedKeeps
<1>10. ASSUME NEW ids \in SUBSET DOMAIN tmpl, DeleteUnseen(ids)
       PROVE  KeepsTables /\ Tables' /\ TemplatesHold'
  <2>1. HalvesDropped(ids) /\ Tables'
    BY <1>10, DeleteUnseenDrops
  <2> QED
    BY <2>1, HalvesDroppedKeeps
<1>11. ASSUME NEW sc \in Cluster, Container(sc)
       PROVE  KeepsTables /\ Tables' /\ TemplatesHold'
  BY <1>3, <1>4, <1>11 DEF Container
<1>12. ASSUME NEW id \in DOMAIN tmpl, NEW sc \in Cluster, Update(id, sc)
       PROVE  KeepsTables /\ Tables' /\ TemplatesHold'
  BY <1>6, <1>7, <1>8, <1>12 DEF Update
<1> QED
  BY <1>5, <1>9, <1>10, <1>11, <1>12

\* Nothing but the answer and the tasks.
LEMMA TablesStill ==
  ASSUME Tables, TemplatesHold, UNCHANGED <<tmpl, instr, bound, torn>>,
         reply' \in {"none", "ok", "error"}
  PROVE  Tables' /\ TemplatesHold'
<1>1. Tables'
  BY DEF Tables
<1>2. Pairs'
  BY DEF TemplatesHold, Pairs, PairedAt, Coupled
<1>3. AllOwn'
  BY DEF TemplatesHold, AllOwn, Owns
<1>4. AllFit'
  BY DEF TemplatesHold, AllFit, Fits, InStep
<1>5. BoundHasTemplate'
  BY DEF TemplatesHold, BoundHasTemplate, Live
<1> QED
  BY <1>1, <1>2, <1>3, <1>4, <1>5 DEF TemplatesHold

LEMMA ServicesInvInit ==
  ASSUME InitServices
  PROVE  ServicesInv
<1>1. /\ tmpl = <<>> /\ instr = <<>> /\ bound = {} /\ torn = {} /\ reply = "none" /\ job = NoJob
      /\ service = [name \in Name |-> "none"] /\ service_cluster = <<>>
      /\ running = [k \in 1..MaxTask |-> 0] /\ looked = [c \in Caller |-> 0]
  BY DEF InitServices, Init
<1>2. Tables
  BY <1>1, TemplateAssumption DEF Tables
<1>3. TemplatesHold
  <2>1. DOMAIN tmpl = {}
    BY <1>1
  <2> QED
    BY <1>1, <2>1 DEF TemplatesHold, Pairs, AllOwn, AllFit, BoundHasTemplate
<1>4. JobFits
  BY <1>1 DEF JobFits, NoJob
<1>5. ClustersKnown
  <2>1. DOMAIN service_cluster = {}
    BY <1>1
  <2> QED
    BY <1>1, <2>1 DEF ClustersKnown
<1>6. RunsFirst
  <2>1. DOMAIN tmpl = {}
    BY <1>1
  <2>2. /\ running \in [1..MaxTask -> 0..MaxTmpl] /\ looked \in [Caller -> {0} \cup Cluster]
        /\ \A k \in 1..MaxTask : running[k] = 0
    BY <1>1, TemplateAssumption
  <2> QED
    BY <2>1, <2>2 DEF RunsFirst
<1>7. TasksWithinCallers
  <2>1. ASSUME NEW sc \in Cluster
        PROVE  Cardinality(TasksOf(sc)) + Cardinality(AboutToStart(sc)) <= Cardinality(Caller)
    <3>1. TasksOf(sc) = {}
      BY <1>1 DEF TasksOf, GetAllTmplsBySvcClusterId
    <3>2. Cardinality(TasksOf(sc)) = 0
      BY <3>1, FS_EmptySet
    <3> QED
      BY <3>2, CountsFinite
  <2> QED
    BY <2>1 DEF TasksWithinCallers
<1> QED
  BY <1>2, <1>3, <1>4, <1>5, <1>6, <1>7 DEF ServicesInv, TasksHold

LEMMA JobStill ==
  ASSUME JobFits, UNCHANGED <<tmpl, instr, job, torn>>
  PROVE  JobFits'
  BY DEF JobFits, MayRun

LEMMA RunsStill ==
  ASSUME TasksHold, UNCHANGED tmpl, UNCHANGED taskVars
  PROVE  TasksHold'
<1>1. RunsFirst'
  BY DEF TasksHold, RunsFirst, Live, taskVars
<1>2. \A sc \in Cluster : TasksOf(sc)' = TasksOf(sc) /\ AboutToStart(sc)' = AboutToStart(sc)
  BY DEF TasksOf, AboutToStart, GetAllTmplsBySvcClusterId, Live, taskVars
<1> QED
  BY <1>1, <1>2, CountsKept DEF TasksHold

LEMMA ClustersStill ==
  ASSUME ClustersKnown, UNCHANGED serviceVars
  PROVE  ClustersKnown'
  BY DEF ClustersKnown, serviceVars

LEMMA CreateServiceInv ==
  ASSUME ServicesInv, NEW name \in Name, CreateService(name)
  PROVE  ServicesInv'
<1>1. /\ service[name] = "none" /\ GetServiceClusters(name) = {}
      /\ service' = [service EXCEPT ![name] = "live"]
      /\ service_cluster' = Append(service_cluster, name)
      /\ UNCHANGED <<tmpl, instr, bound, job, reply, torn>> /\ UNCHANGED taskVars
  BY DEF CreateService, vars
<1>2. Tables /\ TemplatesHold /\ JobFits /\ ClustersKnown /\ TasksHold
  BY DEF ServicesInv
<1>3. Tables' /\ TemplatesHold'
  BY <1>1, <1>2, TablesStill DEF Tables
<1>4. JobFits' /\ TasksHold'
  BY <1>1, <1>2, JobStill, RunsStill
<1>5. ClustersKnown'
  <2>1. /\ service_cluster \in Seq(Name) /\ Len(service_cluster) \in Nat
        /\ DOMAIN service_cluster = 1..Len(service_cluster)
    BY <1>2, KnownClusters DEF ClustersKnown
  <2>2. /\ service_cluster' \in Seq(Name)
        /\ Len(service_cluster') = Len(service_cluster) + 1
        /\ \A i \in 1..Len(service_cluster) : service_cluster'[i] = service_cluster[i]
        /\ service_cluster'[Len(service_cluster) + 1] = name
    BY <1>1, <2>1, AppendProperties
  <2>3. DOMAIN service_cluster' = 1..(Len(service_cluster) + 1)
    BY <2>2, LenProperties
  <2>4. \A i \in DOMAIN service_cluster : service_cluster[i] # name
    BY <1>1 DEF GetServiceClusters
  <2>5. \A i, j \in DOMAIN service_cluster' : service_cluster'[i] = service_cluster'[j] => i = j
    BY <1>2, <2>1, <2>2, <2>3, <2>4 DEF ClustersKnown
  <2>6. ASSUME NEW other \in Name
        PROVE  service'[other] = "none" <=> \A i \in DOMAIN service_cluster' : service_cluster'[i] # other
    <3>1. CASE other = name
      BY <1>1, <1>2, <2>1, <2>2, <2>3, <3>1 DEF ClustersKnown
    <3>2. CASE other # name
      <4>1. service'[other] = service[other]
        BY <1>1, <1>2, <3>2 DEF ClustersKnown
      <4>2. (\A i \in DOMAIN service_cluster' : service_cluster'[i] # other)
               <=> (\A i \in DOMAIN service_cluster : service_cluster[i] # other)
        BY <2>1, <2>2, <2>3, <3>2
      <4> QED
        BY <1>2, <4>1, <4>2 DEF ClustersKnown
    <3> QED
      BY <3>1, <3>2
  <2>7. service' \in [Name -> {"none", "live", "deleted"}]
    BY <1>1, <1>2 DEF ClustersKnown
  <2> QED
    BY <2>2, <2>5, <2>6, <2>7 DEF ClustersKnown
<1> QED
  BY <1>3, <1>4, <1>5 DEF ServicesInv

LEMMA CreateServiceFailsInv ==
  ASSUME ServicesInv, NEW name \in Name, CreateServiceFails(name)
  PROVE  ServicesInv'
<1>1. /\ reply' = "error" /\ service' = service
      /\ UNCHANGED <<tmpl, instr, bound, job, torn, service_cluster>> /\ UNCHANGED taskVars
  BY DEF CreateServiceFails, RolledBack
<1>2. Tables /\ TemplatesHold /\ JobFits /\ ClustersKnown /\ TasksHold
  BY DEF ServicesInv
<1>3. Tables' /\ TemplatesHold'
  BY <1>1, <1>2, TablesStill
<1>4. JobFits' /\ TasksHold' /\ ClustersKnown'
  BY <1>1, <1>2, JobStill, RunsStill, ClustersStill DEF serviceVars
<1> QED
  BY <1>3, <1>4 DEF ServicesInv

LEMMA DeleteServicesInv ==
  ASSUME ServicesInv, NEW names \in SUBSET {name \in Name : service[name] = "live"},
         DeleteServices(names)
  PROVE  ServicesInv'
<1>1. /\ service' = [name \in Name |-> IF name \in names THEN "deleted" ELSE service[name]]
      /\ UNCHANGED <<tmpl, instr, bound, job, reply, torn, service_cluster>> /\ UNCHANGED taskVars
  BY DEF DeleteServices, vars
<1>2. Tables /\ TemplatesHold /\ JobFits /\ ClustersKnown /\ TasksHold
  BY DEF ServicesInv
<1>3. Tables' /\ TemplatesHold'
  BY <1>1, <1>2, TablesStill DEF Tables
<1>4. JobFits' /\ TasksHold'
  BY <1>1, <1>2, JobStill, RunsStill
<1>5. service' \in [Name -> {"none", "live", "deleted"}]
  BY <1>1, <1>2 DEF ClustersKnown
<1>6. ASSUME NEW name \in Name PROVE service'[name] = "none" <=> service[name] = "none"
  BY <1>1
<1>7. ClustersKnown'
  BY <1>1, <1>2, <1>5, <1>6 DEF ClustersKnown
<1> QED
  BY <1>3, <1>4, <1>7 DEF ServicesInv

LEMMA Associates ==
  ASSUME NEW S, NEW s \in Seq(S), NEW t \in Seq(S), NEW u \in Seq(S)
  PROVE  Then(Then(s, t), u) = Then(s, Then(t, u))
  BY ConcatAssociative DEF Then

\* The instruction that was run goes from what is left to what was run.
LEMMA PlanStays ==
  ASSUME NEW S, NEW ran \in Seq(S), NEW left \in Seq(Nat), left # <<>>, NEW rows,
         \A k \in DOMAIN left : rows[left[k]].action \in S
  PROVE  Append(ran, rows[Head(left)].action) \o ActionsIn(rows, Tail(left))
            = ran \o ActionsIn(rows, left)
<1>1. Len(left) \in Nat /\ DOMAIN left = 1..Len(left) /\ Len(left) > 0
  BY EmptySeq, LenProperties
<1>2. PICK rest : rest = Tail(left)
  OBVIOUS
<1>3. /\ rest \in Seq(Nat) /\ Len(rest) = Len(left) - 1
      /\ \A k \in 1..Len(rest) : rest[k] = left[k + 1]
  BY <1>2, HeadTailProperties
<1>4. DOMAIN rest = 1..Len(rest) /\ Len(rest) \in Nat
  BY <1>3, LenProperties
<1>5. PICK acts : acts = ActionsIn(rows, left)
  OBVIOUS
<1>6. PICK later : later = ActionsIn(rows, rest)
  OBVIOUS
<1>7. acts \in [1..Len(left) -> S] /\ \A k \in 1..Len(left) : acts[k] = rows[left[k]].action
  BY <1>1, <1>5 DEF ActionsIn
<1>8. \A k \in 1..Len(rest) : k + 1 \in 1..Len(left)
  BY <1>1, <1>3
<1>9. later \in [1..Len(rest) -> S] /\ \A k \in 1..Len(rest) : later[k] = acts[k + 1]
  BY <1>3, <1>4, <1>6, <1>7, <1>8, <1>1 DEF ActionsIn
<1>10. /\ acts \in Seq(S) /\ Len(acts) = Len(left)
       /\ later \in Seq(S) /\ Len(later) = Len(left) - 1
  BY <1>1, <1>3, <1>4, <1>7, <1>9, FunctionIsSeq
<1>11. PICK a : a = rows[Head(left)].action
  OBVIOUS
<1>12. Head(left) = left[1] /\ 1 \in 1..Len(left)
  BY <1>1
<1>13. a \in S /\ acts[1] = a
  BY <1>1, <1>7, <1>11, <1>12
<1>14. PICK one : one = <<a>>
  OBVIOUS
<1>15. one \in Seq(S) /\ Len(one) = 1 /\ one[1] = a
  BY <1>13, <1>14
<1>16. Append(ran, a) = Then(ran, one)
  BY <1>13, <1>14, AppendIsConcat DEF Then
<1>17. Then(Then(ran, one), later) = Then(ran, Then(one, later))
  <2>1. ran \in Seq(S) /\ one \in Seq(S) /\ later \in Seq(S)
    BY <1>10, <1>15
  <2> QED
    BY <2>1, Associates
<1>18. Then(one, later) = acts
  <2>1. PICK both : both = Then(one, later)
    OBVIOUS
  <2>2. both \in Seq(S) /\ Len(both) = Len(one) + Len(later)
    BY <1>10, <1>15, <2>1, Joined
  <2>3. \A k \in 1..Len(one) : both[k] = one[k]
    BY <1>10, <1>15, <2>1, Joined
  <2>4. \A k \in 1..Len(later) : both[Len(one) + k] = later[k]
    <3>1. one \in Seq(S) /\ later \in Seq(S)
      BY <1>10, <1>15
    <3>2. \A k \in 1..Len(later) : Then(one, later)[Len(one) + k] = later[k]
      BY <3>1, Joined
    <3> QED
      BY <2>1, <3>2
  <2>5. Len(both) = Len(acts)
    BY <1>1, <1>10, <1>15, <2>2
  <2>6. ASSUME NEW k \in 1..Len(both) PROVE both[k] = acts[k]
    <3>1. CASE k = 1
      BY <1>13, <1>15, <2>3, <3>1
    <3>2. CASE k # 1
      <4>1. k - 1 \in 1..Len(later) /\ 1 + (k - 1) = k /\ (k - 1) + 1 = k
        BY <1>1, <1>10, <2>5, <3>2
      <4>2. both[k] = later[k - 1]
        BY <1>15, <2>4, <4>1
      <4>3. later[k - 1] = acts[k]
        BY <1>3, <1>9, <1>10, <4>1
      <4> QED
        BY <4>2, <4>3
    <3> QED
      BY <3>1, <3>2
  <2>7. both = acts
    BY <1>10, <2>2, <2>5, <2>6, SeqEqual
  <2> QED
    BY <2>1, <2>7
<1>19. Then(Append(ran, a), later) = Then(ran, acts)
  BY <1>16, <1>17, <1>18
<1> QED
  BY <1>2, <1>5, <1>6, <1>11, <1>19 DEF Then

LEMMA RunInstrJob ==
  ASSUME Tables, JobFits, RunInstr
  PROVE  JobFits'
<1>1. /\ job.left # <<>>
      /\ job' = [job EXCEPT !.left = Tail(job.left),
                            !.ran = Append(job.ran, instr[Head(job.left)].action)]
      /\ UNCHANGED <<tmpl, instr, torn>>
  BY DEF RunInstr, GetInstr
<1>2. PICK left : left = job.left
  OBVIOUS
<1>3. PICK ran : ran = job.ran
  OBVIOUS
<1>4. /\ job \in [tmpl : Nat, left : Seq(Nat), ran : Seq(ActionName)]
      /\ job.tmpl \in DOMAIN tmpl
      /\ \A k \in DOMAIN left : left[k] \in DOMAIN instr
      /\ MayRun(tmpl[job.tmpl], ran \o ActionsIn(instr, left))
  BY <1>1, <1>2, <1>3 DEF JobFits
<1>5. left \in Seq(Nat) /\ ran \in Seq(ActionName) /\ left # <<>>
  BY <1>1, <1>2, <1>3, <1>4
<1>6. \A k \in DOMAIN left : instr[left[k]].action \in ActionName
  <2>1. \A i \in DOMAIN instr : instr[i] \in InstrRow
    BY TableFacts
  <2> QED
    BY <2>1, <1>4 DEF InstrRow
<1>7. PICK rest : rest = Tail(left)
  OBVIOUS
<1>8. PICK more : more = Append(ran, instr[Head(left)].action)
  OBVIOUS
<1>9. more \o ActionsIn(instr, rest) = ran \o ActionsIn(instr, left)
  BY <1>5, <1>6, <1>7, <1>8, PlanStays
<1>10. DOMAIN left = 1..Len(left) /\ Len(left) \in Nat /\ Len(left) > 0 /\ Head(left) = left[1]
  BY <1>5, EmptySeq, LenProperties
<1>11. /\ rest \in Seq(Nat) /\ Len(rest) = Len(left) - 1
       /\ \A k \in 1..Len(rest) : rest[k] = left[k + 1]
  BY <1>5, <1>7, HeadTailProperties
<1>12. \A k \in DOMAIN rest : rest[k] \in DOMAIN instr
  <2>1. DOMAIN rest = 1..Len(rest)
    BY <1>11, LenProperties
  <2>2. \A k \in 1..Len(rest) : k + 1 \in 1..Len(left)
    BY <1>10, <1>11
  <2> QED
    BY <1>4, <1>10, <1>11, <2>1, <2>2
<1>13. more \in Seq(ActionName)
  <2>1. instr[Head(left)].action \in ActionName
    <3>1. 1 \in DOMAIN left
      BY <1>10
    <3> QED
      BY <1>6, <1>10, <3>1
  <2> QED
    BY <1>5, <1>8, <2>1, AppendProperties
<1>14. /\ job' \in [tmpl : Nat, left : Seq(Nat), ran : Seq(ActionName)]
       /\ job'.tmpl = job.tmpl /\ job'.left = rest /\ job'.ran = more
  <2>1. job' = [job EXCEPT !.left = rest, !.ran = more]
    BY <1>1, <1>2, <1>3, <1>7, <1>8
  <2> QED
    BY <2>1, <1>4, <1>11, <1>13
<1>15. MayRun(tmpl[job.tmpl], more \o ActionsIn(instr, rest))
  BY <1>4, <1>9
<1> QED
  BY <1>1, <1>4, <1>12, <1>14, <1>15 DEF JobFits, MayRun

LEMMA LeastId ==
  ASSUME NEW S, S \subseteq Nat, S # {}
  PROVE  \E b \in S : \A c \in S : b <= c
<1>1. IsWellFoundedOn(OpToRel(<, Nat), Nat)
  BY NatLessThanWellFounded
<1>2. PICK b \in S : \A c \in S : ~ (<<c, b>> \in OpToRel(<, Nat))
  BY <1>1, WFMin, Zenon
<1>3. \A c \in S : ~ (c < b)
  BY <1>2 DEF OpToRel
<1> QED
  BY <1>3

\* The template a task finds.
LEMMA FoundIsFirst ==
  ASSUME Tables, NEW sc, NEW type, Candidates(sc, type) # {}
  PROVE  LET id == GetSchedTmplBySvcClusterId(sc, type) IN
         /\ id \in DOMAIN tmpl /\ ~tmpl[id].deleted
         /\ tmpl[id].cluster = sc /\ tmpl[id].type = type
         /\ \A k \in Candidates(sc, type) : id <= k
<1>1. Candidates(sc, type) \subseteq Nat
  <2>1. DOMAIN tmpl \subseteq Nat
    BY TableFacts
  <2> QED
    BY <2>1 DEF Candidates
<1>2. \E b \in Candidates(sc, type) : \A c \in Candidates(sc, type) : b <= c
  BY <1>1, LeastId
<1>3. PICK id : id = GetSchedTmplBySvcClusterId(sc, type)
  OBVIOUS
<1>4. id \in Candidates(sc, type) /\ \A c \in Candidates(sc, type) : id <= c
  BY <1>2, <1>3 DEF GetSchedTmplBySvcClusterId
<1> QED
  BY <1>3, <1>4 DEF Candidates, Live

\* What a readable group of a template promises to the task that reads it.
LEMMA GroupIsPlan ==
  ASSUME Tables, TemplatesHold, NEW id \in DOMAIN tmpl, tmpl[id].group # <<>>
  PROVE  MayRun(tmpl[id], ActionsIn(instr, tmpl[id].group))
<1>1. PICK acts : acts = ActionsIn(instr, tmpl[id].group)
  OBVIOUS
<1>2. tmpl[id].type \in {"expand", "shrink", "deploy"}
  <2>1. tmpl[id] \in TmplRow
    BY TableFacts
  <2> QED
    BY <2>1 DEF TmplRow, Types
<1>3. CASE tmpl[id].type = "expand"
  <2>1. \/ \E n \in 1..4 : acts = SubSeq(ExpandStep, 1, n)
        \/ tmpl[id].cluster \in torn /\ \E n \in 1..4 : acts = ShrinkOf(n)
    BY <1>1, <1>3 DEF TemplatesHold, AllFit, Fits, InStep
  <2>2. PlanOf("expand", acts) \/ (tmpl[id].cluster \in torn /\ PlanOf("shrink", acts))
    BY <2>1 DEF PlanOf
  <2> QED
    BY <1>1, <1>3, <2>2 DEF MayRun
<1>4. CASE tmpl[id].type = "shrink"
  <2>1. id - 1 \in DOMAIN tmpl /\ tmpl[id - 1].type = "expand"
    BY <1>4 DEF TemplatesHold, Pairs, PairedAt
  <2>2. (id - 1) + 1 = id
    BY TableFacts
  <2>3. Fits(id - 1) /\ tmpl[id].cluster = tmpl[id - 1].cluster
    <3>1. Coupled(id - 1)
      BY <2>1 DEF TemplatesHold, Pairs, PairedAt
    <3> QED
      BY <2>1, <2>2, <3>1 DEF TemplatesHold, AllFit, Coupled
  <2>4. \/ \E n \in 1..4 : acts = ShrinkOf(n)
        \/ tmpl[id].cluster \in torn /\ \E n \in 1..4 : acts = SubSeq(ExpandStep, 1, n)
    BY <1>1, <2>1, <2>2, <2>3 DEF Fits, InStep
  <2>5. PlanOf("shrink", acts) \/ (tmpl[id].cluster \in torn /\ PlanOf("expand", acts))
    BY <2>4 DEF PlanOf
  <2> QED
    BY <1>1, <1>4, <2>5 DEF MayRun
<1>5. CASE tmpl[id].type = "deploy"
  <2>1. acts = InstanceDeploySteps
    BY <1>1, <1>5 DEF TemplatesHold, AllFit, Fits
  <2>2. PlanOf(tmpl[id].type, acts)
    BY <1>5, <2>1 DEF PlanOf
  <2> QED
    BY <1>1, <2>2 DEF MayRun
<1> QED
  BY <1>2, <1>3, <1>4, <1>5

LEMMA OneCluster ==
  ASSUME ClustersKnown, NEW name \in Name
  PROVE  GetServiceClusters(name) = {} \/ \E sc \in DOMAIN service_cluster :
                                             GetServiceClusters(name) = {sc}
  BY DEF ClustersKnown, GetServiceClusters

LEMMA FirstIs ==
  ASSUME NEW ids, ids \subseteq Nat, ids # {}
  PROVE  /\ QueryFirst(ids) \in ids
         /\ \A other \in ids : QueryFirst(ids) <= other
<1>1. \E b \in ids : \A c \in ids : b <= c
  BY LeastId
<1> QED
  BY <1>1 DEF QueryFirst

LEMMA SchedulingInv ==
  ASSUME ServicesInv, NEW c \in Careful, NEW name \in Name, Scheduling(c, name)
  PROVE  ServicesInv'
<1>1. /\ GetAllTmplsBySvcClusterId(GetServiceClusters(name)) # {} /\ ~HasRunningTask(name)
      /\ looked' = [looked EXCEPT ![c] = QueryFirst(GetServiceClusters(name))]
      /\ running' = running
      /\ UNCHANGED <<tmpl, instr, bound, job, reply, torn>> /\ UNCHANGED serviceVars
  BY DEF Scheduling, vars
<1>2. Tables /\ TemplatesHold /\ JobFits /\ ClustersKnown /\ RunsFirst /\ TasksWithinCallers
  BY DEF ServicesInv, TasksHold
<1>3. Tables' /\ TemplatesHold'
  BY <1>1, <1>2, TablesStill DEF Tables
<1>4. JobFits' /\ ClustersKnown'
  BY <1>1, <1>2, JobStill, ClustersStill
<1>5. PICK at \in DOMAIN service_cluster : GetServiceClusters(name) = {at}
  <2>1. GetServiceClusters(name) # {}
    BY <1>1 DEF GetAllTmplsBySvcClusterId
  <2> QED
    BY <1>2, <2>1, OneCluster
<1>6. at \in Cluster /\ QueryFirst(GetServiceClusters(name)) = at
  <2>1. at \in Nat /\ at \in Cluster
    BY <1>2, KnownClusters
  <2>2. QueryFirst({at}) \in {at}
    BY <2>1, FirstIs
  <2> QED
    BY <1>5, <2>1, <2>2
<1>7. c \in Caller
  BY ServicesAssumption
<1>8. RunsFirst'
  <2>1. looked' \in [Caller -> {0} \cup Cluster]
    BY <1>1, <1>2, <1>6 DEF RunsFirst
  <2> QED
    BY <1>1, <1>2, <2>1 DEF RunsFirst, Live
<1>9. TasksWithinCallers'
  <2>1. ASSUME NEW sc \in Cluster, Careful = Caller
        PROVE  Cardinality(TasksOf(sc)') + Cardinality(AboutToStart(sc)') <= Cardinality(Caller)
    <3>1. TasksOf(sc)' = TasksOf(sc)
      BY <1>1 DEF TasksOf, GetAllTmplsBySvcClusterId, Live
    <3>2. CASE sc = at
      <4>1. TasksOf(sc) = {}
        BY <1>1, <1>5, <3>2 DEF HasRunningTask, TasksOf
      <4>2. Cardinality(TasksOf(sc)') = 0
        BY <3>1, <4>1, FS_EmptySet
      <4>3. AboutToStart(sc)' \subseteq Caller
        BY DEF AboutToStart
      <4>4. PICK A : A = AboutToStart(sc)'
        OBVIOUS
      <4>5. Cardinality(A) \in Nat /\ Cardinality(A) <= Cardinality(Caller)
        BY <4>3, <4>4, Fewer, ServicesAssumption
      <4> QED
        BY <4>2, <4>4, <4>5
    <3>3. CASE sc # at
      <4>1. AboutToStart(sc)' \subseteq AboutToStart(sc)
        BY <1>1, <1>2, <1>6, <1>7, <3>3 DEF AboutToStart, RunsFirst
      <4>2. PICK A, B, T : A = AboutToStart(sc)' /\ B = AboutToStart(sc) /\ T = TasksOf(sc)
        OBVIOUS
      <4>3. IsFiniteSet(B) /\ Cardinality(B) \in Nat /\ Cardinality(T) \in Nat
            /\ Cardinality(Caller) \in Nat
        BY <4>2, CountsFinite
      <4>4. Cardinality(A) \in Nat /\ Cardinality(A) <= Cardinality(B)
        BY <4>1, <4>2, <4>3, Fewer
      <4>5. Cardinality(T) + Cardinality(B) <= Cardinality(Caller)
        BY <1>2, <2>1, <4>2 DEF TasksWithinCallers
      <4>6. Cardinality(T) + Cardinality(A) <= Cardinality(Caller)
        BY <4>3, <4>4, <4>5
      <4> QED
        BY <3>1, <4>2, <4>6
    <3> QED
      BY <3>2, <3>3
  <2> QED
    BY <2>1 DEF TasksWithinCallers
<1> QED
  BY <1>3, <1>4, <1>8, <1>9 DEF ServicesInv, TasksHold

LEMMA ForgoesInv ==
  ASSUME ServicesInv, NEW c \in Caller, Forgoes(c)
  PROVE  ServicesInv'
<1>1. /\ looked' = [looked EXCEPT ![c] = 0] /\ running' = running
      /\ UNCHANGED <<tmpl, instr, bound, job, reply, torn>> /\ UNCHANGED serviceVars
  BY DEF Forgoes, vars
<1>2. Tables /\ TemplatesHold /\ JobFits /\ ClustersKnown /\ RunsFirst /\ TasksWithinCallers
  BY DEF ServicesInv, TasksHold
<1>3. Tables' /\ TemplatesHold'
  BY <1>1, <1>2, TablesStill DEF Tables
<1>4. JobFits' /\ ClustersKnown'
  BY <1>1, <1>2, JobStill, ClustersStill
<1>5. RunsFirst'
  <2>1. looked' \in [Caller -> {0} \cup Cluster]
    BY <1>1, <1>2 DEF RunsFirst
  <2> QED
    BY <1>1, <1>2, <2>1 DEF RunsFirst, Live
<1>6. ASSUME NEW sc \in Cluster
      PROVE  TasksOf(sc)' \subseteq TasksOf(sc) /\ AboutToStart(sc)' \subseteq AboutToStart(sc)
  <2>1. sc # 0
    BY ServicesAssumption
  <2>2. AboutToStart(sc)' \subseteq AboutToStart(sc)
    BY <1>1, <1>2, <2>1 DEF AboutToStart, RunsFirst
  <2> QED
    BY <1>1, <2>2 DEF TasksOf, GetAllTmplsBySvcClusterId, Live
<1> QED
  BY <1>2, <1>3, <1>4, <1>5, <1>6, CountsKept DEF ServicesInv, TasksHold

LEMMA ScheduleInv ==
  ASSUME ServicesInv, NEW c \in Caller, NEW sc \in Cluster, NEW type, Schedule(c, sc, type)
  PROVE  ServicesInv'
<1>a. PICK id : id = GetSchedTmplBySvcClusterId(sc, type)
  OBVIOUS
<1>1. /\ c \in Careful => looked[c] = sc
      /\ Candidates(sc, type) # {} /\ tmpl[id].group # <<>>
      /\ looked' = [looked EXCEPT ![c] = 0]
      /\ UNCHANGED <<tmpl, instr, bound, reply, torn>> /\ UNCHANGED serviceVars
  BY <1>a DEF Schedule
<1>b. PICK slot \in 1..MaxTask :
        /\ running[slot] = 0
        /\ running' = [running EXCEPT ![slot] = id]
        /\ job' = IF slot = 1 THEN [tmpl |-> id, left |-> tmpl[id].group, ran |-> <<>>] ELSE job
  BY <1>a DEF Schedule, ReadGroup
<1>2. Tables /\ TemplatesHold /\ JobFits /\ ClustersKnown /\ RunsFirst /\ TasksWithinCallers
  BY DEF ServicesInv, TasksHold
<1>3. Tables' /\ TemplatesHold'
  <2>1. reply' \in {"none", "ok", "error"}
    BY <1>1, <1>2 DEF Tables
  <2> QED
    BY <1>1, <1>2, <2>1, TablesStill
<1>4. ClustersKnown'
  BY <1>1, <1>2, ClustersStill
<1>5. /\ id \in DOMAIN tmpl /\ ~tmpl[id].deleted
      /\ tmpl[id].cluster = sc /\ tmpl[id].type = type
      /\ \A k \in Candidates(sc, type) : id <= k
  BY <1>1, <1>2, <1>a, FoundIsFirst
<1>6. /\ DOMAIN tmpl = 1..Len(tmpl) /\ Len(tmpl) \in Nat /\ tmpl[id] \in TmplRow
      /\ DOMAIN tmpl \subseteq 1..MaxTmpl /\ MaxInstr \in Nat
  <2>1. Len(tmpl) <= MaxTmpl /\ MaxTmpl \in Nat
    BY <1>2, TemplateAssumption DEF Tables
  <2> QED
    BY <1>2, <1>5, <2>1, TableFacts
<1>7. ASSUME job' = [tmpl |-> id, left |-> tmpl[id].group, ran |-> <<>>]
      PROVE  JobFits'
  <2>1. PICK g : g = tmpl[id].group
    OBVIOUS
  <2>2. g \in Seq(1..MaxInstr)
    BY <1>6, <2>1 DEF TmplRow
  <2>3. g \in Seq(Nat)
    <3>1. 1..MaxInstr \subseteq Nat
      BY <1>6
    <3> QED
      BY <2>2, <3>1, SeqMonotonic
  <2>4. \A k \in DOMAIN g : g[k] \in DOMAIN instr
    BY <1>2, <1>5, <2>1 DEF TemplatesHold, AllOwn, Owns
  <2>5. PICK acts : acts = ActionsIn(instr, g)
    OBVIOUS
  <2>6. acts \in Seq(ActionName)
    <3>1. DOMAIN g = 1..Len(g) /\ Len(g) \in Nat
      BY <2>3, LenProperties
    <3>2. \A i \in DOMAIN instr : instr[i].action \in ActionName
      BY <1>2, TableFacts DEF InstrRow
    <3>3. acts \in [1..Len(g) -> ActionName]
      BY <2>4, <2>5, <3>1, <3>2 DEF ActionsIn
    <3> QED
      BY <3>1, <3>3, FunctionIsSeq
  <2>7. MayRun(tmpl[id], acts)
    BY <1>1, <1>2, <1>5, <2>1, <2>5, GroupIsPlan
  <2>8. <<>> \o acts = acts
    BY <2>6, ConcatEmptySeq
  <2>9. MayRun(tmpl[id], <<>> \o acts)
    BY <2>7, <2>8
  <2>10. PICK none : none = <<>>
    OBVIOUS
  <2>11. none \in Seq(ActionName) /\ id \in Nat
    BY <1>5, <1>6, <2>10
  <2>12. /\ job' \in [tmpl : Nat, left : Seq(Nat), ran : Seq(ActionName)]
         /\ job'.tmpl = id /\ job'.left = g /\ job'.ran = none
    BY <1>7, <2>1, <2>3, <2>10, <2>11
  <2>13. MayRun(tmpl[id], none \o ActionsIn(instr, g))
    BY <2>5, <2>9, <2>10
  <2> QED
    BY <1>1, <1>5, <2>4, <2>12, <2>13 DEF JobFits, MayRun
<1>8. JobFits'
  <2>1. CASE job' = job
    BY <1>1, <1>2, <2>1, JobStill
  <2> QED
    BY <1>7, <1>b, <2>1
<1>9. /\ running \in [1..MaxTask -> 0..MaxTmpl] /\ looked \in [Caller -> {0} \cup Cluster]
      /\ id \in 0..MaxTmpl
      /\ running'[slot] = id /\ \A k \in 1..MaxTask : k # slot => running'[k] = running[k]
      /\ looked'[c] = 0 /\ \A d \in Caller : d # c => looked'[d] = looked[d]
  BY <1>1, <1>2, <1>5, <1>6, <1>b DEF RunsFirst
<1>10. RunsFirst'
  <2>1. running' \in [1..MaxTask -> 0..MaxTmpl] /\ looked' \in [Caller -> {0} \cup Cluster]
    BY <1>1, <1>9, <1>b
  <2>2. \A k \in 1..MaxTask : running'[k] # 0 => running'[k] \in DOMAIN tmpl
    BY <1>2, <1>5, <1>9 DEF RunsFirst
  <2>3. ASSUME NEW k \in 1..MaxTask, NEW j \in DOMAIN tmpl, NEW i, i = running'[k], Live(i), Live(j),
               tmpl[i].cluster = tmpl[j].cluster, tmpl[i].type = tmpl[j].type
        PROVE  i <= j
    <3>1. CASE k = slot
      <4>1. i = id /\ j \in Candidates(sc, type)
        BY <1>5, <1>9, <2>3, <3>1 DEF Candidates
      <4> QED
        BY <1>5, <4>1
    <3>2. CASE k # slot
      BY <1>2, <1>9, <2>3, <3>2 DEF RunsFirst
    <3> QED
      BY <3>1, <3>2
  <2> QED
    BY <1>1, <2>1, <2>2, <2>3 DEF RunsFirst, Live
<1>11. TasksWithinCallers'
  <2>1. ASSUME NEW at \in Cluster, Careful = Caller
        PROVE  Cardinality(TasksOf(at)') + Cardinality(AboutToStart(at)') <= Cardinality(Caller)
    <3>1. PICK S, T, A, B : S = TasksOf(at)' /\ T = TasksOf(at) /\ A = AboutToStart(at)' /\ B = AboutToStart(at)
      OBVIOUS
    <3>2. /\ IsFiniteSet(T) /\ Cardinality(T) \in Nat /\ IsFiniteSet(B) /\ Cardinality(B) \in Nat
          /\ Cardinality(Caller) \in Nat
      BY <3>1, CountsFinite
    <3>3. Cardinality(T) + Cardinality(B) <= Cardinality(Caller)
      BY <1>2, <2>1, <3>1 DEF TasksWithinCallers
    <3>4. looked[c] = sc /\ sc # 0 /\ at # 0
      BY <1>1, <2>1, ServicesAssumption
    <3>5. \A k \in 1..MaxTask : k \in T <=> running[k] \in GetAllTmplsBySvcClusterId({at})
      BY <3>1 DEF TasksOf
    <3>6. \A k \in 1..MaxTask : k \in S <=> running'[k] \in GetAllTmplsBySvcClusterId({at})
      BY <1>1, <3>1 DEF TasksOf, GetAllTmplsBySvcClusterId, Live
    <3>7. S \subseteq 1..MaxTask /\ T \subseteq 1..MaxTask
      BY <3>1 DEF TasksOf
    <3>8. A = {d \in Caller : looked'[d] = at} /\ B = {d \in Caller : looked[d] = at}
      BY <3>1 DEF AboutToStart
    <3>9. CASE at = sc
      <4>1. S \subseteq T \cup {slot}
        BY <1>9, <3>5, <3>6, <3>7
      <4>2. A \subseteq B \ {c} /\ c \in B
        BY <1>9, <3>4, <3>8, <3>9
      <4>3. /\ IsFiniteSet(T \cup {slot}) /\ Cardinality(T \cup {slot}) \in Nat
            /\ Cardinality(T \cup {slot}) <= Cardinality(T) + 1
        <5>1. /\ IsFiniteSet(T \cup {slot})
              /\ Cardinality(T \cup {slot}) = IF slot \in T THEN Cardinality(T) ELSE Cardinality(T) + 1
          BY <3>2, FS_AddElement
        <5> QED
          BY <3>2, <5>1
      <4>4. IsFiniteSet(B \ {c}) /\ Cardinality(B \ {c}) = Cardinality(B) - 1
        BY <3>2, <4>2, FS_RemoveElement
      <4>5. Cardinality(S) \in Nat /\ Cardinality(S) <= Cardinality(T \cup {slot})
        BY <4>1, <4>3, Fewer
      <4>6. Cardinality(A) \in Nat /\ Cardinality(A) <= Cardinality(B \ {c})
        BY <4>2, <4>4, Fewer
      <4>7. Cardinality(S) + Cardinality(A) <= Cardinality(Caller)
        BY <3>2, <3>3, <4>3, <4>4, <4>5, <4>6
      <4> QED
        BY <3>1, <4>7
    <3>10. CASE at # sc
      <4>1. id \notin GetAllTmplsBySvcClusterId({at})
        BY <1>5, <3>10 DEF GetAllTmplsBySvcClusterId
      <4>2. S \subseteq T
        BY <1>9, <3>5, <3>6, <3>7, <4>1
      <4>3. A \subseteq B
        BY <1>9, <3>4, <3>8
      <4>4. /\ Cardinality(S) \in Nat /\ Cardinality(S) <= Cardinality(T)
            /\ Cardinality(A) \in Nat /\ Cardinality(A) <= Cardinality(B)
        BY <3>2, <4>2, <4>3, Fewer
      <4>5. Cardinality(S) + Cardinality(A) <= Cardinality(Caller)
        BY <3>2, <3>3, <4>4
      <4> QED
        BY <3>1, <4>5
    <3> QED
      BY <3>9, <3>10
  <2> QED
    BY <2>1 DEF TasksWithinCallers
<1> QED
  BY <1>3, <1>4, <1>8, <1>10, <1>11 DEF ServicesInv, TasksHold

LEMMA TaskEndsInv ==
  ASSUME ServicesInv, NEW slot \in 1..MaxTask, TaskEnds(slot)
  PROVE  ServicesInv'
<1>1. /\ running[slot] # 0 /\ running' = [running EXCEPT ![slot] = 0] /\ looked' = looked
      /\ job' = (IF slot = 1 THEN NoJob ELSE job)
      /\ UNCHANGED <<tmpl, instr, bound, reply, torn>> /\ UNCHANGED serviceVars
  BY DEF TaskEnds
<1>2. Tables /\ TemplatesHold /\ JobFits /\ ClustersKnown /\ RunsFirst /\ TasksWithinCallers
  BY DEF ServicesInv, TasksHold
<1>3. Tables' /\ TemplatesHold'
  <2>1. reply' \in {"none", "ok", "error"}
    BY <1>1, <1>2 DEF Tables
  <2> QED
    BY <1>1, <1>2, <2>1, TablesStill
<1>4. ClustersKnown'
  BY <1>1, <1>2, ClustersStill
<1>5. JobFits'
  <2>1. CASE job' = NoJob
    BY <2>1 DEF JobFits, NoJob
  <2>2. CASE job' = job
    BY <1>1, <1>2, <2>2, JobStill
  <2> QED
    BY <1>1, <2>1, <2>2
<1>6. /\ running' \in [1..MaxTask -> 0..MaxTmpl]
      /\ \A k \in 1..MaxTask : running'[k] = 0 \/ running'[k] = running[k]
  BY <1>1, <1>2, TemplateAssumption DEF RunsFirst
<1>7. 0 \notin DOMAIN tmpl
  BY <1>2, TableFacts
<1>8. RunsFirst'
  BY <1>1, <1>2, <1>6, <1>7 DEF RunsFirst, Live
<1>9. ASSUME NEW sc \in Cluster
      PROVE  TasksOf(sc)' \subseteq TasksOf(sc) /\ AboutToStart(sc)' \subseteq AboutToStart(sc)
  BY <1>1, <1>6, <1>7 DEF TasksOf, AboutToStart, GetAllTmplsBySvcClusterId, Live
<1> QED
  BY <1>2, <1>3, <1>4, <1>5, <1>8, <1>9, CountsKept DEF ServicesInv, TasksHold

LEMMA TemplatesInv ==
  ASSUME ServicesInv, Templates
  PROVE  ServicesInv'
<1>1. Tables /\ TemplatesHold /\ JobFits /\ ClustersKnown /\ TasksHold
  BY DEF ServicesInv
<1>2. UNCHANGED serviceVars /\ UNCHANGED taskVars
  BY DEF Templates
<1>3. ClustersKnown'
  BY <1>1, <1>2, ClustersStill
<1>4. CASE \/ \E sc \in DOMAIN service_cluster :
                 \/ Container(sc) \/ Instance(sc)
                 \/ \E id \in DOMAIN tmpl : Update(id, sc)
           \/ \E ids \in SUBSET DOMAIN tmpl : Delete(ids) \/ DeleteUnseen(ids)
  <2>1. DOMAIN service_cluster \subseteq Cluster
    BY <1>1, KnownClusters
  <2>2. \/ \E sc \in Cluster : Container(sc) \/ Instance(sc)
        \/ \E id \in DOMAIN tmpl, sc \in Cluster : Update(id, sc)
        \/ \E ids \in SUBSET DOMAIN tmpl : Delete(ids) \/ DeleteUnseen(ids)
    BY <1>4, <2>1
  <2>3. KeepsTables /\ Tables' /\ TemplatesHold'
    BY <1>1, <2>2, RequestKeeps
  <2>4. JobFits' /\ TasksHold'
    BY <1>1, <1>2, <2>3, JobKept, RunsKept
  <2> QED
    BY <1>3, <2>3, <2>4 DEF ServicesInv
<1>5. CASE Refused
  <2>1. reply' = "error" /\ UNCHANGED <<tmpl, instr, bound, job, torn>>
    BY <1>5 DEF Refused
  <2> QED
    BY <1>1, <1>2, <1>3, <2>1, TablesStill, JobStill, RunsStill DEF ServicesInv
<1>6. CASE RunInstr
  <2>1. UNCHANGED <<tmpl, instr, bound, reply, torn>>
    BY <1>6 DEF RunInstr
  <2>2. reply' \in {"none", "ok", "error"}
    BY <1>1, <2>1 DEF Tables
  <2> QED
    BY <1>1, <1>2, <1>3, <1>6, <2>1, <2>2, TablesStill, RunInstrJob, RunsStill DEF ServicesInv
<1> QED
  BY <1>4, <1>5, <1>6 DEF Templates

LEMMA ServicesInvNext ==
  ASSUME ServicesInv, [NextServices]_allVars
  PROVE  ServicesInv'
<1>1. CASE NextServices
  BY <1>1, CreateServiceInv, CreateServiceFailsInv, DeleteServicesInv, TemplatesInv, SchedulingInv,
     ScheduleInv, ForgoesInv, TaskEndsInv DEF NextServices
<1>2. CASE UNCHANGED allVars
  <2>1. UNCHANGED <<tmpl, instr, bound, job, reply, torn>> /\ UNCHANGED taskVars /\ UNCHANGED serviceVars
    BY <1>2 DEF allVars, vars
  <2>2. Tables /\ TemplatesHold /\ JobFits /\ ClustersKnown /\ TasksHold
    BY DEF ServicesInv
  <2>3. reply' \in {"none", "ok", "error"}
    BY <2>1, <2>2 DEF Tables
  <2> QED
    BY <2>1, <2>2, <2>3, TablesStill, JobStill, RunsStill, ClustersStill DEF ServicesInv
<1> QED
  BY <1>1, <1>2

-----------------------------------------------------------------------------
(* The properties *)

\* The live halves of a pair whose request was not left half done.
LEMMA WholePair ==
  ASSUME Tables, Pairs, NEW id \in DOMAIN tmpl, Kept(id)
  PROVE  /\ tmpl[id].type = "expand" =>
               /\ id + 1 \in DOMAIN tmpl /\ Live(id + 1) /\ tmpl[id].reverse = id + 1
               /\ tmpl[id + 1].type = "shrink" /\ tmpl[id + 1].cluster = tmpl[id].cluster
               /\ tmpl[id + 1].reverse = id
         /\ tmpl[id].type = "shrink" =>
               /\ id - 1 \in DOMAIN tmpl /\ Live(id - 1) /\ tmpl[id - 1].reverse = id
               /\ tmpl[id - 1].type = "expand" /\ tmpl[id - 1].cluster = tmpl[id].cluster
         /\ tmpl[id].type \in {"expand", "shrink", "deploy"} /\ id \in Nat
         /\ tmpl[id].cluster \in Cluster
<1>1. DOMAIN tmpl = 1..Len(tmpl) /\ tmpl[id] \in TmplRow
  BY TableFacts
<1>2. ~tmpl[id].deleted /\ tmpl[id].cluster \notin torn
  BY DEF Kept, Live
<1>3. ASSUME tmpl[id].type = "expand"
      PROVE  /\ id + 1 \in DOMAIN tmpl /\ Live(id + 1) /\ tmpl[id].reverse = id + 1
             /\ tmpl[id + 1].type = "shrink" /\ tmpl[id + 1].cluster = tmpl[id].cluster
             /\ tmpl[id + 1].reverse = id
  BY <1>2, <1>3 DEF Pairs, PairedAt, Coupled, Live
<1>4. ASSUME tmpl[id].type = "shrink"
      PROVE  /\ id - 1 \in DOMAIN tmpl /\ Live(id - 1) /\ tmpl[id - 1].reverse = id
             /\ tmpl[id - 1].type = "expand" /\ tmpl[id - 1].cluster = tmpl[id].cluster
  <2>1. id - 1 \in DOMAIN tmpl /\ tmpl[id - 1].type = "expand" /\ (id - 1) + 1 = id
    BY <1>1, <1>4 DEF Pairs, PairedAt
  <2>2. Coupled(id - 1)
    BY <2>1 DEF Pairs, PairedAt
  <2> QED
    BY <1>2, <2>1, <2>2 DEF Coupled, Live
<1>5. tmpl[id].type \in {"expand", "shrink", "deploy"} /\ tmpl[id].cluster \in Cluster
  BY <1>1 DEF TmplRow, Types
<1> QED
  BY <1>1, <1>3, <1>4, <1>5

LEMMA InvPairsAreWhole ==
  ASSUME ServicesInv
  PROVE  PairsAreWhole
<1>1. Tables /\ Pairs /\ AllFit
  BY DEF ServicesInv, TemplatesHold
<1>2. \A g : Actions(g) = ActionsIn(instr, g)
  BY DEF Actions, ActionsIn, GetInstr
<1>3. ASSUME NEW rev, NEW id, InStep(instr, tmpl[id].group, tmpl[rev].group) PROVE Undoes(rev, id)
  BY <1>2, <1>3 DEF InStep, Undoes
<1>4. ASSUME NEW id \in DOMAIN tmpl, Live(id), tmpl[id].type = "expand"
      PROVE  LET rev == tmpl[id].reverse IN
             /\ Live(rev) => /\ tmpl[rev].type = "shrink" /\ tmpl[rev].reverse = id
                             /\ tmpl[rev].cluster = tmpl[id].cluster
                             /\ Undoes(rev, id) \/ Undoes(id, rev)
             /\ Kept(id) => Live(rev) /\ Undoes(rev, id)
  <2>1. Coupled(id)
    BY <1>1, <1>4 DEF Pairs, PairedAt
  <2>2. \/ /\ tmpl[id].group = <<>> /\ tmpl[id + 1].group = <<>>
           /\ tmpl[id].reverse = 0 /\ tmpl[id].cluster \in torn
        \/ InStep(instr, tmpl[id].group, tmpl[id + 1].group)
        \/ InStep(instr, tmpl[id + 1].group, tmpl[id].group) /\ tmpl[id].cluster \in torn
    BY <1>1, <1>4 DEF AllFit, Fits
  <2>3. PICK rev : rev = tmpl[id].reverse
    OBVIOUS
  <2>4. ASSUME Live(rev)
        PROVE  /\ tmpl[rev].type = "shrink" /\ tmpl[rev].reverse = id
               /\ tmpl[rev].cluster = tmpl[id].cluster
               /\ Undoes(rev, id) \/ Undoes(id, rev)
    <3>1. 0 \notin DOMAIN tmpl
      BY <1>1, TableFacts
    <3>2. rev = id + 1 /\ rev # 0
      BY <2>1, <2>3, <2>4, <3>1 DEF Coupled, Live
    <3>3. InStep(instr, tmpl[id].group, tmpl[rev].group) \/ InStep(instr, tmpl[rev].group, tmpl[id].group)
      BY <2>2, <2>3, <3>2
    <3>4. Undoes(rev, id) \/ Undoes(id, rev)
      BY <1>3, <3>3
    <3> QED
      BY <2>1, <3>2, <3>4 DEF Coupled
  <2>5. ASSUME Kept(id) PROVE Live(rev) /\ Undoes(rev, id)
    <3>1. tmpl[id].cluster \notin torn
      BY <2>5 DEF Kept
    <3>2. rev = id + 1 /\ Live(rev)
      BY <1>1, <1>4, <2>3, <2>5, WholePair
    <3>3. InStep(instr, tmpl[id].group, tmpl[rev].group)
      BY <2>2, <3>1, <3>2
    <3> QED
      BY <1>3, <3>2, <3>3
  <2> QED
    BY <2>3, <2>4, <2>5
<1> QED
  BY <1>4 DEF PairsAreWhole

LEMMA InvShrinkUndoesExpand ==
  ASSUME ServicesInv
  PROVE  ShrinkUndoesExpand
<1>1. Tables /\ Pairs
  BY DEF ServicesInv, TemplatesHold
<1>2. ASSUME NEW sc \in Cluster \ torn
      PROVE  /\ (Candidates(sc, "expand") = {}) <=> (Candidates(sc, "shrink") = {})
             /\ Candidates(sc, "expand") # {} =>
                   GetSchedTmplBySvcClusterId(sc, "shrink")
                     = tmpl[GetSchedTmplBySvcClusterId(sc, "expand")].reverse
  <2>1. ASSUME NEW e \in Candidates(sc, "expand")
        PROVE  e + 1 \in Candidates(sc, "shrink") /\ tmpl[e].reverse = e + 1 /\ e \in Nat
    <3>1. e \in DOMAIN tmpl /\ Kept(e) /\ tmpl[e].type = "expand" /\ tmpl[e].cluster = sc
      BY <2>1 DEF Candidates, Kept
    <3> QED
      BY <1>1, <3>1, WholePair DEF Candidates
  <2>2. ASSUME NEW s \in Candidates(sc, "shrink")
        PROVE  s - 1 \in Candidates(sc, "expand") /\ s \in Nat
    <3>1. s \in DOMAIN tmpl /\ Kept(s) /\ tmpl[s].type = "shrink" /\ tmpl[s].cluster = sc
      BY <2>2 DEF Candidates, Kept
    <3> QED
      BY <1>1, <3>1, WholePair DEF Candidates
  <2>3. (Candidates(sc, "expand") = {}) <=> (Candidates(sc, "shrink") = {})
    BY <2>1, <2>2
  <2>4. ASSUME Candidates(sc, "expand") # {}
        PROVE  GetSchedTmplBySvcClusterId(sc, "shrink")
                 = tmpl[GetSchedTmplBySvcClusterId(sc, "expand")].reverse
    <3>1. PICK e : e = GetSchedTmplBySvcClusterId(sc, "expand")
      OBVIOUS
    <3>2. PICK s : s = GetSchedTmplBySvcClusterId(sc, "shrink")
      OBVIOUS
    <3>3. e \in Candidates(sc, "expand") /\ \A k \in Candidates(sc, "expand") : e <= k
      BY <1>1, <2>4, <3>1, FoundIsFirst DEF Candidates, Live
    <3>4. s \in Candidates(sc, "shrink") /\ \A k \in Candidates(sc, "shrink") : s <= k
      BY <1>1, <2>3, <2>4, <3>2, FoundIsFirst DEF Candidates, Live
    <3>5. e <= s - 1 /\ s <= e + 1 /\ e \in Nat /\ s \in Nat /\ tmpl[e].reverse = e + 1
      BY <2>1, <2>2, <3>3, <3>4
    <3>6. s = e + 1
      BY <3>5
    <3> QED
      BY <3>1, <3>2, <3>5, <3>6
  <2> QED
    BY <2>3, <2>4
<1> QED
  BY <1>2 DEF ShrinkUndoesExpand

LEMMA InvGroupsAreCurrent ==
  ASSUME ServicesInv
  PROVE  GroupsAreCurrent
<1>1. ASSUME NEW id \in DOMAIN tmpl, Kept(id), NEW k \in Range(tmpl[id].group)
      PROVE  ~instr[k].deleted /\ instr[k].tmpl = id
  <2>1. PICK j \in DOMAIN tmpl[id].group : k = tmpl[id].group[j]
    BY <1>1 DEF Range
  <2> QED
    BY <1>1, <2>1 DEF ServicesInv, TemplatesHold, AllOwn, Owns, Kept
<1> QED
  BY <1>1 DEF GroupsAreCurrent

LEMMA InvTaskKeepsItsGroup ==
  ASSUME ServicesInv
  PROVE  TaskKeepsItsGroup
<1>1. ASSUME job.left # <<>>
      PROVE  MayRun(tmpl[job.tmpl], job.ran \o Actions(job.left))
  <2>1. MayRun(tmpl[job.tmpl], job.ran \o ActionsIn(instr, job.left))
    BY <1>1 DEF ServicesInv, JobFits
  <2>2. Actions(job.left) = ActionsIn(instr, job.left)
    BY DEF Actions, ActionsIn, GetInstr
  <2> QED
    BY <2>1, <2>2
<1> QED
  BY <1>1 DEF TaskKeepsItsGroup

LEMMA InvServicesTypeOK ==
  ASSUME ServicesInv
  PROVE  ServicesTypeOK
<1>1. Tables /\ ClustersKnown /\ RunsFirst
  BY DEF ServicesInv, TasksHold
<1>2. TypeOK
  BY <1>1 DEF TypeOK, Tables, TmplRow
<1>3. Len(service_cluster) <= Cardinality(Name)
  BY <1>1, KnownClusters
<1> QED
  BY <1>1, <1>2, <1>3 DEF ServicesTypeOK, ClustersKnown, RunsFirst

LEMMA InvOneClusterPerService ==
  ASSUME ServicesInv
  PROVE  OneClusterPerService
<1>1. ClustersKnown
  BY DEF ServicesInv
<1>2. ASSUME NEW name \in Name
      PROVE  service[name] = "none" <=> GetServiceClusters(name) = {}
  BY <1>1 DEF ClustersKnown, GetServiceClusters
<1>3. ASSUME NEW name \in Name
      PROVE  Cardinality(GetServiceClusters(name)) = IF service[name] = "none" THEN 0 ELSE 1
  <2>1. CASE GetServiceClusters(name) = {}
    BY <1>2, <2>1, FS_EmptySet
  <2>2. CASE GetServiceClusters(name) # {}
    <3>1. PICK sc \in DOMAIN service_cluster : GetServiceClusters(name) = {sc}
      BY <1>1, <2>2, OneCluster
    <3>2. Cardinality({sc}) = 1
      BY FS_Singleton
    <3> QED
      BY <1>2, <2>2, <3>1, <3>2
  <2> QED
    BY <2>1, <2>2
<1>4. ASSUME NEW name \in Name, service[name] = "live" PROVE name \in GetServiceList
  BY <1>2, <1>4 DEF GetServiceList
<1> QED
  BY <1>3, <1>4 DEF OneClusterPerService

LEMMA InvDetailShowsExpand ==
  ASSUME ServicesInv
  PROVE  DetailShowsExpand
<1>1. Tables /\ Pairs /\ ClustersKnown
  BY DEF ServicesInv, TemplatesHold
<1>2. ASSUME NEW name \in Name, HasDetail(name),
             QueryFirst(GetServiceClusters(name)) \notin torn,
             Candidates(QueryFirst(GetServiceClusters(name)), "deploy") = {}
      PROVE  tmpl[TmplExpandId(name)].type = "expand"
  <2>1. PICK sc \in DOMAIN service_cluster : GetServiceClusters(name) = {sc}
    <3>1. GetServiceClusters(name) # {}
      BY <1>2 DEF HasDetail, GetAllTmplsBySvcClusterId
    <3> QED
      BY <1>1, <3>1, OneCluster
  <2>2. QueryFirst(GetServiceClusters(name)) = sc
    <3>1. DOMAIN service_cluster \subseteq Nat
      BY <1>1, KnownClusters
    <3>2. QueryFirst({sc}) \in {sc}
      BY <2>1, <3>1, FirstIs
    <3> QED
      BY <2>1, <3>2
  <2>3. PICK ids : ids = GetAllTmplsBySvcClusterId({sc})
    OBVIOUS
  <2>4. \A k : k \in ids <=> (k \in DOMAIN tmpl /\ Live(k) /\ tmpl[k].cluster = sc)
    BY <2>3 DEF GetAllTmplsBySvcClusterId
  <2>5. ids # {}
    BY <1>2, <2>1, <2>3 DEF HasDetail
  <2>6. ids \subseteq Nat
    BY <1>1, <2>4, TableFacts
  <2>7. PICK id : id = TmplExpandId(name)
    OBVIOUS
  <2>8. id = QueryFirst(ids)
    BY <2>2, <2>3, <2>7 DEF TmplExpandId
  <2>9. id \in ids /\ \A other \in ids : id <= other
    BY <2>5, <2>6, <2>8, FirstIs
  <2>10. id \in DOMAIN tmpl /\ Kept(id) /\ tmpl[id].cluster = sc
    BY <1>2, <2>2, <2>4, <2>9 DEF Kept
  <2>11. tmpl[id].type # "deploy"
    BY <1>2, <2>2, <2>10 DEF Candidates, Kept
  <2>12. tmpl[id].type # "shrink"
    <3> SUFFICES ASSUME tmpl[id].type = "shrink" PROVE FALSE
      OBVIOUS
    <3>1. id - 1 \in DOMAIN tmpl /\ Live(id - 1) /\ tmpl[id - 1].cluster = sc /\ id \in Nat
      BY <1>1, <2>10, WholePair
    <3>2. id <= id - 1
      BY <2>4, <2>9, <3>1
    <3> QED
      BY <3>1, <3>2
  <2>13. tmpl[id].type \in {"expand", "shrink", "deploy"}
    BY <1>1, <2>10, WholePair
  <2> QED
    BY <2>7, <2>11, <2>12, <2>13
<1> QED
  BY <1>2 DEF DetailShowsExpand

LEMMA InvHistoryShowsRunning ==
  ASSUME ServicesInv
  PROVE  HistoryShowsRunning
<1>1. Tables /\ Pairs /\ RunsFirst
  BY DEF ServicesInv, TemplatesHold, TasksHold
<1>2. ASSUME NEW slot \in 1..MaxTask, NEW id \in DOMAIN tmpl, id = running[slot], Kept(id),
             tmpl[id].type # "deploy"
      PROVE  id \in GetScheduleTempList(tmpl[id].cluster)
  <2>1. PICK sc : sc = tmpl[id].cluster
    OBVIOUS
  <2>2. PICK ids : ids = Candidates(sc, "expand")
    OBVIOUS
  <2>3. \A k : k \in ids <=> (k \in DOMAIN tmpl /\ Live(k) /\ tmpl[k].cluster = sc
                                /\ tmpl[k].type = "expand")
    BY <2>2 DEF Candidates, Live
  <2>4. ids \subseteq Nat
    BY <1>1, <2>3, TableFacts
  <2>5. Live(id) /\ sc \notin torn
    BY <1>2, <2>1 DEF Kept
  <2>6. \A j \in DOMAIN tmpl : Live(j) /\ tmpl[j].cluster = sc /\ tmpl[j].type = tmpl[id].type
                                  => id <= j
    BY <1>1, <1>2, <2>1, <2>5 DEF RunsFirst
  <2>7. tmpl[id].type \in {"expand", "shrink"} /\ id \in Nat
    BY <1>1, <1>2, WholePair
  <2>8. CASE tmpl[id].type = "expand"
    <3>1. id \in ids
      BY <2>1, <2>3, <2>5, <2>8
    <3>2. QueryFirst(ids) \in ids /\ QueryFirst(ids) <= id
      BY <2>4, <3>1, FirstIs
    <3>3. id <= QueryFirst(ids)
      BY <2>3, <2>6, <2>8, <3>2
    <3>4. QueryFirst(ids) \in Nat
      BY <2>4, <3>2
    <3>5. QueryFirst(ids) = id
      BY <2>7, <3>2, <3>3, <3>4
    <3> QED
      BY <2>1, <2>2, <3>1, <3>5 DEF GetScheduleTempList
  <2>9. CASE tmpl[id].type = "shrink"
    <3>1. /\ id - 1 \in DOMAIN tmpl /\ Live(id - 1) /\ tmpl[id - 1].reverse = id
          /\ tmpl[id - 1].type = "expand" /\ tmpl[id - 1].cluster = sc
      BY <1>1, <1>2, <2>1, <2>9, WholePair
    <3>2. id - 1 \in ids
      BY <2>3, <3>1
    <3>3. PICK e : e = QueryFirst(ids)
      OBVIOUS
    <3>4. e \in ids /\ e <= id - 1 /\ e \in Nat
      BY <2>4, <3>2, <3>3, FirstIs
    <3>5. /\ e + 1 \in DOMAIN tmpl /\ Live(e + 1) /\ tmpl[e + 1].type = "shrink"
          /\ tmpl[e + 1].cluster = sc
      <4>1. e \in DOMAIN tmpl /\ Kept(e) /\ tmpl[e].type = "expand" /\ tmpl[e].cluster = sc
        BY <2>3, <2>5, <3>4 DEF Kept
      <4> QED
        BY <1>1, <4>1, WholePair
    <3>6. id <= e + 1
      BY <2>6, <2>9, <3>5
    <3>7. e = id - 1
      BY <2>7, <3>4, <3>6
    <3> QED
      BY <2>1, <2>2, <3>1, <3>2, <3>3, <3>7 DEF GetScheduleTempList
  <2> QED
    BY <2>7, <2>8, <2>9
<1>3. \A k \in 1..MaxTask : Kept(running[k]) => running[k] \in DOMAIN tmpl
  BY DEF Kept, Live
<1> QED
  BY <1>2, <1>3 DEF HistoryShowsRunning

-----------------------------------------------------------------------------
(* The theorems *)

(* What the properties rest on is true of all that can happen to services,    *)
(* templates and tasks.                                                       *)
THEOREM ServicesInvariant == SpecServices => []ServicesInv
<1>1. InitServices => ServicesInv
  BY ServicesInvInit
<1>2. ServicesInv /\ [NextServices]_allVars => ServicesInv'
  BY ServicesInvNext
<1> QED
  BY <1>1, <1>2, PTL DEF SpecServices

(* The tables hold rows of their types and no more than one cluster for each *)
(* service, and a task is one of a template that there is or was.            *)
THEOREM ServicesTypesHold == SpecServices => []ServicesTypeOK
  BY ServicesInvariant, InvServicesTypeOK, PTL

(* An expand template and its reverse, as long as both are live, undo each    *)
(* other, whatever was created, updated, deleted, failed or panicked; and as  *)
(* long as no panic, failed lookup or foreign update took a pair of the       *)
(* cluster apart, both are live and it is the expand template that expands.   *)
THEOREM PairsStayWhole == SpecServices => []PairsAreWhole
  BY ServicesInvariant, InvPairsAreWhole, PTL

(* A shrink of a cluster finds the reverse of the template its expand finds:  *)
(* getSchedTmplId looks up each on its own.  Of a cluster of which a deletion *)
(* without its lookup left one half of a pair this is not so.                 *)
THEOREM ShrinksFindTheReverse == SpecServices => []ShrinkUndoesExpand
  BY ServicesInvariant, InvShrinkUndoesExpand, PTL

(* The flag that an update sets on instructions is never set on one that a    *)
(* live template still names.                                                 *)
THEOREM FlagsAreOfOldInstructions == SpecServices => []GroupsAreCurrent
  BY ServicesInvariant, InvGroupsAreCurrent, PTL

(* A task that copied the group of its template runs that group to its end    *)
(* as it was, though the template is updated or deleted meanwhile.  It may be *)
(* the reverse group only where an update named the shrink template.          *)
THEOREM TasksFinishTheirGroup == SpecServices => []TaskKeepsItsGroup
  BY ServicesInvariant, InvTaskKeepsItsGroup, PTL

(* A service cluster is bound to a BridgX cluster only as long as it has a    *)
(* template, unless a deletion could not look its clusters up or an update    *)
(* moved the only template of the cluster to another one.                     *)
THEOREM BindingsHaveTemplates == SpecServices => []BoundHasTemplate
<1>1. ServicesInv => BoundHasTemplate
  BY DEF ServicesInv, TemplatesHold
<1> QED
  BY <1>1, ServicesInvariant, PTL

(* CreateService leaves no service without its cluster and gives none two, so *)
(* the list of services is never emptied by one of them.                      *)
THEOREM ServicesHaveTheirCluster == SpecServices => []OneClusterPerService
  BY ServicesInvariant, InvOneClusterPerService, PTL

(* GetServiceDetail calls the first template of a cluster its expand template, *)
(* and unless there is a deploy template too, it is, as long as no pair of the *)
(* cluster was taken apart: a shrink template left alone would be shown.       *)
THEOREM DetailsAreRight == SpecServices => []DetailShowsExpand
  BY ServicesInvariant, InvDetailShowsExpand, PTL

(* The history of a cluster, which asks for the tasks of two templates, misses *)
(* no expand or shrink that goes on for one that is still there, of as many as *)
(* there may be, as long as no pair of the cluster was taken apart.            *)
THEOREM HistoryMissesNothing == SpecServices => []HistoryShowsRunning
  BY ServicesInvariant, InvHistoryShowsRunning, PTL

(* Callers who all look before they start a task share a cluster's live        *)
(* templates: each of them accounts for one task at most that goes on or is    *)
(* about to, though a look and the start after it are two requests.            *)
THEOREM CallersShareACluster == SpecServices => []TasksWithinCallers
<1>1. ServicesInv => TasksWithinCallers
  BY DEF ServicesInv, TasksHold
<1> QED
  BY <1>1, ServicesInvariant, PTL
=============================================================================
