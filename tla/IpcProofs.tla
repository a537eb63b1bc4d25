----------------------------- MODULE IpcProofs -----------------------------
(***************************************************************************)
(* Lemmas about the kernel operators: every one of them maps a coherent    *)
(* kernel state to a coherent kernel state, for all threads, priorities    *)
(* and lists.  Then the invariant that the steps of module Ipc preserve,   *)
(* for any number of threads, priorities and objects.  The proofs of the   *)
(* services cite the lemmas of this module for the actions they share.     *)
(***************************************************************************)
EXTENDS Ipc, SequenceTheorems, FiniteSetTheorems, WellFoundedInduction, TLAPS

-----------------------------------------------------------------------------
(* Minima and lists *)

\* A set of naturals that is not empty has a minimum.
LEMMA MinProperties ==
    ASSUME NEW S \in SUBSET Nat, S # {}
    PROVE  Min(S) \in S /\ \A y \in S : Min(S) <= y
<1>1. PICK x \in S : \A y \in S : ~ (<<y, x>> \in OpToRel(<, Nat))
  BY NatLessThanWellFounded, WFMin
<1>2. OpToRel(<, Nat) = {ss \in Nat \X Nat : ss[1] < ss[2]}
  BY DEF OpToRel
<1>3. ASSUME NEW y \in S, y < x PROVE FALSE
  <2>1. <<y, x>> \in {ss \in Nat \X Nat : ss[1] < ss[2]}
    BY <1>3
  <2>. QED  BY <1>1, <1>2, <2>1
<1>4. \A y \in S : x <= y
  BY <1>3
<1>. QED  BY <1>4 DEF Min

\* Unlinking an element at place i of a list.
LEMMA RemoveAtProperties ==
    ASSUME NEW S, NEW s \in Seq(S), NEW i \in 1 .. Len(s)
    PROVE  /\ RemoveAt(s, i) \in Seq(S)
           /\ Len(RemoveAt(s, i)) = Len(s) - 1
           /\ \A j \in 1 .. Len(s) - 1 :
                RemoveAt(s, i)[j] = IF j < i THEN s[j] ELSE s[j + 1]
<1>. DEFINE a == SubSeq(s, 1, i-1)
            b == SubSeq(s, i+1, Len(s))
<1>1. a \in Seq(S) /\ Len(a) = i - 1 /\ \A j \in 1 .. i-1 : a[j] = s[j]
  OBVIOUS
<1>2. /\ b \in Seq(S) /\ Len(b) = Len(s) - i
      /\ \A j \in 1 .. Len(s) - i : b[j] = s[i + j]
  OBVIOUS
<1>3. RemoveAt(s, i) = a \o b
  BY DEF RemoveAt
<1>. HIDE DEF a, b
<1>4. /\ a \o b \in Seq(S)
      /\ Len(a \o b) = Len(a) + Len(b)
      /\ \A j \in 1 .. Len(a) + Len(b) :
           (a \o b)[j] = IF j <= Len(a) THEN a[j] ELSE b[j - Len(a)]
  BY <1>1, <1>2, ConcatProperties
<1>5. Len(a) + Len(b) = Len(s) - 1
  BY <1>1, <1>2
<1>6. ASSUME NEW j \in 1 .. Len(s) - 1
      PROVE  (a \o b)[j] = IF j < i THEN s[j] ELSE s[j + 1]
  <2>1. CASE j < i
    BY <2>1, <1>1, <1>4, <1>5
  <2>2. CASE ~(j < i)
    <3>1. j - Len(a) \in 1 .. Len(s) - i /\ ~(j <= Len(a)) /\ i + (j - Len(a)) = j + 1
      BY <2>2, <1>1
    <3>. QED  BY <3>1, <2>2, <1>2, <1>4, <1>5
  <2>. QED  BY <2>1, <2>2
<1>. QED  BY <1>3, <1>4, <1>5, <1>6

\* Unlinking an element from a list that holds no element twice.
LEMMA RemoveFirstProperties ==
    ASSUME NEW S, NEW s \in Seq(S), IsInjective(s), NEW e
    PROVE  /\ RemoveFirst(s, e) \in Seq(S)
           /\ IsInjective(RemoveFirst(s, e))
           /\ ToSet(RemoveFirst(s, e)) = ToSet(s) \ {e}
           /\ e \notin ToSet(s) => RemoveFirst(s, e) = s
<1>1. CASE e \notin ToSet(s)
  <2>1. \A i \in 1 .. Len(s) : s[i] # e
    BY <1>1 DEF ToSet
  <2>2. RemoveFirst(s, e) = s
    BY <2>1 DEF RemoveFirst
  <2>. QED  BY <1>1, <2>2
<1>2. CASE e \in ToSet(s)
  <2>1. PICK i \in 1 .. Len(s) : s[i] = e
    BY <1>2 DEF ToSet
  <2>2. SelectInSeq(s, LAMBDA v : v = e) = i
    <3>1. {j \in 1 .. Len(s) : s[j] = e} = {i}
      BY <2>1 DEF IsInjective
    <3>2. Min({i}) = i
      BY DEF Min
    <3>. QED  BY <3>1, <3>2 DEF SelectInSeq
  <2>3. RemoveFirst(s, e) = RemoveAt(s, i)
    BY <2>1, <2>2 DEF RemoveFirst
  <2>. DEFINE r == RemoveAt(s, i)
  <2>4. /\ r \in Seq(S) /\ Len(r) = Len(s) - 1
        /\ \A j \in 1 .. Len(s) - 1 : r[j] = IF j < i THEN s[j] ELSE s[j + 1]
    BY RemoveAtProperties
  <2>. HIDE DEF r
  <2>5. IsInjective(r)
    <3>1. ASSUME NEW j \in 1 .. Len(r), NEW l \in 1 .. Len(r), r[j] = r[l]
          PROVE  j = l
      <4>. DEFINE Old(n) == IF n < i THEN n ELSE n + 1
      <4>1. Old(j) \in 1 .. Len(s) /\ Old(l) \in 1 .. Len(s)
        BY <2>4
      <4>2. r[j] = s[Old(j)] /\ r[l] = s[Old(l)]
        BY <2>4
      <4>3. \A x, y \in 1 .. Len(s) : s[x] = s[y] => x = y
        BY DEF IsInjective
      <4>4. Old(j) = Old(l)
        <5>. HIDE DEF Old
        <5>. QED  BY <3>1, <4>1, <4>2, <4>3
      <4>. QED  BY <4>4
    <3>. QED  BY <2>4, <3>1 DEF IsInjective
  <2>6. ToSet(r) = ToSet(s) \ {e}
    <3>1. ASSUME NEW x \in ToSet(r) PROVE x \in ToSet(s) \ {e}
      <4>1. PICK j \in 1 .. Len(s) - 1 : r[j] = x
        BY <2>4 DEF ToSet
      <4>2. PICK a \in 1 .. Len(s) : a # i /\ s[a] = x
        <5>1. CASE j < i
          BY <2>4, <4>1, <5>1
        <5>2. CASE ~(j < i)
          BY <2>4, <4>1, <5>2
        <5>. QED  BY <5>1, <5>2
      <4>3. s[a] # s[i]
        BY <4>2 DEF IsInjective
      <4>. QED  BY <2>1, <4>2, <4>3 DEF ToSet
    <3>2. ASSUME NEW x \in ToSet(s) \ {e} PROVE x \in ToSet(r)
      <4>1. PICK j \in 1 .. Len(s) : s[j] = x /\ j # i
        BY <2>1 DEF ToSet
      <4>2. CASE j < i
        BY <4>1, <4>2, <2>4 DEF ToSet
      <4>3. CASE j > i
        <5>1. j - 1 \in 1 .. Len(r) /\ r[j - 1] = x
          BY <4>1, <4>3, <2>4
        <5>. QED  BY <5>1, <2>4 DEF ToSet
      <4>. QED  BY <4>1, <4>2, <4>3
    <3>. QED  BY <3>1, <3>2
  <2>. QED  BY <1>2, <2>3, <2>4, <2>5, <2>6 DEF r
<1>. QED  BY <1>1, <1>2

\* Appending a new element to a list.
LEMMA AppendToList ==
    ASSUME NEW S, NEW s \in Seq(S), IsInjective(s), NEW e \in S, e \notin ToSet(s)
    PROVE  /\ Append(s, e) \in Seq(S)
           /\ IsInjective(Append(s, e))
           /\ ToSet(Append(s, e)) = ToSet(s) \cup {e}
           /\ Append(s, e) # <<>>
<1>. DEFINE r == Append(s, e)
<1>1. /\ r \in Seq(S) /\ Len(r) = Len(s) + 1
      /\ \A j \in 1 .. Len(s) : r[j] = s[j]
      /\ r[Len(s) + 1] = e
  OBVIOUS
<1>. HIDE DEF r
<1>2. \A j \in 1 .. Len(s) : s[j] # e
  BY DEF ToSet
<1>3. IsInjective(r)
  BY <1>1, <1>2 DEF IsInjective
<1>4. ToSet(r) = ToSet(s) \cup {e}
  BY <1>1 DEF ToSet
<1>. QED  BY <1>1, <1>3, <1>4 DEF r

\* Inserting a new element at place i of a list.
LEMMA InsertAtProperties ==
    ASSUME NEW S, NEW s \in Seq(S), IsInjective(s), NEW i \in 1 .. Len(s),
           NEW e \in S, e \notin ToSet(s)
    PROVE  /\ InsertAt(s, i, e) \in Seq(S)
           /\ IsInjective(InsertAt(s, i, e))
           /\ ToSet(InsertAt(s, i, e)) = ToSet(s) \cup {e}
           /\ InsertAt(s, i, e) # <<>>
           /\ Len(InsertAt(s, i, e)) = Len(s) + 1
           /\ \A j \in 1 .. Len(s) + 1 :
                InsertAt(s, i, e)[j] = IF j < i THEN s[j] ELSE IF j = i THEN e ELSE s[j - 1]
<1>. DEFINE a == SubSeq(s, 1, i-1)
            b == SubSeq(s, i, Len(s))
            r == (a \o <<e>>) \o b
<1>1. a \in Seq(S) /\ Len(a) = i - 1 /\ \A j \in 1 .. i-1 : a[j] = s[j]
  OBVIOUS
<1>2. /\ b \in Seq(S) /\ Len(b) = Len(s) - i + 1
      /\ \A j \in 1 .. Len(s) - i + 1 : b[j] = s[i + j - 1]
  OBVIOUS
<1>3. InsertAt(s, i, e) = r
  BY DEF InsertAt
<1>. HIDE DEF a, b
<1>4. a \o <<e>> \in Seq(S) /\ Len(a \o <<e>>) = i
      /\ \A j \in 1 .. i : (a \o <<e>>)[j] = IF j < i THEN s[j] ELSE e
  <2>1. <<e>> \in Seq(S) /\ Len(<<e>>) = 1 /\ <<e>>[1] = e
    OBVIOUS
  <2>2. /\ a \o <<e>> \in Seq(S) /\ Len(a \o <<e>>) = Len(a) + 1
        /\ \A j \in 1 .. Len(a) + 1 :
             (a \o <<e>>)[j] = IF j <= Len(a) THEN a[j] ELSE <<e>>[j - Len(a)]
    BY <1>1, <2>1, ConcatProperties
  <2>. QED  BY <1>1, <2>1, <2>2
<1>. DEFINE ae == a \o <<e>>
<1>. HIDE DEF ae
<1>5. /\ ae \o b \in Seq(S) /\ Len(ae \o b) = Len(ae) + Len(b)
      /\ \A j \in 1 .. Len(ae) + Len(b) :
           (ae \o b)[j] = IF j <= Len(ae) THEN ae[j] ELSE b[j - Len(ae)]
  BY <1>2, <1>4, ConcatProperties DEF ae
<1>6. r = ae \o b
  BY DEF ae
<1>. HIDE DEF r
<1>7. r \in Seq(S) /\ Len(r) = Len(s) + 1
  <2>1. Len(ae) = i
    BY <1>4 DEF ae
  <2>2. Len(ae) + Len(b) = Len(s) + 1
    BY <2>1, <1>2
  <2>. QED  BY <2>2, <1>5, <1>6
<1>8. ASSUME NEW j \in 1 .. Len(s) + 1
      PROVE  r[j] = IF j < i THEN s[j] ELSE IF j = i THEN e ELSE s[j - 1]
  <2>0. Len(ae) = i /\ Len(ae) + Len(b) = Len(s) + 1
    <3>1. Len(ae) = i
      BY <1>4 DEF ae
    <3>. QED  BY <1>2, <3>1
  <2>1. CASE j <= i
    BY <2>0, <2>1, <1>4, <1>5, <1>6 DEF ae
  <2>2. CASE j > i
    <3>1. j - i \in 1 .. Len(s) - i + 1 /\ i + (j - i) - 1 = j - 1
      BY <2>2
    <3>2. r[j] = b[j - i]
      BY <2>0, <2>2, <1>5, <1>6
    <3>. QED  BY <3>1, <3>2, <2>2, <1>2
  <2>. QED  BY <2>1, <2>2
<1>9. \A j \in 1 .. Len(s) : s[j] # e
  BY DEF ToSet
<1>10. IsInjective(r)
  <2>1. \A x, y \in 1 .. Len(s) : s[x] = s[y] => x = y
    BY DEF IsInjective
  <2>2. ASSUME NEW j \in 1 .. Len(r), NEW l \in 1 .. Len(r), r[j] = r[l]
        PROVE  j = l
    <3>1. CASE j = i
      BY <3>1, <1>7, <1>8, <1>9, <2>2
    <3>2. CASE l = i
      BY <3>2, <1>7, <1>8, <1>9, <2>2
    <3>3. CASE j # i /\ l # i
      <4>. DEFINE Old(x) == IF x < i THEN x ELSE x - 1
      <4>1. Old(j) \in 1 .. Len(s) /\ Old(l) \in 1 .. Len(s)
        BY <3>3, <1>7
      <4>2. r[j] = s[Old(j)] /\ r[l] = s[Old(l)]
        BY <3>3, <1>7, <1>8
      <4>3. Old(j) = Old(l)
        <5>. HIDE DEF Old
        <5>. QED  BY <2>1, <2>2, <4>1, <4>2
      <4>. QED  BY <3>3, <4>3
    <3>. QED  BY <3>1, <3>2, <3>3
  <2>. QED  BY <1>7, <2>2 DEF IsInjective
<1>11. ToSet(r) = ToSet(s) \cup {e}
  <2>1. ASSUME NEW x \in ToSet(r) PROVE x \in ToSet(s) \cup {e}
    <3>1. PICK j \in 1 .. Len(s) + 1 : r[j] = x
      BY <1>7 DEF ToSet
    <3>2. CASE j < i
      BY <3>1, <3>2, <1>8 DEF ToSet
    <3>3. CASE j = i
      BY <3>1, <3>3, <1>8
    <3>4. CASE j > i
      <4>1. j - 1 \in 1 .. Len(s) /\ s[j - 1] = x
        BY <3>1, <3>4, <1>8
      <4>. QED  BY <4>1 DEF ToSet
    <3>. QED  BY <3>2, <3>3, <3>4
  <2>2. e \in ToSet(r)
    <3>1. i \in 1 .. Len(r) /\ r[i] = e
      BY <1>7, <1>8
    <3>. QED  BY <1>7, <3>1 DEF ToSet
  <2>3. ASSUME NEW x \in ToSet(s) PROVE x \in ToSet(r)
    <3>1. PICK j \in 1 .. Len(s) : s[j] = x
      BY DEF ToSet
    <3>2. r[IF j < i THEN j ELSE j + 1] = x
      BY <1>8, <3>1
    <3>. QED  BY <1>7, <3>2 DEF ToSet
  <2>. QED  BY <2>1, <2>2, <2>3
<1>12. r # <<>>
  BY <1>7
<1>. QED  BY <1>3, <1>7, <1>8, <1>10, <1>11, <1>12

\* PrioInsert keeps the threads of the list and adds the new one.
LEMMA PrioInsertProperties ==
    ASSUME NEW S, NEW s \in Seq(S), IsInjective(s), NEW t \in S, t \notin ToSet(s),
           NEW prio
    PROVE  /\ PrioInsert(prio, s, t) \in Seq(S)
           /\ IsInjective(PrioInsert(prio, s, t))
           /\ ToSet(PrioInsert(prio, s, t)) = ToSet(s) \cup {t}
           /\ PrioInsert(prio, s, t) # <<>>
<1>. DEFINE I == {i \in 1 .. Len(s) : prio[t] < prio[s[i]]}
            n == SelectInSeq(s, LAMBDA u : prio[t] < prio[u])
<1>1. n = IF I # {} THEN Min(I) ELSE 0
  BY DEF SelectInSeq
<1>2. I \in SUBSET Nat /\ I \subseteq 1 .. Len(s)
  OBVIOUS
<1>3. PrioInsert(prio, s, t) = IF n = 0 THEN Append(s, t) ELSE InsertAt(s, n, t)
  BY DEF PrioInsert
<1>. HIDE DEF I, n
<1>4. CASE I = {}
  BY <1>1, <1>3, <1>4, AppendToList
<1>5. CASE I # {}
  <2>1. n \in 1 .. Len(s)
    BY <1>1, <1>2, <1>5, MinProperties
  <2>. QED  BY <2>1, <1>3, InsertAtProperties
<1>. QED  BY <1>4, <1>5

\* The first thread of a list.
LEMMA HeadOfList ==
    ASSUME NEW S, NEW s \in Seq(S), s # <<>>
    PROVE  Head(s) \in S /\ Head(s) \in ToSet(s)
<1>1. Len(s) \in Nat /\ Len(s) > 0
  BY EmptySeq, LenProperties
<1>2. 1 \in 1 .. Len(s) /\ Head(s) = s[1]
  BY <1>1
<1>. QED  BY <1>2 DEF ToSet

\* The first element of a list that holds no element twice.
LEMMA QueueHead ==
    ASSUME NEW S, NEW q \in Seq(S), IsInjective(q), q # <<>>
    PROVE  /\ Head(q) \in S /\ Head(q) \in ToSet(q)
           /\ Tail(q) \in Seq(S) /\ IsInjective(Tail(q))
           /\ ToSet(Tail(q)) = ToSet(q) \ {Head(q)}
<1>. DEFINE r == Tail(q)
<1>1. /\ Len(q) \in Nat /\ Len(q) > 0
      /\ r \in Seq(S) /\ Len(r) = Len(q) - 1
      /\ \A j \in 1 .. Len(q) - 1 : r[j] = q[j + 1]
      /\ Head(q) = q[1] /\ 1 \in 1 .. Len(q)
  OBVIOUS
<1>. HIDE DEF r
<1>2. IsInjective(r)
  <2>1. ASSUME NEW i \in 1 .. Len(r), NEW j \in 1 .. Len(r), r[i] = r[j] PROVE i = j
    <3>1. q[i + 1] = q[j + 1] /\ i + 1 \in 1 .. Len(q) /\ j + 1 \in 1 .. Len(q)
      BY <1>1, <2>1
    <3>2. i + 1 = j + 1
      BY <3>1 DEF IsInjective
    <3>. QED  BY <3>2
  <2>. QED  BY <1>1, <2>1 DEF IsInjective
<1>3. ASSUME NEW x \in ToSet(r) PROVE x \in ToSet(q) \ {Head(q)}
  <2>1. PICK j \in 1 .. Len(r) : r[j] = x
    BY <1>1 DEF ToSet
  <2>2. q[j + 1] = x /\ j + 1 \in 1 .. Len(q) /\ j + 1 # 1
    BY <1>1, <2>1
  <2>. QED  BY <1>1, <2>2 DEF ToSet, IsInjective
<1>4. ASSUME NEW x \in ToSet(q) \ {Head(q)} PROVE x \in ToSet(r)
  <2>1. PICK j \in 1 .. Len(q) : q[j] = x /\ j # 1
    BY <1>1 DEF ToSet
  <2>2. j - 1 \in 1 .. Len(r) /\ r[j - 1] = x
    BY <1>1, <2>1
  <2>. QED  BY <1>1, <2>2 DEF ToSet
<1>5. Head(q) \in S /\ Head(q) \in ToSet(q)
  BY <1>1 DEF ToSet
<1>. QED  BY <1>1, <1>2, <1>3, <1>4, <1>5 DEF r

\* A list is empty exactly when it holds no thread.
LEMMA EmptyList ==
    ASSUME NEW S, NEW s \in Seq(S)
    PROVE  s = <<>> <=> ToSet(s) = {}
<1>1. ASSUME s # <<>> PROVE ToSet(s) # {}
  BY <1>1, HeadOfList
<1>2. ToSet(<<>>) = {}
  BY DEF ToSet
<1>. QED  BY <1>1, <1>2

-----------------------------------------------------------------------------
(* The kernel *)

CoherentState(kk) == kk \in KernelState /\ KernelCoherent(kk)

\* The fields that an operator on the lists leaves alone.
SameThreads(kk, r) ==
    /\ r.stat = kk.stat /\ r.prio = kk.prio /\ r.error = kk.error
    /\ r.timer = kk.timer /\ r.lock = kk.lock

\* rt_list_remove takes the thread out of every list and changes nothing else.
LEMMA ListRemove ==
    ASSUME NEW kk \in KernelState, NEW t \in Thread,
           \A p \in Prio : IsInjective(kk.ready[p]),
           \A l \in List : IsInjective(kk.list[l])
    PROVE  LET r == rt_list_remove(kk, t)
           IN  /\ r \in KernelState
               /\ SameThreads(kk, r) /\ r.cur = kk.cur /\ r.group = kk.group
               /\ \A p \in Prio : /\ IsInjective(r.ready[p])
                                  /\ ToSet(r.ready[p]) = ToSet(kk.ready[p]) \ {t}
                                  /\ t \notin ToSet(kk.ready[p]) => r.ready[p] = kk.ready[p]
                                  /\ r.ready[p] = RemoveFirst(kk.ready[p], t)
               /\ \A l \in List : /\ IsInjective(r.list[l])
                                  /\ ToSet(r.list[l]) = ToSet(kk.list[l]) \ {t}
                                  /\ t \notin ToSet(kk.list[l]) => r.list[l] = kk.list[l]
<1>. DEFINE rd == [p \in Prio |-> RemoveFirst(kk.ready[p], t)]
            ls == [l \in List |-> RemoveFirst(kk.list[l], t)]
<1>1. rt_list_remove(kk, t) = [kk EXCEPT !.ready = rd, !.list = ls]
  BY DEF rt_list_remove
<1>2. \A p \in Prio : /\ rd[p] \in Seq(Thread) /\ IsInjective(rd[p])
                      /\ ToSet(rd[p]) = ToSet(kk.ready[p]) \ {t}
                      /\ t \notin ToSet(kk.ready[p]) => rd[p] = kk.ready[p]
                      /\ rd[p] = RemoveFirst(kk.ready[p], t)
  <2>. TAKE p \in Prio
  <2>1. kk.ready[p] \in Seq(Thread)
    BY DEF KernelState
  <2>. QED  BY <2>1, RemoveFirstProperties
<1>3. \A l \in List : /\ ls[l] \in Seq(Thread) /\ IsInjective(ls[l])
                      /\ ToSet(ls[l]) = ToSet(kk.list[l]) \ {t}
                      /\ t \notin ToSet(kk.list[l]) => ls[l] = kk.list[l]
  <2>. TAKE l \in List
  <2>1. kk.list[l] \in Seq(Thread)
    BY DEF KernelState
  <2>. QED  BY <2>1, RemoveFirstProperties
<1>4. rd \in [Prio -> Seq(Thread)] /\ ls \in [List -> Seq(Thread)]
  BY <1>2, <1>3
<1>. HIDE DEF rd, ls
<1>5. rt_list_remove(kk, t) \in KernelState
  BY <1>1, <1>4 DEF KernelState
<1>6. /\ SameThreads(kk, rt_list_remove(kk, t))
      /\ rt_list_remove(kk, t).cur = kk.cur /\ rt_list_remove(kk, t).group = kk.group
      /\ rt_list_remove(kk, t).ready = rd /\ rt_list_remove(kk, t).list = ls
  BY <1>1 DEF SameThreads, KernelState
<1>. QED  BY <1>2, <1>3, <1>5, <1>6

\* What the list operators need: no list holds a thread twice and the priority
\* bitmap is that of the ready lists.
ListsOK(kk) ==
    /\ \A p \in Prio : IsInjective(kk.ready[p])
    /\ \A l \in List : IsInjective(kk.list[l])
    /\ kk.group = {p \in Prio : kk.ready[p] # <<>>}

\* rt_schedule_remove_thread takes a thread out of the ready list of its
\* priority, or out of another list, and keeps the bitmap right.
LEMMA ScheduleRemove ==
    ASSUME NEW kk \in KernelState, ListsOK(kk), NEW t \in Thread,
           \A p \in Prio : t \in ToSet(kk.ready[p]) => p = kk.prio[t]
    PROVE  LET r == rt_schedule_remove_thread(kk, t)
           IN  /\ r \in KernelState /\ ListsOK(r)
               /\ SameThreads(kk, r) /\ r.cur = kk.cur
               /\ \A p \in Prio : ToSet(r.ready[p]) = ToSet(kk.ready[p]) \ {t}
               /\ \A l \in List : /\ ToSet(r.list[l]) = ToSet(kk.list[l]) \ {t}
                                  /\ t \notin ToSet(kk.list[l]) => r.list[l] = kk.list[l]
<1>. DEFINE q == rt_list_remove(kk, t)
            p0 == kk.prio[t]
            g == IF RemoveFirst(kk.ready[p0], t) = <<>> THEN q.group \ {p0} ELSE q.group
            r == rt_schedule_remove_thread(kk, t)
<1>1. /\ q \in KernelState
      /\ SameThreads(kk, q) /\ q.cur = kk.cur /\ q.group = kk.group
      /\ \A p \in Prio : /\ IsInjective(q.ready[p])
                         /\ ToSet(q.ready[p]) = ToSet(kk.ready[p]) \ {t}
                         /\ t \notin ToSet(kk.ready[p]) => q.ready[p] = kk.ready[p]
                         /\ q.ready[p] = RemoveFirst(kk.ready[p], t)
      /\ \A l \in List : /\ IsInjective(q.list[l])
                         /\ ToSet(q.list[l]) = ToSet(kk.list[l]) \ {t}
                         /\ t \notin ToSet(kk.list[l]) => q.list[l] = kk.list[l]
  BY ListRemove DEF ListsOK
<1>2. r = [q EXCEPT !.group = g]
  BY DEF rt_schedule_remove_thread
<1>3. p0 \in Prio
  BY DEF KernelState
<1>. HIDE DEF q, r
<1>4. g = {p \in Prio : q.ready[p] # <<>>}
  <2>1. \A p \in Prio : p # p0 => q.ready[p] = kk.ready[p]
    BY <1>1
  <2>2. q.ready[p0] = RemoveFirst(kk.ready[p0], t)
    BY <1>1, <1>3
  <2>3. t \notin ToSet(kk.ready[p0]) => q.ready[p0] = kk.ready[p0]
    BY <1>1, <1>3
  <2>4. t \in ToSet(kk.ready[p0]) => kk.ready[p0] # <<>>
    <3>1. kk.ready[p0] \in Seq(Thread)
      BY <1>3 DEF KernelState
    <3>. QED  BY <3>1, EmptyList
  <2>5. kk.group = {p \in Prio : kk.ready[p] # <<>>} /\ q.group = kk.group
    BY <1>1 DEF ListsOK
  <2>. HIDE DEF p0
  <2>. QED  BY <2>1, <2>2, <2>3, <2>4, <2>5, <1>3
<1>. HIDE DEF g, p0
<1>5. g \in SUBSET Prio
  BY <1>4
<1>6. r \in KernelState
  BY <1>1, <1>2, <1>5 DEF KernelState
<1>7. /\ SameThreads(q, r)
      /\ r.cur = q.cur /\ r.ready = q.ready /\ r.list = q.list /\ r.group = g
  BY <1>1, <1>2 DEF KernelState, SameThreads
<1>8. SameThreads(kk, r)
  BY <1>1, <1>7 DEF SameThreads
<1>9. \A p \in Prio : IsInjective(r.ready[p]) /\ ToSet(r.ready[p]) = ToSet(kk.ready[p]) \ {t}
  BY <1>1, <1>7
<1>10. \A l \in List : /\ IsInjective(r.list[l])
                       /\ ToSet(r.list[l]) = ToSet(kk.list[l]) \ {t}
                       /\ t \notin ToSet(kk.list[l]) => r.list[l] = kk.list[l]
  BY <1>1, <1>7
<1>11. ListsOK(r)
  BY <1>4, <1>7, <1>9, <1>10 DEF ListsOK
<1>12. r.cur = kk.cur
  BY <1>1, <1>7
<1>. QED  BY <1>6, <1>8, <1>9, <1>10, <1>11, <1>12 DEF r

\* r is the kernel after t was made ready.
MadeReady(kk, t, r) ==
    /\ r \in KernelState /\ ListsOK(r)
    /\ r.stat = [kk.stat EXCEPT ![t] = "READY"]
    /\ r.prio = kk.prio /\ r.error = kk.error /\ r.timer = kk.timer
    /\ r.lock = kk.lock /\ r.cur = kk.cur /\ r.list = kk.list
    /\ \A p \in Prio :
         ToSet(r.ready[p]) = IF t # kk.cur /\ p = kk.prio[t]
                             THEN ToSet(kk.ready[p]) \cup {t}
                             ELSE ToSet(kk.ready[p])

\* rt_schedule_insert_thread makes a thread ready and, unless it is the running
\* thread, puts it at the end of the ready list of its priority.
LEMMA ScheduleInsert ==
    ASSUME NEW kk \in KernelState, ListsOK(kk), NEW t \in Thread,
           \A p \in Prio : t \notin ToSet(kk.ready[p])
    PROVE  MadeReady(kk, t, rt_schedule_insert_thread(kk, t))
<1>. DEFINE r == rt_schedule_insert_thread(kk, t)
            p0 == kk.prio[t]
<1>0. "READY" \in Stat /\ p0 \in Prio /\ kk.ready[p0] \in Seq(Thread)
  BY DEF KernelState, Stat
<1>1. CASE t = kk.cur
  <2>1. r = [kk EXCEPT !.stat[t] = "READY"]
    BY <1>1 DEF rt_schedule_insert_thread
  <2>. HIDE DEF r
  <2>2. r \in KernelState
    <3>1. [kk.stat EXCEPT ![t] = "READY"] \in [Thread -> Stat]
      BY <1>0 DEF KernelState
    <3>2. r = [kk EXCEPT !.stat = [kk.stat EXCEPT ![t] = "READY"]]
      BY <2>1 DEF KernelState
    <3>. QED  BY <3>1, <3>2 DEF KernelState
  <2>3. /\ r.stat = [kk.stat EXCEPT ![t] = "READY"]
        /\ r.prio = kk.prio /\ r.error = kk.error /\ r.timer = kk.timer
        /\ r.lock = kk.lock /\ r.cur = kk.cur /\ r.list = kk.list
        /\ r.ready = kk.ready /\ r.group = kk.group
    BY <2>1 DEF KernelState
  <2>. HIDE DEF r
  <2>4. ListsOK(r)
    BY <2>3 DEF ListsOK
  <2>5. MadeReady(kk, t, r)
    BY <1>1, <2>2, <2>3, <2>4 DEF MadeReady
  <2>. QED  BY <2>5 DEF r
<1>2. CASE t # kk.cur
  <2>. DEFINE a == Append(kk.ready[p0], t)
              rd == [kk.ready EXCEPT ![p0] = a]
              g == kk.group \cup {p0}
  <2>1. r = [kk EXCEPT !.stat[t] = "READY", !.ready[p0] = a, !.group = g]
    BY <1>2 DEF rt_schedule_insert_thread
  <2>2. /\ a \in Seq(Thread) /\ IsInjective(a) /\ a # <<>>
        /\ ToSet(a) = ToSet(kk.ready[p0]) \cup {t}
    BY <1>0, AppendToList DEF ListsOK
  <2>. HIDE DEF a
  <2>3. /\ rd \in [Prio -> Seq(Thread)] /\ rd[p0] = a
        /\ \A p \in Prio \ {p0} : rd[p] = kk.ready[p]
    BY <1>0, <2>2 DEF KernelState
  <2>4. g = {p \in Prio : rd[p] # <<>>}
    <3>1. kk.group = {p \in Prio : kk.ready[p] # <<>>}
      BY DEF ListsOK
    <3>. QED  BY <1>0, <2>2, <2>3, <3>1
  <2>. HIDE DEF g
  <2>5. r = [kk EXCEPT !.stat = [kk.stat EXCEPT ![t] = "READY"], !.ready = rd, !.group = g]
    BY <2>1 DEF KernelState
  <2>. HIDE DEF rd, p0
  <2>6. g \in SUBSET Prio /\ [kk.stat EXCEPT ![t] = "READY"] \in [Thread -> Stat]
    BY <1>0, <2>4 DEF KernelState
  <2>7. r \in KernelState
    BY <2>3, <2>5, <2>6 DEF KernelState
  <2>8. /\ r.stat = [kk.stat EXCEPT ![t] = "READY"]
        /\ r.prio = kk.prio /\ r.error = kk.error /\ r.timer = kk.timer
        /\ r.lock = kk.lock /\ r.cur = kk.cur /\ r.list = kk.list
        /\ r.ready = rd /\ r.group = g
    BY <2>5 DEF KernelState
  <2>. HIDE DEF r
  <2>9. ListsOK(r)
    BY <2>2, <2>3, <2>4, <2>8 DEF ListsOK
  <2>10. \A p \in Prio : ToSet(r.ready[p]) = IF p = p0 THEN ToSet(kk.ready[p]) \cup {t}
                                             ELSE ToSet(kk.ready[p])
    BY <2>2, <2>3, <2>8
  <2>11. MadeReady(kk, t, r)
    BY <1>2, <2>7, <2>8, <2>9, <2>10 DEF MadeReady, p0
  <2>. QED  BY <2>11 DEF r
<1>. QED  BY <1>1, <1>2

\* In a coherent state the lists are as the list operators need them, and a
\* thread is in the ready list of its priority or in none.
LEMMA CoherentLists ==
    ASSUME NEW kk, CoherentState(kk)
    PROVE  /\ kk \in KernelState /\ ListsOK(kk)
           /\ \A p \in Prio, t \in Thread :
                t \in ToSet(kk.ready[p]) <=>
                   kk.stat[t] = "READY" /\ t # kk.cur /\ kk.prio[t] = p
           /\ \A l \in List, t \in Thread : t \in ToSet(kk.list[l]) => kk.stat[t] = "SUSPEND"
  BY DEF CoherentState, KernelCoherent, ReadyListsCoherent, SuspendListsCoherent, ListsOK

\* A state is coherent when it has these properties.
LEMMA CoherentIntro ==
    ASSUME NEW kk, kk \in KernelState, ListsOK(kk),
           \A p \in Prio, t \in Thread :
              t \in ToSet(kk.ready[p]) <=> kk.stat[t] = "READY" /\ t # kk.cur /\ kk.prio[t] = p,
           \A l \in List, t \in Thread : t \in ToSet(kk.list[l]) => kk.stat[t] = "SUSPEND",
           \A l, m \in List, t \in Thread :
              t \in ToSet(kk.list[l]) /\ t \in ToSet(kk.list[m]) => l = m,
           \A t \in kk.timer : kk.stat[t] = "SUSPEND",
           kk.stat[Idle] = "READY"
    PROVE  CoherentState(kk)
<1>1. \A l \in List : ToSet(kk.list[l]) \subseteq Thread
  BY DEF KernelState, ToSet
<1>2. ReadyListsCoherent(kk)
  BY DEF ReadyListsCoherent, ListsOK
<1>3. SuspendListsCoherent(kk)
  BY <1>1 DEF SuspendListsCoherent, ListsOK
<1>. QED  BY <1>2, <1>3 DEF CoherentState, KernelCoherent, TimersCoherent, IdleReady

\* The two sides of a wakeup: Unlinked(k, t, e, q) says that q is the coherent
\* state k after the suspended thread t was taken out of its list, its timer
\* stopped and its error set to e.
Unlinked(kk, t, e, q) ==
    /\ q \in KernelState
    /\ q.stat = kk.stat /\ q.prio = kk.prio /\ q.cur = kk.cur /\ q.lock = kk.lock
    /\ q.error = [kk.error EXCEPT ![t] = e] /\ q.timer = kk.timer \ {t}
    /\ q.group = kk.group /\ \A p \in Prio : q.ready[p] = kk.ready[p]
    /\ \A l \in List : /\ IsInjective(q.list[l])
                       /\ ToSet(q.list[l]) = ToSet(kk.list[l]) \ {t}
                       /\ t \notin ToSet(kk.list[l]) => q.list[l] = kk.list[l]

\* What a wakeup of t with error e makes of k.
Woken(kk, t, e, r) ==
    /\ CoherentState(r)
    /\ r.stat = [kk.stat EXCEPT ![t] = "READY"]
    /\ r.prio = kk.prio /\ r.cur = kk.cur /\ r.lock = kk.lock
    /\ r.error = [kk.error EXCEPT ![t] = e]
    /\ r.timer = kk.timer \ {t}
    /\ \A l \in List : /\ ToSet(r.list[l]) = ToSet(kk.list[l]) \ {t}
                       /\ t \notin ToSet(kk.list[l]) => r.list[l] = kk.list[l]

\* Inserting the unlinked thread completes the wakeup.
LEMMA InsertWakes ==
    ASSUME NEW kk, CoherentState(kk), NEW t \in Thread, kk.stat[t] = "SUSPEND",
           NEW e, NEW q, Unlinked(kk, t, e, q)
    PROVE  Woken(kk, t, e, rt_schedule_insert_thread(q, t))
<1>. DEFINE r == rt_schedule_insert_thread(q, t)
<1>1. /\ kk \in KernelState /\ ListsOK(kk)
      /\ \A p \in Prio, u \in Thread :
           u \in ToSet(kk.ready[p]) <=> kk.stat[u] = "READY" /\ u # kk.cur /\ kk.prio[u] = p
      /\ \A l \in List, u \in Thread : u \in ToSet(kk.list[l]) => kk.stat[u] = "SUSPEND"
  BY CoherentLists
<1>2. q \in KernelState /\ ListsOK(q)
  BY <1>1 DEF Unlinked, ListsOK
<1>3. \A p \in Prio : t \notin ToSet(kk.ready[p])
  BY <1>1
<1>4. \A p \in Prio : t \notin ToSet(q.ready[p])
  BY <1>3 DEF Unlinked
<1>5. /\ r \in KernelState /\ ListsOK(r)
      /\ r.stat = [q.stat EXCEPT ![t] = "READY"]
      /\ r.prio = q.prio /\ r.error = q.error /\ r.timer = q.timer
      /\ r.lock = q.lock /\ r.cur = q.cur /\ r.list = q.list
      /\ \A p \in Prio :
           ToSet(r.ready[p]) = IF t # q.cur /\ p = q.prio[t]
                               THEN ToSet(q.ready[p]) \cup {t}
                               ELSE ToSet(q.ready[p])
  <2>1. MadeReady(q, t, r)
    BY <1>2, <1>4, ScheduleInsert
  <2>. HIDE DEF r
  <2>. QED  BY <2>1 DEF MadeReady
<1>. HIDE DEF r
<1>6. /\ r.stat = [kk.stat EXCEPT ![t] = "READY"]
      /\ r.prio = kk.prio /\ r.cur = kk.cur /\ r.lock = kk.lock
      /\ r.error = [kk.error EXCEPT ![t] = e] /\ r.timer = kk.timer \ {t}
  BY <1>5 DEF Unlinked
<1>7. \A l \in List : /\ ToSet(r.list[l]) = ToSet(kk.list[l]) \ {t}
                      /\ t \notin ToSet(kk.list[l]) => r.list[l] = kk.list[l]
  BY <1>5 DEF Unlinked
<1>8. \A p \in Prio : ToSet(r.ready[p]) = IF t # kk.cur /\ p = kk.prio[t]
                                          THEN ToSet(kk.ready[p]) \cup {t}
                                          ELSE ToSet(kk.ready[p])
  BY <1>5 DEF Unlinked
<1>9. \A u \in Thread : r.stat[u] = IF u = t THEN "READY" ELSE kk.stat[u]
  BY <1>1, <1>6 DEF KernelState
<1>10. CoherentState(r)
  <2>1. ASSUME NEW p \in Prio, NEW u \in Thread
        PROVE  u \in ToSet(r.ready[p]) <=> r.stat[u] = "READY" /\ u # r.cur /\ r.prio[u] = p
    <3>1. CASE u = t
      <4>1. r.stat[t] = "READY" /\ r.cur = kk.cur /\ r.prio = kk.prio
        BY <1>6, <1>9
      <4>. QED  BY <3>1, <4>1, <1>3, <1>8
    <3>2. CASE u # t
      <4>1. r.stat[u] = kk.stat[u] /\ r.cur = kk.cur /\ r.prio = kk.prio
        BY <3>2, <1>6, <1>9
      <4>2. u \in ToSet(r.ready[p]) <=> u \in ToSet(kk.ready[p])
        BY <3>2, <1>8
      <4>. QED  BY <4>1, <4>2, <1>1
    <3>. QED  BY <3>1, <3>2
  <2>2. \A l \in List, u \in Thread : u \in ToSet(r.list[l]) => r.stat[u] = "SUSPEND"
    BY <1>1, <1>7, <1>9
  <2>3. \A l, m \in List, u \in Thread :
          u \in ToSet(r.list[l]) /\ u \in ToSet(r.list[m]) => l = m
    BY <1>7 DEF CoherentState, KernelCoherent, SuspendListsCoherent
  <2>4. ASSUME NEW u \in r.timer PROVE r.stat[u] = "SUSPEND"
    <3>1. u \in kk.timer /\ u # t
      BY <1>6
    <3>2. u \in Thread
      BY <1>1, <3>1 DEF KernelState
    <3>3. kk.stat[u] = "SUSPEND"
      BY <3>1 DEF CoherentState, KernelCoherent, TimersCoherent
    <3>. QED  BY <3>1, <3>2, <3>3, <1>9
  <2>5. r.stat[Idle] = "READY"
    BY <1>9, KernelAssumption DEF CoherentState, KernelCoherent, IdleReady
  <2>. QED  BY <1>5, <2>1, <2>2, <2>3, <2>4, <2>5, CoherentIntro
<1>. QED  BY <1>6, <1>7, <1>10 DEF Woken, r

\* rt_list_remove on a coherent state, with the error and the timer of the
\* thread set before it.
LEMMA UnlinkThread ==
    ASSUME NEW kk, CoherentState(kk), NEW t \in Thread, kk.stat[t] = "SUSPEND",
           NEW e \in Error
    PROVE  Unlinked(kk, t, e, rt_list_remove([kk EXCEPT !.error[t] = e, !.timer = @ \ {t}], t))
<1>. DEFINE k1 == [kk EXCEPT !.error[t] = e, !.timer = @ \ {t}]
            q == rt_list_remove(k1, t)
<1>1. /\ kk \in KernelState /\ ListsOK(kk)
      /\ \A p \in Prio : t \notin ToSet(kk.ready[p])
  BY CoherentLists
<1>2. /\ k1 \in KernelState
      /\ k1.stat = kk.stat /\ k1.prio = kk.prio /\ k1.cur = kk.cur /\ k1.lock = kk.lock
      /\ k1.error = [kk.error EXCEPT ![t] = e] /\ k1.timer = kk.timer \ {t}
      /\ k1.ready = kk.ready /\ k1.list = kk.list /\ k1.group = kk.group
  BY <1>1 DEF KernelState
<1>. HIDE DEF k1
<1>3. \A p \in Prio : IsInjective(k1.ready[p])
  BY <1>1, <1>2 DEF ListsOK
<1>4. \A l \in List : IsInjective(k1.list[l])
  BY <1>1, <1>2 DEF ListsOK
<1>5. /\ q \in KernelState
      /\ SameThreads(k1, q) /\ q.cur = k1.cur /\ q.group = k1.group
      /\ \A p \in Prio : t \notin ToSet(k1.ready[p]) => q.ready[p] = k1.ready[p]
      /\ \A l \in List : /\ IsInjective(q.list[l])
                         /\ ToSet(q.list[l]) = ToSet(k1.list[l]) \ {t}
                         /\ t \notin ToSet(k1.list[l]) => q.list[l] = k1.list[l]
  <2>1. k1 \in KernelState
    BY <1>2
  <2>. QED  BY <1>3, <1>4, <2>1, ListRemove
<1>. HIDE DEF q
<1>6. /\ q.stat = kk.stat /\ q.prio = kk.prio /\ q.cur = kk.cur /\ q.lock = kk.lock
      /\ q.error = [kk.error EXCEPT ![t] = e] /\ q.timer = kk.timer \ {t}
      /\ q.group = kk.group
  BY <1>2, <1>5 DEF SameThreads
<1>7. \A p \in Prio : q.ready[p] = kk.ready[p]
  BY <1>1, <1>2, <1>5
<1>8. \A l \in List : /\ IsInjective(q.list[l])
                      /\ ToSet(q.list[l]) = ToSet(kk.list[l]) \ {t}
                      /\ t \notin ToSet(kk.list[l]) => q.list[l] = kk.list[l]
  BY <1>2, <1>5
<1>. QED  BY <1>5, <1>6, <1>7, <1>8 DEF Unlinked, q, k1

\* rt_thread_resume of a suspended thread whose error was set to e.
LEMMA ResumeWakes ==
    ASSUME NEW kk, CoherentState(kk), NEW t \in Thread, kk.stat[t] = "SUSPEND",
           NEW e \in Error
    PROVE  Woken(kk, t, e, rt_thread_resume([kk EXCEPT !.error[t] = e], t))
<1>. DEFINE k1 == [kk EXCEPT !.error[t] = e]
            q == rt_list_remove([kk EXCEPT !.error[t] = e, !.timer = @ \ {t}], t)
<1>1. kk \in KernelState
  BY CoherentLists
<1>2. k1.stat[t] = "SUSPEND"
  BY <1>1 DEF KernelState
<1>3. rt_timer_stop(rt_list_remove(k1, t), t) = q
  BY <1>1 DEF rt_timer_stop, rt_list_remove, KernelState
<1>4. rt_thread_resume(k1, t) = rt_schedule_insert_thread(q, t)
  BY <1>2, <1>3 DEF rt_thread_resume
<1>. HIDE DEF q
<1>5. Unlinked(kk, t, e, q)
  BY UnlinkThread DEF q
<1>. QED  BY <1>4, <1>5, InsertWakes

\* rt_thread_resume with the error left as it is.
LEMMA PlainResumeWakes ==
    ASSUME NEW kk, CoherentState(kk), NEW t \in Thread, kk.stat[t] = "SUSPEND"
    PROVE  Woken(kk, t, kk.error[t], rt_thread_resume(kk, t))
<1>1. kk \in KernelState
  BY CoherentLists
<1>2. kk.error[t] \in Error
  BY <1>1 DEF KernelState
<1>3. [kk EXCEPT !.error[t] = kk.error[t]] = kk
  BY <1>1 DEF KernelState
<1>4. Woken(kk, t, kk.error[t], rt_thread_resume([kk EXCEPT !.error[t] = kk.error[t]], t))
  BY <1>2, ResumeWakes
<1>. QED  BY <1>3, <1>4

\* rt_thread_timeout of a thread whose timer ran.
LEMMA TimeoutWakes ==
    ASSUME NEW kk, CoherentState(kk), NEW t \in kk.timer
    PROVE  t \in Thread /\ kk.stat[t] = "SUSPEND" /\ Woken(kk, t, "ETIMEOUT", rt_thread_timeout(kk, t))
<1>1. kk \in KernelState /\ t \in Thread
  BY CoherentLists DEF KernelState
<1>2. kk.stat[t] = "SUSPEND"
  BY DEF CoherentState, KernelCoherent, TimersCoherent
<1>. DEFINE k1 == [kk EXCEPT !.error[t] = "ETIMEOUT", !.timer = @ \ {t}]
            q == rt_list_remove(k1, t)
<1>3. [rt_timer_stop(kk, t) EXCEPT !.error[t] = "ETIMEOUT"] = k1
  BY <1>1 DEF rt_timer_stop, KernelState
<1>4. rt_thread_timeout(kk, t) = rt_schedule_insert_thread(q, t)
  BY <1>3 DEF rt_thread_timeout
<1>5. "ETIMEOUT" \in Error
  BY DEF Error
<1>6. Unlinked(kk, t, "ETIMEOUT", q)
  BY <1>1, <1>2, <1>5, UnlinkThread
<1>. HIDE DEF q
<1>7. Woken(kk, t, "ETIMEOUT", rt_schedule_insert_thread(q, t))
  BY <1>1, <1>2, <1>6, InsertWakes
<1>. QED  BY <1>1, <1>2, <1>4, <1>7

\* r is k after its thread t was suspended.
Suspended(kk, t, r) ==
    /\ CoherentState(r)
    /\ r.stat = [kk.stat EXCEPT ![t] = "SUSPEND"]
    /\ r.prio = kk.prio /\ r.cur = kk.cur /\ r.lock = kk.lock
    /\ r.error = kk.error /\ r.timer = kk.timer \ {t}
    /\ \A l \in List : r.list[l] = kk.list[l]

\* rt_thread_suspend of a ready thread other than the idle thread.
LEMMA SuspendCoherent ==
    ASSUME NEW kk, CoherentState(kk), NEW t \in Thread, t # Idle, kk.stat[t] = "READY"
    PROVE  Suspended(kk, t, rt_thread_suspend(kk, t))
<1>. DEFINE k1 == [kk EXCEPT !.stat[t] = "SUSPEND"]
            k2 == rt_schedule_remove_thread(k1, t)
            r == rt_thread_suspend(kk, t)
<1>1. /\ kk \in KernelState /\ ListsOK(kk)
      /\ \A p \in Prio, u \in Thread :
           u \in ToSet(kk.ready[p]) <=> kk.stat[u] = "READY" /\ u # kk.cur /\ kk.prio[u] = p
      /\ \A l \in List, u \in Thread : u \in ToSet(kk.list[l]) => kk.stat[u] = "SUSPEND"
  BY CoherentLists
<1>2. "SUSPEND" \in Stat
  BY DEF Stat
<1>3. /\ k1 \in KernelState
      /\ k1.stat = [kk.stat EXCEPT ![t] = "SUSPEND"]
      /\ k1.prio = kk.prio /\ k1.cur = kk.cur /\ k1.lock = kk.lock
      /\ k1.error = kk.error /\ k1.timer = kk.timer
      /\ k1.ready = kk.ready /\ k1.list = kk.list /\ k1.group = kk.group
  BY <1>1, <1>2 DEF KernelState
<1>4. r = [k2 EXCEPT !.timer = @ \ {t}]
  BY DEF rt_thread_suspend, rt_timer_stop
<1>. HIDE DEF k1, r
<1>5. ListsOK(k1)
  BY <1>1, <1>3 DEF ListsOK
<1>6. \A p \in Prio : t \in ToSet(k1.ready[p]) => p = k1.prio[t]
  BY <1>1, <1>3
<1>7. /\ k2 \in KernelState /\ ListsOK(k2)
      /\ SameThreads(k1, k2) /\ k2.cur = k1.cur
      /\ \A p \in Prio : ToSet(k2.ready[p]) = ToSet(k1.ready[p]) \ {t}
      /\ \A l \in List : t \notin ToSet(k1.list[l]) => k2.list[l] = k1.list[l]
  BY <1>3, <1>5, <1>6, ScheduleRemove
<1>. HIDE DEF k2
<1>8. /\ r \in KernelState
      /\ r.stat = k2.stat /\ r.prio = k2.prio /\ r.cur = k2.cur /\ r.lock = k2.lock
      /\ r.error = k2.error /\ r.timer = k2.timer \ {t}
      /\ r.ready = k2.ready /\ r.list = k2.list /\ r.group = k2.group
  BY <1>4, <1>7 DEF KernelState
<1>9. ListsOK(r)
  BY <1>7, <1>8 DEF ListsOK
<1>10. /\ r.stat = [kk.stat EXCEPT ![t] = "SUSPEND"]
       /\ r.prio = kk.prio /\ r.cur = kk.cur /\ r.lock = kk.lock
       /\ r.error = kk.error /\ r.timer = kk.timer \ {t}
  BY <1>3, <1>7, <1>8 DEF SameThreads
<1>11. \A l \in List : t \notin ToSet(kk.list[l])
  BY <1>1
<1>12. \A l \in List : r.list[l] = kk.list[l]
  BY <1>3, <1>7, <1>8, <1>11
<1>13. \A p \in Prio : ToSet(r.ready[p]) = ToSet(kk.ready[p]) \ {t}
  BY <1>3, <1>7, <1>8
<1>14. \A u \in Thread : r.stat[u] = IF u = t THEN "SUSPEND" ELSE kk.stat[u]
  BY <1>1, <1>10 DEF KernelState
<1>15. CoherentState(r)
  <2>1. ASSUME NEW p \in Prio, NEW u \in Thread
        PROVE  u \in ToSet(r.ready[p]) <=> r.stat[u] = "READY" /\ u # r.cur /\ r.prio[u] = p
    <3>1. CASE u = t
      BY <3>1, <1>13, <1>14
    <3>2. CASE u # t
      <4>1. r.stat[u] = kk.stat[u] /\ r.cur = kk.cur /\ r.prio = kk.prio
        BY <3>2, <1>10, <1>14
      <4>2. u \in ToSet(r.ready[p]) <=> u \in ToSet(kk.ready[p])
        BY <3>2, <1>13
      <4>. QED  BY <4>1, <4>2, <1>1
    <3>. QED  BY <3>1, <3>2
  <2>2. \A l \in List, u \in Thread : u \in ToSet(r.list[l]) => r.stat[u] = "SUSPEND"
    BY <1>1, <1>12, <1>14
  <2>3. \A l, m \in List, u \in Thread :
          u \in ToSet(r.list[l]) /\ u \in ToSet(r.list[m]) => l = m
    BY <1>12 DEF CoherentState, KernelCoherent, SuspendListsCoherent
  <2>4. ASSUME NEW u \in r.timer PROVE r.stat[u] = "SUSPEND"
    <3>1. u \in kk.timer /\ u # t
      BY <1>10
    <3>2. u \in Thread
      BY <1>1, <3>1 DEF KernelState
    <3>3. kk.stat[u] = "SUSPEND"
      BY <3>1 DEF CoherentState, KernelCoherent, TimersCoherent
    <3>. QED  BY <3>1, <3>2, <3>3, <1>14
  <2>5. r.stat[Idle] = "READY"
    BY <1>14, KernelAssumption DEF CoherentState, KernelCoherent, IdleReady
  <2>. QED  BY <1>8, <1>9, <2>1, <2>2, <2>3, <2>4, <2>5, CoherentIntro
<1>. QED  BY <1>10, <1>12, <1>15 DEF r, Suspended

\* r is k after the timer of t was started.
TimerStarted(kk, t, r) ==
    /\ CoherentState(r)
    /\ r.stat = kk.stat /\ r.prio = kk.prio /\ r.cur = kk.cur /\ r.lock = kk.lock
    /\ r.error = kk.error /\ r.timer = kk.timer \cup {t} /\ r.list = kk.list

\* rt_timer_start of the timer of a suspended thread.
LEMMA TimerStartCoherent ==
    ASSUME NEW kk, CoherentState(kk), NEW t \in Thread, kk.stat[t] = "SUSPEND"
    PROVE  TimerStarted(kk, t, rt_timer_start(kk, t))
<1>. DEFINE r == rt_timer_start(kk, t)
<1>1. kk \in KernelState
  BY CoherentLists
<1>2. /\ r \in KernelState
      /\ r.stat = kk.stat /\ r.prio = kk.prio /\ r.cur = kk.cur /\ r.lock = kk.lock
      /\ r.error = kk.error /\ r.timer = kk.timer \cup {t} /\ r.list = kk.list
      /\ r.ready = kk.ready /\ r.group = kk.group
  BY <1>1 DEF rt_timer_start, KernelState
<1>. HIDE DEF r
<1>3. ReadyListsCoherent(r)
  <2>1. ReadyListsCoherent(kk)
    BY DEF CoherentState, KernelCoherent
  <2>. QED  BY <1>2, <2>1 DEF ReadyListsCoherent
<1>4. SuspendListsCoherent(r)
  <2>1. SuspendListsCoherent(kk)
    BY DEF CoherentState, KernelCoherent
  <2>. QED  BY <1>2, <2>1 DEF SuspendListsCoherent
<1>5. TimersCoherent(r)
  <2>1. TimersCoherent(kk)
    BY DEF CoherentState, KernelCoherent
  <2>. QED  BY <1>2, <2>1 DEF TimersCoherent
<1>6. IdleReady(r)
  BY <1>2 DEF CoherentState, KernelCoherent, IdleReady
<1>. QED  BY <1>2, <1>3, <1>4, <1>5, <1>6 DEF CoherentState, KernelCoherent, r, TimerStarted

\* r is the kernel after t suspended itself and was put into list l.
Enlisted(kk, t, l, r) ==
    /\ CoherentState(r)
    /\ r.stat = [kk.stat EXCEPT ![t] = "SUSPEND"]
    /\ r.prio = kk.prio /\ r.cur = kk.cur /\ r.lock = kk.lock
    /\ r.error = kk.error /\ r.timer = kk.timer \ {t}
    /\ ToSet(r.list[l]) = ToSet(kk.list[l]) \cup {t}
    /\ \A m \in List \ {l} : r.list[m] = kk.list[m]

\* A suspended thread is put into a list, wherever its place there is.
LEMMA EnlistCoherent ==
    ASSUME NEW kk, CoherentState(kk), NEW t \in Thread, t # Idle, kk.stat[t] = "READY",
           NEW q, Suspended(kk, t, q), NEW l \in List,
           NEW n \in Seq(Thread), IsInjective(n), ToSet(n) = ToSet(q.list[l]) \cup {t},
           NEW r, r = [q EXCEPT !.list[l] = n]
    PROVE  Enlisted(kk, t, l, r)
<1>1. /\ CoherentState(q)
      /\ q.stat = [kk.stat EXCEPT ![t] = "SUSPEND"]
      /\ q.prio = kk.prio /\ q.cur = kk.cur /\ q.lock = kk.lock
      /\ q.error = kk.error /\ q.timer = kk.timer \ {t}
      /\ \A m \in List : q.list[m] = kk.list[m]
  BY DEF Suspended
<1>2. /\ q \in KernelState /\ ListsOK(q)
      /\ \A p \in Prio, u \in Thread :
           u \in ToSet(q.ready[p]) <=> q.stat[u] = "READY" /\ u # q.cur /\ q.prio[u] = p
      /\ \A m \in List, u \in Thread : u \in ToSet(q.list[m]) => q.stat[u] = "SUSPEND"
  BY <1>1, CoherentLists
<1>3. kk \in KernelState /\ \A m \in List : t \notin ToSet(kk.list[m])
  BY CoherentLists
<1>4. \A m \in List : t \notin ToSet(q.list[m])
  BY <1>1, <1>3
<1>5. /\ r \in KernelState
      /\ r.stat = q.stat /\ r.prio = q.prio /\ r.cur = q.cur /\ r.lock = q.lock
      /\ r.error = q.error /\ r.timer = q.timer /\ r.ready = q.ready /\ r.group = q.group
      /\ r.list[l] = n /\ \A m \in List \ {l} : r.list[m] = q.list[m]
  <2>1. q.list \in [List -> Seq(Thread)]
    BY <1>2 DEF KernelState
  <2>2. PICK w : w = [q.list EXCEPT ![l] = n]
    OBVIOUS
  <2>3. w \in [List -> Seq(Thread)] /\ w[l] = n /\ \A m \in List \ {l} : w[m] = q.list[m]
    BY <2>1, <2>2
  <2>4. r = [q EXCEPT !.list = w]
    BY <2>2
  <2>5. r \in KernelState
    <3>1. w \in [List -> Seq(Thread)]
      BY <2>3
    <3>2. q \in KernelState
      BY <1>2
    <3>. QED  BY <2>4, <3>1, <3>2 DEF KernelState
  <2>6. /\ r.stat = q.stat /\ r.prio = q.prio /\ r.cur = q.cur /\ r.lock = q.lock
        /\ r.error = q.error /\ r.timer = q.timer /\ r.ready = q.ready /\ r.group = q.group
        /\ r.list = w
    BY <1>2, <2>4 DEF KernelState
  <2>. QED  BY <2>3, <2>5, <2>6
<1>6. ListsOK(r)
  BY <1>2, <1>5 DEF ListsOK
<1>7. q.stat[t] = "SUSPEND"
  BY <1>1, <1>3 DEF KernelState
<1>8. CoherentState(r)
  <2>1. \A p \in Prio, u \in Thread :
          u \in ToSet(r.ready[p]) <=> r.stat[u] = "READY" /\ u # r.cur /\ r.prio[u] = p
    BY <1>2, <1>5
  <2>2. ASSUME NEW m \in List, NEW u \in Thread, u \in ToSet(r.list[m])
        PROVE  r.stat[u] = "SUSPEND"
    <3>1. CASE m = l
      BY <3>1, <2>2, <1>2, <1>5, <1>7
    <3>2. CASE m # l
      BY <3>2, <2>2, <1>2, <1>5
    <3>. QED  BY <3>1, <3>2
  <2>3. ASSUME NEW m \in List, NEW m2 \in List, NEW u \in Thread,
               u \in ToSet(r.list[m]), u \in ToSet(r.list[m2])
        PROVE  m = m2
    <3>1. \A x, y \in List : x # y => ToSet(q.list[x]) \cap ToSet(q.list[y]) = {}
      BY <1>1 DEF CoherentState, KernelCoherent, SuspendListsCoherent
    <3>2. CASE u = t
      BY <3>2, <2>3, <1>4, <1>5
    <3>3. CASE u # t
      <4>1. u \in ToSet(q.list[m])
        BY <3>3, <2>3, <1>5
      <4>2. u \in ToSet(q.list[m2])
        BY <3>3, <2>3, <1>5
      <4>. QED  BY <3>1, <4>1, <4>2
    <3>. QED  BY <3>2, <3>3
  <2>4. \A u \in r.timer : r.stat[u] = "SUSPEND"
    BY <1>1, <1>5 DEF CoherentState, KernelCoherent, TimersCoherent
  <2>5. r.stat[Idle] = "READY"
    BY <1>1, <1>5 DEF CoherentState, KernelCoherent, IdleReady
  <2>6. \A x \in List, u \in Thread : u \in ToSet(r.list[x]) => r.stat[u] = "SUSPEND"
    BY <2>2
  <2>7. \A x, y \in List, u \in Thread :
          u \in ToSet(r.list[x]) /\ u \in ToSet(r.list[y]) => x = y
    BY <2>3
  <2>8. r \in KernelState
    BY <1>5
  <2>9. ReadyListsCoherent(r)
    BY <1>6, <2>1 DEF ReadyListsCoherent, ListsOK
  <2>10. \A x \in List : ToSet(r.list[x]) \subseteq Thread
    BY <2>8 DEF KernelState, ToSet
  <2>11. SuspendListsCoherent(r)
    BY <1>6, <2>6, <2>7, <2>10 DEF SuspendListsCoherent, ListsOK
  <2>. QED
    BY <2>4, <2>5, <2>8, <2>9, <2>11
       DEF CoherentState, KernelCoherent, TimersCoherent, IdleReady
<1>9. ToSet(r.list[l]) = ToSet(kk.list[l]) \cup {t}
  BY <1>1, <1>5
<1>10. \A m \in List \ {l} : r.list[m] = kk.list[m]
  BY <1>1, <1>5
<1>. QED  BY <1>1, <1>5, <1>8, <1>9, <1>10 DEF Enlisted

\* rt_ipc_list_suspend of a ready thread: it is suspended and in the list.
LEMMA ListSuspendCoherent ==
    ASSUME NEW kk, CoherentState(kk), NEW t \in Thread, t # Idle, kk.stat[t] = "READY",
           NEW l \in List, NEW flag
    PROVE  Enlisted(kk, t, l, rt_ipc_list_suspend(kk, l, t, flag))
<1>1. PICK q : q = rt_thread_suspend(kk, t)
  OBVIOUS
<1>2. Suspended(kk, t, q)
  BY <1>1, SuspendCoherent
<1>3. q.list[l] \in Seq(Thread) /\ IsInjective(q.list[l]) /\ t \notin ToSet(q.list[l])
  <2>1. CoherentState(q) /\ q.list[l] = kk.list[l]
    BY <1>2 DEF Suspended
  <2>2. t \notin ToSet(kk.list[l])
    BY CoherentLists
  <2>. QED  BY <2>1, <2>2, CoherentLists DEF KernelState, ListsOK
<1>4. PICK n : n = IF flag = "FIFO" THEN Append(q.list[l], t)
                   ELSE PrioInsert(q.prio, q.list[l], t)
  OBVIOUS
<1>5. n \in Seq(Thread) /\ IsInjective(n) /\ ToSet(n) = ToSet(q.list[l]) \cup {t}
  BY <1>3, <1>4, AppendToList, PrioInsertProperties
<1>6. rt_ipc_list_suspend(kk, l, t, flag) = [q EXCEPT !.list[l] = n]
  BY <1>1, <1>4 DEF rt_ipc_list_suspend
<1>. QED  BY <1>2, <1>5, <1>6, EnlistCoherent

\* A coherent state whose running thread is runnable and above every ready
\* thread.
LEMMA HighestRunsIntro ==
    ASSUME NEW kk, CoherentState(kk), kk.stat[kk.cur] = "READY",
           \A u \in Thread : kk.stat[u] = "READY" => kk.prio[kk.cur] <= kk.prio[u]
    PROVE  HighestRuns(kk)
<1>1. /\ kk \in KernelState /\ ListsOK(kk)
      /\ \A p \in Prio, u \in Thread :
           u \in ToSet(kk.ready[p]) <=> kk.stat[u] = "READY" /\ u # kk.cur /\ kk.prio[u] = p
  BY CoherentLists
<1>2. ASSUME NEW p \in kk.group PROVE kk.prio[kk.cur] <= p
  <2>1. p \in Prio /\ kk.ready[p] # <<>> /\ kk.ready[p] \in Seq(Thread)
    BY <1>1 DEF ListsOK, KernelState
  <2>2. PICK u \in Thread : u \in ToSet(kk.ready[p])
    BY <2>1, HeadOfList
  <2>. QED  BY <2>1, <2>2, <1>1
<1>. QED  BY <1>2 DEF HighestRuns

\* When somebody is ready but does not run, the bitmap names the highest
\* priority of them and the first thread of its list can be switched to.
LEMMA HighestReady ==
    ASSUME NEW kk, CoherentState(kk), kk.group # {}
    PROVE  /\ highest_ready_priority(kk) \in Prio
           /\ get_highest_priority_thread(kk) \in Thread
           /\ kk.stat[get_highest_priority_thread(kk)] = "READY"
           /\ get_highest_priority_thread(kk) # kk.cur
           /\ kk.prio[get_highest_priority_thread(kk)] = highest_ready_priority(kk)
           /\ \A u \in Thread : kk.stat[u] = "READY" /\ u # kk.cur =>
                 highest_ready_priority(kk) <= kk.prio[u]
<1>1. /\ kk \in KernelState /\ ListsOK(kk)
      /\ \A p \in Prio, u \in Thread :
           u \in ToSet(kk.ready[p]) <=> kk.stat[u] = "READY" /\ u # kk.cur /\ kk.prio[u] = p
  BY CoherentLists
<1>. DEFINE m == highest_ready_priority(kk)
            h == get_highest_priority_thread(kk)
<1>2. kk.group \in SUBSET Nat
  BY <1>1, KernelAssumption DEF KernelState, Prio
<1>3. m \in kk.group /\ \A y \in kk.group : m <= y
  BY <1>2, MinProperties DEF highest_ready_priority
<1>4. h = Head(kk.ready[m])
  BY DEF get_highest_priority_thread
<1>. HIDE DEF m, h
<1>5. m \in Prio /\ kk.ready[m] # <<>> /\ kk.ready[m] \in Seq(Thread)
  BY <1>1, <1>3 DEF ListsOK, KernelState
<1>6. h \in Thread /\ h \in ToSet(kk.ready[m])
  BY <1>4, <1>5, HeadOfList
<1>7. kk.stat[h] = "READY" /\ h # kk.cur /\ kk.prio[h] = m
  BY <1>1, <1>5, <1>6
<1>8. ASSUME NEW u \in Thread, kk.stat[u] = "READY", u # kk.cur PROVE m <= kk.prio[u]
  <2>1. kk.prio[u] \in Prio
    BY <1>1 DEF KernelState
  <2>2. u \in ToSet(kk.ready[kk.prio[u]]) /\ kk.ready[kk.prio[u]] \in Seq(Thread)
    BY <2>1, <1>8, <1>1 DEF KernelState
  <2>3. kk.ready[kk.prio[u]] # <<>>
    BY <2>2, EmptyList
  <2>4. kk.prio[u] \in kk.group
    BY <2>1, <2>3, <1>1 DEF ListsOK
  <2>. QED  BY <2>4, <1>3
<1>. QED  BY <1>5, <1>6, <1>7, <1>8 DEF m, h

\* Switching from one thread to another: the old one, if it is still ready, is
\* queued and the new one leaves its ready list.
LEMMA SwitchCoherent ==
    ASSUME NEW kk, CoherentState(kk), NEW to \in Thread, to # kk.cur, kk.stat[to] = "READY"
    PROVE  LET moved == [kk EXCEPT !.cur = to]
               r == rt_schedule_remove_thread(
                       IF kk.stat[kk.cur] = "READY"
                       THEN rt_schedule_insert_thread(moved, kk.cur)
                       ELSE moved, to)
           IN  /\ CoherentState(r) /\ SameThreads(kk, r) /\ r.cur = to
               /\ \A l \in List : r.list[l] = kk.list[l]
<1>. DEFINE from == kk.cur
            moved == [kk EXCEPT !.cur = to]
            q == IF kk.stat[kk.cur] = "READY" THEN rt_schedule_insert_thread(moved, kk.cur)
                 ELSE moved
            r == rt_schedule_remove_thread(q, to)
<1>1. /\ kk \in KernelState /\ ListsOK(kk)
      /\ \A p \in Prio, u \in Thread :
           u \in ToSet(kk.ready[p]) <=> kk.stat[u] = "READY" /\ u # kk.cur /\ kk.prio[u] = p
      /\ \A l \in List, u \in Thread : u \in ToSet(kk.list[l]) => kk.stat[u] = "SUSPEND"
  BY CoherentLists
<1>2. from \in Thread
  BY <1>1 DEF KernelState
<1>3. /\ moved \in KernelState /\ SameThreads(kk, moved) /\ moved.cur = to
      /\ moved.ready = kk.ready /\ moved.list = kk.list /\ moved.group = kk.group
  BY <1>1 DEF KernelState, SameThreads
<1>. HIDE DEF moved
<1>4. ListsOK(moved)
  BY <1>1, <1>3 DEF ListsOK
<1>5. /\ q \in KernelState /\ ListsOK(q) /\ SameThreads(kk, q) /\ q.cur = to /\ q.list = kk.list
      /\ \A p \in Prio : ToSet(q.ready[p]) = IF kk.stat[from] = "READY" /\ p = kk.prio[from]
                                             THEN ToSet(kk.ready[p]) \cup {from}
                                             ELSE ToSet(kk.ready[p])
  <2>1. CASE kk.stat[kk.cur] = "READY"
    <3>1. \A p \in Prio : from \notin ToSet(moved.ready[p])
      BY <1>1, <1>2, <1>3
    <3>2. q = rt_schedule_insert_thread(moved, from)
      BY <2>1
    <3>. HIDE DEF q
    <3>3. /\ q \in KernelState /\ ListsOK(q)
          /\ q.stat = [moved.stat EXCEPT ![from] = "READY"]
          /\ q.prio = moved.prio /\ q.error = moved.error /\ q.timer = moved.timer
          /\ q.lock = moved.lock /\ q.cur = moved.cur /\ q.list = moved.list
          /\ \A p \in Prio :
               ToSet(q.ready[p]) = IF from # moved.cur /\ p = moved.prio[from]
                                   THEN ToSet(moved.ready[p]) \cup {from}
                                   ELSE ToSet(moved.ready[p])
      <4>1. moved \in KernelState
        BY <1>3
      <4>2. MadeReady(moved, from, q)
        BY <1>2, <1>4, <3>1, <3>2, <4>1, ScheduleInsert
      <4>. QED  BY <4>2 DEF MadeReady
    <3>4. q.stat = kk.stat
      <4>1. moved.stat = kk.stat
        BY <1>3 DEF SameThreads
      <4>. QED  BY <3>3, <4>1, <2>1, <1>1 DEF KernelState
    <3>5. SameThreads(kk, q)
      BY <3>3, <3>4, <1>3 DEF SameThreads
    <3>6. moved.prio = kk.prio /\ from # moved.cur
      BY <1>3 DEF SameThreads
    <3>7. \A p \in Prio : ToSet(q.ready[p]) = IF kk.stat[from] = "READY" /\ p = kk.prio[from]
                                             THEN ToSet(kk.ready[p]) \cup {from}
                                             ELSE ToSet(kk.ready[p])
      BY <2>1, <3>3, <3>6, <1>3
    <3>. QED  BY <3>3, <3>5, <3>7, <1>3
  <2>2. CASE kk.stat[kk.cur] # "READY"
    <3>1. q = moved
      BY <2>2
    <3>. QED  BY <2>2, <3>1, <1>3, <1>4
  <2>. QED  BY <2>1, <2>2
<1>. HIDE DEF q
<1>6. ASSUME NEW p \in Prio, to \in ToSet(q.ready[p]) PROVE p = q.prio[to]
  <2>1. to \in ToSet(kk.ready[p])
    BY <1>5, <1>6
  <2>. QED  BY <2>1, <1>1, <1>5 DEF SameThreads
<1>7. /\ r \in KernelState /\ ListsOK(r) /\ SameThreads(q, r) /\ r.cur = q.cur
      /\ \A p \in Prio : ToSet(r.ready[p]) = ToSet(q.ready[p]) \ {to}
      /\ \A l \in List : to \notin ToSet(q.list[l]) => r.list[l] = q.list[l]
  BY <1>5, <1>6, ScheduleRemove
<1>. HIDE DEF r
<1>8. SameThreads(kk, r) /\ r.cur = to
  BY <1>5, <1>7 DEF SameThreads
<1>9. \A l \in List : to \notin ToSet(kk.list[l])
  BY <1>1
<1>10. \A l \in List : r.list[l] = kk.list[l]
  BY <1>5, <1>7, <1>9
<1>11. CoherentState(r)
  <2>0. r.stat = kk.stat /\ r.prio = kk.prio /\ r.timer = kk.timer
    BY <1>8 DEF SameThreads
  <2>1. ASSUME NEW p \in Prio, NEW u \in Thread
        PROVE  u \in ToSet(r.ready[p]) <=> r.stat[u] = "READY" /\ u # r.cur /\ r.prio[u] = p
    <3>1. u \in ToSet(r.ready[p]) <=> u # to /\ u \in ToSet(q.ready[p])
      BY <1>7
    <3>2. CASE u = from
      <4>1. u \notin ToSet(kk.ready[p])
        BY <3>2, <1>1, <1>2
      <4>2. u \in ToSet(q.ready[p]) <=> kk.stat[u] = "READY" /\ p = kk.prio[u]
        BY <3>2, <4>1, <1>5
      <4>. QED  BY <3>1, <4>2, <2>0, <1>8
    <3>3. CASE u # from
      <4>1. u \in ToSet(q.ready[p]) <=> u \in ToSet(kk.ready[p])
        BY <3>3, <1>5
      <4>. QED  BY <3>1, <3>3, <4>1, <2>0, <1>1, <1>8
    <3>. QED  BY <3>2, <3>3
  <2>2. \A l \in List, u \in Thread : u \in ToSet(r.list[l]) => r.stat[u] = "SUSPEND"
    BY <1>1, <1>10, <2>0
  <2>3. \A l, m \in List, u \in Thread :
          u \in ToSet(r.list[l]) /\ u \in ToSet(r.list[m]) => l = m
    BY <1>10 DEF CoherentState, KernelCoherent, SuspendListsCoherent
  <2>4. \A u \in r.timer : r.stat[u] = "SUSPEND"
    BY <2>0 DEF CoherentState, KernelCoherent, TimersCoherent
  <2>5. r.stat[Idle] = "READY"
    BY <2>0 DEF CoherentState, KernelCoherent, IdleReady
  <2>. QED  BY <1>7, <2>1, <2>2, <2>3, <2>4, <2>5, CoherentIntro
<1>. QED  BY <1>8, <1>10, <1>11 DEF r, q, moved

\* rt_schedule changes which thread runs and nothing else, and unless the
\* scheduler is locked a thread of the highest priority runs after it.
LEMMA ScheduleCoherent ==
    ASSUME NEW kk, CoherentState(kk)
    PROVE  LET r == rt_schedule(kk)
           IN  /\ CoherentState(r) /\ SameThreads(kk, r)
               /\ \A l \in List : r.list[l] = kk.list[l]
               /\ kk.lock = 0 => HighestRuns(r)
<1>. DEFINE r == rt_schedule(kk)
<1>1. /\ kk \in KernelState /\ ListsOK(kk)
      /\ \A p \in Prio, u \in Thread :
           u \in ToSet(kk.ready[p]) <=> kk.stat[u] = "READY" /\ u # kk.cur /\ kk.prio[u] = p
      /\ \A l \in List, u \in Thread : u \in ToSet(kk.list[l]) => kk.stat[u] = "SUSPEND"
  BY CoherentLists
<1>2. kk.cur \in Thread /\ \A u \in Thread : kk.prio[u] \in Prio
  BY <1>1 DEF KernelState
<1>3. \A p \in Prio : p \in Int
  BY KernelAssumption DEF Prio
<1>4. CASE kk.lock # 0 \/ kk.group = {}
  <2>1. r = kk
    BY <1>4 DEF rt_schedule
  <2>2. ASSUME kk.group = {} PROVE HighestRuns(kk)
    <3>1. kk.stat[Idle] = "READY" /\ Idle \in Thread
      BY KernelAssumption DEF CoherentState, KernelCoherent, IdleReady
    <3>2. ASSUME Idle # kk.cur PROVE FALSE
      <4>1. Idle \in ToSet(kk.ready[kk.prio[Idle]]) /\ kk.ready[kk.prio[Idle]] \in Seq(Thread)
        BY <3>1, <3>2, <1>1, <1>2 DEF KernelState
      <4>2. kk.prio[Idle] \in kk.group
        BY <4>1, <3>1, <1>1, <1>2, EmptyList DEF ListsOK
      <4>. QED  BY <4>2, <2>2
    <3>. QED  BY <3>1, <3>2, <2>2 DEF HighestRuns
  <2>. QED  BY <1>4, <2>1, <2>2 DEF SameThreads
<1>5. CASE kk.lock = 0 /\ kk.group # {} /\ KeepsProcessor(kk)
  <2>1. r = rt_schedule_remove_thread(kk, kk.cur)
    BY <1>5 DEF rt_schedule
  <2>. HIDE DEF r
  <2>2. \A p \in Prio : kk.cur \notin ToSet(kk.ready[p])
    BY <1>1, <1>2
  <2>3. /\ r \in KernelState /\ ListsOK(r) /\ SameThreads(kk, r) /\ r.cur = kk.cur
        /\ \A p \in Prio : ToSet(r.ready[p]) = ToSet(kk.ready[p]) \ {kk.cur}
        /\ \A l \in List : kk.cur \notin ToSet(kk.list[l]) => r.list[l] = kk.list[l]
    BY <1>1, <1>2, <2>1, <2>2, ScheduleRemove
  <2>4. \A p \in Prio : ToSet(r.ready[p]) = ToSet(kk.ready[p])
    BY <2>2, <2>3
  <2>5. \A l \in List : kk.cur \notin ToSet(kk.list[l])
    BY <1>1, <1>2, <1>5 DEF KeepsProcessor
  <2>6. \A l \in List : r.list[l] = kk.list[l]
    BY <2>3, <2>5
  <2>7. r.stat = kk.stat /\ r.prio = kk.prio /\ r.timer = kk.timer
    BY <2>3 DEF SameThreads
  <2>8. CoherentState(r)
    <3>1. \A p \in Prio, u \in Thread :
            u \in ToSet(r.ready[p]) <=> r.stat[u] = "READY" /\ u # r.cur /\ r.prio[u] = p
      BY <1>1, <2>3, <2>4, <2>7
    <3>2. \A l \in List, u \in Thread : u \in ToSet(r.list[l]) => r.stat[u] = "SUSPEND"
      BY <1>1, <2>6, <2>7
    <3>3. \A l, m \in List, u \in Thread :
            u \in ToSet(r.list[l]) /\ u \in ToSet(r.list[m]) => l = m
      BY <2>6 DEF CoherentState, KernelCoherent, SuspendListsCoherent
    <3>4. \A u \in r.timer : r.stat[u] = "SUSPEND"
      BY <2>7 DEF CoherentState, KernelCoherent, TimersCoherent
    <3>5. r.stat[Idle] = "READY"
      BY <2>7 DEF CoherentState, KernelCoherent, IdleReady
    <3>. QED  BY <2>3, <3>1, <3>2, <3>3, <3>4, <3>5, CoherentIntro
  <2>9. HighestRuns(r)
    <3>1. kk.stat[kk.cur] = "READY" /\ kk.prio[kk.cur] < highest_ready_priority(kk)
      BY <1>5 DEF KeepsProcessor
    <3>2. /\ highest_ready_priority(kk) \in Prio
          /\ \A u \in Thread : kk.stat[u] = "READY" /\ u # kk.cur =>
                highest_ready_priority(kk) <= kk.prio[u]
      BY <1>5, HighestReady
    <3>3. ASSUME NEW u \in Thread, kk.stat[u] = "READY" PROVE kk.prio[kk.cur] <= kk.prio[u]
      <4>1. CASE u = kk.cur
        BY <4>1, <1>2, <1>3
      <4>2. CASE u # kk.cur
        <5>1. highest_ready_priority(kk) <= kk.prio[u]
          BY <4>2, <3>2, <3>3
        <5>2. kk.prio[u] \in Int /\ kk.prio[kk.cur] \in Int /\ highest_ready_priority(kk) \in Int
          BY <1>2, <1>3, <3>2
        <5>. QED  BY <5>1, <5>2, <3>1
      <4>. QED  BY <4>1, <4>2
    <3>4. r.stat[r.cur] = "READY"
      BY <3>1, <2>3, <2>7
    <3>5. \A u \in Thread : r.stat[u] = "READY" => r.prio[r.cur] <= r.prio[u]
      BY <3>3, <2>3, <2>7
    <3>. QED  BY <2>8, <3>4, <3>5, HighestRunsIntro
  <2>. QED  BY <2>3, <2>6, <2>8, <2>9 DEF r
<1>6. CASE kk.lock = 0 /\ kk.group # {} /\ ~KeepsProcessor(kk)
  <2>. DEFINE to == get_highest_priority_thread(kk)
              m == highest_ready_priority(kk)
  <2>1. /\ m \in Prio /\ to \in Thread /\ kk.stat[to] = "READY" /\ to # kk.cur
        /\ kk.prio[to] = m
        /\ \A u \in Thread : kk.stat[u] = "READY" /\ u # kk.cur => m <= kk.prio[u]
    BY <1>6, HighestReady
  <2>2. kk.stat[kk.cur] = "READY" => ~(kk.prio[kk.cur] < m)
    BY <1>6 DEF KeepsProcessor
  <2>. DEFINE moved == [kk EXCEPT !.cur = to]
              s == rt_schedule_remove_thread(
                      IF kk.stat[kk.cur] = "READY"
                      THEN rt_schedule_insert_thread(moved, kk.cur)
                      ELSE moved, to)
  <2>3. r = s
    BY <1>6, <2>1 DEF rt_schedule
  <2>. HIDE DEF to, m, r
  <2>4. /\ CoherentState(s) /\ SameThreads(kk, s) /\ s.cur = to
        /\ \A l \in List : s.list[l] = kk.list[l]
    BY <2>1, SwitchCoherent
  <2>. HIDE DEF s
  <2>5. r.stat = kk.stat /\ r.prio = kk.prio /\ r.cur = to
    BY <2>3, <2>4 DEF SameThreads
  <2>6. ASSUME NEW u \in Thread, kk.stat[u] = "READY" PROVE m <= kk.prio[u]
    <3>1. CASE u = kk.cur
      <4>1. m \in Int /\ kk.prio[u] \in Int
        BY <1>2, <1>3, <2>1
      <4>. QED  BY <3>1, <4>1, <2>2, <2>6
    <3>2. CASE u # kk.cur
      BY <3>2, <2>1, <2>6
    <3>. QED  BY <3>1, <3>2
  <2>7. HighestRuns(r)
    <3>1. r.stat[r.cur] = "READY"
      BY <2>1, <2>5
    <3>2. \A u \in Thread : r.stat[u] = "READY" => r.prio[r.cur] <= r.prio[u]
      BY <2>1, <2>5, <2>6
    <3>. QED  BY <2>3, <2>4, <3>1, <3>2, HighestRunsIntro
  <2>. QED  BY <2>3, <2>4, <2>7 DEF r
<1>. QED  BY <1>4, <1>5, <1>6

\* RT_THREAD_CTRL_CHANGE_PRIORITY moves a ready thread to the end of its new
\* ready list and changes only the number of any other thread.
LEMMA ChangePriorityCoherent ==
    ASSUME NEW kk, CoherentState(kk), NEW t \in Thread, NEW p0 \in Prio
    PROVE  LET r == rt_thread_change_priority(kk, t, p0)
           IN  /\ CoherentState(r)
               /\ r.stat = kk.stat /\ r.prio = [kk.prio EXCEPT ![t] = p0]
               /\ r.cur = kk.cur /\ r.lock = kk.lock /\ r.error = kk.error /\ r.timer = kk.timer
               /\ \A l \in List : r.list[l] = kk.list[l]
<1>. DEFINE r == rt_thread_change_priority(kk, t, p0)
<1>1. /\ kk \in KernelState /\ ListsOK(kk)
      /\ \A p \in Prio, u \in Thread :
           u \in ToSet(kk.ready[p]) <=> kk.stat[u] = "READY" /\ u # kk.cur /\ kk.prio[u] = p
      /\ \A l \in List, u \in Thread : u \in ToSet(kk.list[l]) => kk.stat[u] = "SUSPEND"
  BY CoherentLists
<1>2. /\ r \in KernelState /\ ListsOK(r)
      /\ r.stat = kk.stat /\ r.prio = [kk.prio EXCEPT ![t] = p0]
      /\ r.cur = kk.cur /\ r.lock = kk.lock /\ r.error = kk.error /\ r.timer = kk.timer
      /\ \A l \in List : r.list[l] = kk.list[l]
      /\ \A p \in Prio, u \in Thread : u \in ToSet(r.ready[p]) <=>
            IF u = t THEN kk.stat[t] = "READY" /\ t # kk.cur /\ p = p0
            ELSE u \in ToSet(kk.ready[p])
  <2>1. CASE kk.stat[t] = "READY"
    <3>. DEFINE k1 == rt_schedule_remove_thread(kk, t)
                k2 == [k1 EXCEPT !.prio[t] = p0]
    <3>1. \A p \in Prio : t \in ToSet(kk.ready[p]) => p = kk.prio[t]
      BY <1>1
    <3>2. /\ k1 \in KernelState /\ ListsOK(k1) /\ SameThreads(kk, k1) /\ k1.cur = kk.cur
          /\ \A p \in Prio : ToSet(k1.ready[p]) = ToSet(kk.ready[p]) \ {t}
          /\ \A l \in List : t \notin ToSet(kk.list[l]) => k1.list[l] = kk.list[l]
      BY <1>1, <3>1, ScheduleRemove
    <3>3. r = rt_schedule_insert_thread(k2, t)
      BY <2>1 DEF rt_thread_change_priority
    <3>. HIDE DEF k1, r
    <3>4. /\ k2 \in KernelState
          /\ k2.stat = k1.stat /\ k2.prio = [k1.prio EXCEPT ![t] = p0]
          /\ k2.cur = k1.cur /\ k2.lock = k1.lock /\ k2.error = k1.error
          /\ k2.timer = k1.timer /\ k2.list = k1.list
          /\ k2.ready = k1.ready /\ k2.group = k1.group
      BY <3>2 DEF KernelState
    <3>. HIDE DEF k2
    <3>5. ListsOK(k2)
      BY <3>2, <3>4 DEF ListsOK
    <3>6. \A p \in Prio : t \notin ToSet(k2.ready[p])
      BY <3>2, <3>4
    <3>7. /\ r \in KernelState /\ ListsOK(r)
          /\ r.stat = [k2.stat EXCEPT ![t] = "READY"]
          /\ r.prio = k2.prio /\ r.error = k2.error /\ r.timer = k2.timer
          /\ r.lock = k2.lock /\ r.cur = k2.cur /\ r.list = k2.list
          /\ \A p \in Prio :
               ToSet(r.ready[p]) = IF t # k2.cur /\ p = k2.prio[t]
                                   THEN ToSet(k2.ready[p]) \cup {t}
                                   ELSE ToSet(k2.ready[p])
      <4>1. k2 \in KernelState
        BY <3>4
      <4>2. MadeReady(k2, t, r)
        BY <3>3, <3>5, <3>6, <4>1, ScheduleInsert
      <4>. QED  BY <4>2 DEF MadeReady
    <3>8. k2.stat = kk.stat /\ k2.prio = [kk.prio EXCEPT ![t] = p0] /\ k2.cur = kk.cur
      BY <3>2, <3>4 DEF SameThreads
    <3>9. r.stat = kk.stat
      BY <2>1, <3>7, <3>8, <1>1 DEF KernelState
    <3>10. /\ r.prio = [kk.prio EXCEPT ![t] = p0]
           /\ r.cur = kk.cur /\ r.lock = kk.lock /\ r.error = kk.error /\ r.timer = kk.timer
      BY <3>2, <3>4, <3>7, <3>8 DEF SameThreads
    <3>11. \A l \in List : t \notin ToSet(kk.list[l])
      BY <2>1, <1>1
    <3>12. \A l \in List : r.list[l] = kk.list[l]
      BY <3>2, <3>4, <3>7, <3>11
    <3>13. k2.prio[t] = p0
      BY <3>8, <1>1 DEF KernelState
    <3>14. ASSUME NEW p \in Prio
           PROVE  ToSet(r.ready[p]) = IF t # kk.cur /\ p = p0
                                      THEN (ToSet(kk.ready[p]) \ {t}) \cup {t}
                                      ELSE ToSet(kk.ready[p]) \ {t}
      <4>1. ToSet(k2.ready[p]) = ToSet(kk.ready[p]) \ {t} /\ k2.cur = kk.cur
        BY <3>2, <3>4
      <4>2. ToSet(r.ready[p]) = IF t # k2.cur /\ p = k2.prio[t]
                                THEN ToSet(k2.ready[p]) \cup {t}
                                ELSE ToSet(k2.ready[p])
        BY <3>7
      <4>. QED  BY <4>1, <4>2, <3>13
    <3>15. ASSUME NEW p \in Prio, NEW u \in Thread
           PROVE  u \in ToSet(r.ready[p]) <=>
                     IF u = t THEN kk.stat[t] = "READY" /\ t # kk.cur /\ p = p0
                     ELSE u \in ToSet(kk.ready[p])
      BY <2>1, <3>14
    <3>. QED  BY <3>7, <3>9, <3>10, <3>12, <3>15
  <2>2. CASE kk.stat[t] # "READY"
    <3>1. r = [kk EXCEPT !.prio[t] = p0]
      BY <2>2 DEF rt_thread_change_priority
    <3>. HIDE DEF r
    <3>2. /\ r \in KernelState
          /\ r.stat = kk.stat /\ r.prio = [kk.prio EXCEPT ![t] = p0]
          /\ r.cur = kk.cur /\ r.lock = kk.lock /\ r.error = kk.error
          /\ r.timer = kk.timer /\ r.list = kk.list
          /\ r.ready = kk.ready /\ r.group = kk.group
      BY <3>1, <1>1 DEF KernelState
    <3>3. ListsOK(r)
      BY <3>2, <1>1 DEF ListsOK
    <3>4. \A p \in Prio : t \notin ToSet(kk.ready[p])
      BY <2>2, <1>1
    <3>. QED  BY <2>2, <3>2, <3>3, <3>4
  <2>. QED  BY <2>1, <2>2
<1>. HIDE DEF r
<1>3. \A u \in Thread : r.prio[u] = IF u = t THEN p0 ELSE kk.prio[u]
  BY <1>1, <1>2 DEF KernelState
<1>4. CoherentState(r)
  <2>1. \A p \in Prio, u \in Thread :
          u \in ToSet(r.ready[p]) <=> r.stat[u] = "READY" /\ u # r.cur /\ r.prio[u] = p
    BY <1>1, <1>2, <1>3
  <2>2. \A l \in List, u \in Thread : u \in ToSet(r.list[l]) => r.stat[u] = "SUSPEND"
    BY <1>1, <1>2
  <2>3. \A l, m \in List, u \in Thread :
          u \in ToSet(r.list[l]) /\ u \in ToSet(r.list[m]) => l = m
    BY <1>2 DEF CoherentState, KernelCoherent, SuspendListsCoherent
  <2>4. \A u \in r.timer : r.stat[u] = "SUSPEND"
    BY <1>2 DEF CoherentState, KernelCoherent, TimersCoherent
  <2>5. r.stat[Idle] = "READY"
    BY <1>2 DEF CoherentState, KernelCoherent, IdleReady
  <2>. QED  BY <1>2, <2>1, <2>2, <2>3, <2>4, <2>5, CoherentIntro
<1>. QED  BY <1>2, <1>4 DEF r

\* The system starts in a coherent state with a thread of the highest priority
\* running.
LEMMA InitCoherent ==
    ASSUME NEW kk \in KernelInits(Thread)
    PROVE  /\ CoherentState(kk) /\ HighestRuns(kk)
           /\ kk.lock = 0 /\ kk.timer = {}
           /\ kk.stat = [t \in Thread |-> "READY"]
           /\ kk.error = [t \in Thread |-> "EOK"]
           /\ \A l \in List : kk.list[l] = <<>>
<1>1. PICK first \in Thread :
         /\ \A u \in Thread : InitPrio[first] <= InitPrio[u]
         /\ \E order \in ReadyOrders(Thread, first) : kk = InitialKernel(Thread, first, order)
  BY DEF KernelInits
<1>2. PICK order \in ReadyOrders(Thread, first) : kk = InitialKernel(Thread, first, order)
  BY <1>1
<1>. DEFINE At(p) == {t \in Thread \ {first} : InitPrio[t] = p}
<1>3. /\ DOMAIN order = Prio /\ order = [p \in Prio |-> order[p]]
      /\ \A p \in Prio : order[p] \in Orders(At(p))
  BY <1>2 DEF ReadyOrders
<1>4. ASSUME NEW p \in Prio
      PROVE  order[p] \in Seq(Thread) /\ IsInjective(order[p]) /\ ToSet(order[p]) = At(p)
  <2>. DEFINE D == 1 .. Cardinality(At(p))
  <2>1. IsFiniteSet(At(p))
    BY KernelAssumption, FS_Subset
  <2>2. Cardinality(At(p)) \in Nat
    BY <2>1, FS_CardinalityType
  <2>3. /\ order[p] \in [D -> At(p)]
        /\ \A i, j \in D : i # j => order[p][i] # order[p][j]
        /\ ToSet(order[p]) = At(p)
    BY <1>3 DEF Orders, SetToSeqs
  <2>4. order[p] \in Seq(Thread)
    <3>. DEFINE n == Cardinality(At(p))
    <3>1. n \in Nat /\ order[p] \in [1 .. n -> Thread]
      BY <2>2, <2>3
    <3>. HIDE DEF n
    <3>. QED  BY <3>1
  <2>. QED  BY <2>3, <2>4 DEF IsInjective
<1>5. order \in [Prio -> Seq(Thread)]
  BY <1>3, <1>4
<1>6. "READY" \in Stat /\ "EOK" \in Error
  BY DEF Stat, Error
<1>7. /\ kk.stat = [t \in Thread |-> "READY"] /\ kk.prio = InitPrio /\ kk.ready = order
      /\ kk.group = {p \in Prio : order[p] # <<>>} /\ kk.list = [l \in List |-> <<>>]
      /\ kk.cur = first /\ kk.lock = 0 /\ kk.error = [t \in Thread |-> "EOK"] /\ kk.timer = {}
  BY <1>2 DEF InitialKernel
<1>8. kk \in KernelState
  BY <1>2, <1>5, <1>6, KernelAssumption DEF InitialKernel, KernelState
<1>9. \A l \in List : kk.list[l] = <<>> /\ ToSet(kk.list[l]) = {} /\ IsInjective(kk.list[l])
  BY <1>7 DEF ToSet, IsInjective
<1>10. ListsOK(kk)
  BY <1>4, <1>7, <1>9 DEF ListsOK
<1>11. CoherentState(kk)
  <2>1. \A p \in Prio, u \in Thread :
          u \in ToSet(kk.ready[p]) <=> kk.stat[u] = "READY" /\ u # kk.cur /\ kk.prio[u] = p
    BY <1>4, <1>7
  <2>2. kk.stat[Idle] = "READY"
    BY <1>7, KernelAssumption
  <2>3. \A l \in List, u \in Thread : u \in ToSet(kk.list[l]) => kk.stat[u] = "SUSPEND"
    BY <1>9
  <2>4. \A l, m \in List, u \in Thread :
          u \in ToSet(kk.list[l]) /\ u \in ToSet(kk.list[m]) => l = m
    BY <1>9
  <2>5. \A u \in kk.timer : kk.stat[u] = "SUSPEND"
    BY <1>7
  <2>. QED  BY <1>8, <1>10, <2>1, <2>2, <2>3, <2>4, <2>5, CoherentIntro
<1>12. HighestRuns(kk)
  <2>1. kk.stat[kk.cur] = "READY"
    BY <1>7
  <2>2. \A u \in Thread : kk.stat[u] = "READY" => kk.prio[kk.cur] <= kk.prio[u]
    BY <1>1, <1>7
  <2>. QED  BY <1>11, <2>1, <2>2, HighestRunsIntro
<1>. QED  BY <1>7, <1>9, <1>11, <1>12

-----------------------------------------------------------------------------
(* Lists sorted by priority *)

Sorted(prio, s) == \A i, j \in 1 .. Len(s) : i < j => prio[s[i]] <= prio[s[j]]

\* A list stays sorted when a thread leaves it.
LEMMA RemoveFirstSorted ==
    ASSUME NEW S, NEW s \in Seq(S), NEW prio, Sorted(prio, s), NEW e
    PROVE  Sorted(prio, RemoveFirst(s, e))
<1>1. CASE \A i \in 1 .. Len(s) : s[i] # e
  BY <1>1 DEF RemoveFirst
<1>2. CASE \E i \in 1 .. Len(s) : s[i] = e
  <2>. DEFINE I == {i \in 1 .. Len(s) : s[i] = e}
              n == SelectInSeq(s, LAMBDA v : v = e)
              r == RemoveAt(s, n)
  <2>1. n = Min(I) /\ I \in SUBSET Nat /\ I # {}
    BY <1>2 DEF SelectInSeq
  <2>2. n \in 1 .. Len(s)
    <3>1. n \in I
      <4>. HIDE DEF I, n
      <4>. QED  BY <2>1, MinProperties
    <3>. QED  BY <3>1
  <2>3. RemoveFirst(s, e) = r
    BY <1>2 DEF RemoveFirst
  <2>. HIDE DEF n
  <2>4. /\ r \in Seq(S) /\ Len(r) = Len(s) - 1
        /\ \A j \in 1 .. Len(s) - 1 : r[j] = IF j < n THEN s[j] ELSE s[j + 1]
    BY <2>2, RemoveAtProperties
  <2>. HIDE DEF r
  <2>5. ASSUME NEW i \in 1 .. Len(r), NEW j \in 1 .. Len(r), i < j
        PROVE  prio[r[i]] <= prio[r[j]]
    <3>. DEFINE Old(x) == IF x < n THEN x ELSE x + 1
    <3>1. Old(i) \in 1 .. Len(s) /\ Old(j) \in 1 .. Len(s) /\ Old(i) < Old(j)
      BY <2>2, <2>4, <2>5
    <3>2. r[i] = s[Old(i)] /\ r[j] = s[Old(j)]
      BY <2>4
    <3>. HIDE DEF Old
    <3>. QED  BY <3>1, <3>2 DEF Sorted
  <2>. QED  BY <2>3, <2>5 DEF Sorted
<1>. QED  BY <1>1, <1>2

\* PrioInsert keeps a list sorted.
LEMMA PrioInsertSorted ==
    ASSUME NEW S, NEW s \in Seq(S), IsInjective(s), NEW t \in S, t \notin ToSet(s),
           NEW prio, \A u \in S : prio[u] \in Int, Sorted(prio, s)
    PROVE  Sorted(prio, PrioInsert(prio, s, t))
<1>. DEFINE I == {i \in 1 .. Len(s) : prio[t] < prio[s[i]]}
            n == SelectInSeq(s, LAMBDA u : prio[t] < prio[u])
            r == PrioInsert(prio, s, t)
<1>1. n = IF I # {} THEN Min(I) ELSE 0
  BY DEF SelectInSeq
<1>2. I \in SUBSET Nat /\ I \subseteq 1 .. Len(s)
      /\ \A i \in 1 .. Len(s) : i \in I <=> prio[t] < prio[s[i]]
  OBVIOUS
<1>3. r = IF n = 0 THEN Append(s, t) ELSE InsertAt(s, n, t)
  BY DEF PrioInsert
<1>4. \A i \in 1 .. Len(s) : s[i] \in S
  OBVIOUS
<1>5. prio[t] \in Int /\ \A i \in 1 .. Len(s) : prio[s[i]] \in Int
  BY <1>4
<1>. HIDE DEF I, n, r
<1>6. CASE I = {}
  <2>1. /\ r = Append(s, t) /\ Len(r) = Len(s) + 1
        /\ \A i \in 1 .. Len(s) : r[i] = s[i]
        /\ r[Len(s) + 1] = t
    BY <1>1, <1>3, <1>6
  <2>2. \A i \in 1 .. Len(s) : prio[s[i]] <= prio[t]
    BY <1>2, <1>5, <1>6
  <2>3. ASSUME NEW i \in 1 .. Len(r), NEW j \in 1 .. Len(r), i < j
        PROVE  prio[r[i]] <= prio[r[j]]
    <3>1. i \in 1 .. Len(s) /\ (j \in 1 .. Len(s) \/ j = Len(s) + 1)
      BY <2>1, <2>3
    <3>. QED  BY <2>1, <2>2, <2>3, <3>1 DEF Sorted
  <2>. QED  BY <2>3 DEF Sorted, r
<1>7. CASE I # {}
  <2>1. n \in I /\ \A i \in I : n <= i
    BY <1>1, <1>2, <1>7, MinProperties
  <2>2. n \in 1 .. Len(s) /\ prio[t] < prio[s[n]]
    BY <1>2, <2>1
  <2>3. r = InsertAt(s, n, t)
    BY <1>3, <2>2
  <2>4. /\ Len(r) = Len(s) + 1
        /\ \A j \in 1 .. Len(s) + 1 :
             r[j] = IF j < n THEN s[j] ELSE IF j = n THEN t ELSE s[j - 1]
    BY <2>2, <2>3, InsertAtProperties
  <2>5. \A i \in 1 .. Len(s) : i < n => prio[s[i]] <= prio[t]
    BY <1>2, <1>5, <2>1, <2>2
  <2>6. \A i \in 1 .. Len(s) : n <= i => prio[t] <= prio[s[i]]
    <3>1. ASSUME NEW i \in 1 .. Len(s), n <= i PROVE prio[t] <= prio[s[i]]
      <4>1. i = n \/ n < i
        BY <2>2, <3>1
      <4>2. prio[s[n]] <= prio[s[i]]
        BY <1>5, <2>2, <4>1 DEF Sorted
      <4>. QED  BY <1>5, <2>2, <4>2
    <3>. QED  BY <3>1
  <2>7. ASSUME NEW i \in 1 .. Len(r), NEW j \in 1 .. Len(r), i < j
        PROVE  prio[r[i]] <= prio[r[j]]
    <3>1. CASE j < n
      <4>1. i \in 1 .. Len(s) /\ j \in 1 .. Len(s) /\ r[i] = s[i] /\ r[j] = s[j]
        BY <2>2, <2>4, <2>7, <3>1
      <4>. QED  BY <2>7, <4>1 DEF Sorted
    <3>2. CASE j = n
      BY <2>2, <2>4, <2>5, <2>7, <3>2
    <3>3. CASE n < j /\ i < n
      <4>1. i \in 1 .. Len(s) /\ j - 1 \in 1 .. Len(s) /\ i < j - 1
        BY <2>2, <2>4, <3>3
      <4>2. r[i] = s[i] /\ r[j] = s[j - 1]
        BY <2>2, <2>4, <3>3
      <4>. QED  BY <4>1, <4>2 DEF Sorted
    <3>4. CASE i = n
      <4>1. j - 1 \in 1 .. Len(s) /\ n <= j - 1 /\ r[i] = t /\ r[j] = s[j - 1]
        BY <2>2, <2>4, <2>7, <3>4
      <4>. QED  BY <2>6, <4>1
    <3>5. CASE n < i
      <4>1. i - 1 \in 1 .. Len(s) /\ j - 1 \in 1 .. Len(s) /\ i - 1 < j - 1
        BY <2>2, <2>4, <2>7, <3>5
      <4>2. r[i] = s[i - 1] /\ r[j] = s[j - 1]
        BY <2>2, <2>4, <2>7, <3>5
      <4>. QED  BY <4>1, <4>2 DEF Sorted
    <3>. QED  BY <2>2, <2>7, <3>1, <3>2, <3>3, <3>4, <3>5
  <2>. QED  BY <2>7 DEF Sorted, r
<1>. QED  BY <1>6, <1>7

\* The threads keep their priorities, and a list loses at most one of its own.
Prunes(q, r) ==
    /\ r.prio = q.prio
    /\ \A l \in List : r.list[l] = q.list[l] \/ \E e : r.list[l] = RemoveFirst(q.list[l], e)

\* Waking a thread, from its list or by its timer, prunes.
LEMMA WakePrunes ==
    ASSUME NEW q, q \in KernelState, NEW t \in Thread, NEW e \in Error
    PROVE  /\ Prunes(q, rt_thread_resume(q, t))
           /\ Prunes(q, rt_thread_resume([q EXCEPT !.error[t] = e], t))
           /\ Prunes(q, rt_thread_timeout(q, t))
<1>. DEFINE Fields == {"stat", "prio", "ready", "group", "list", "cur", "lock", "error", "timer"}
            Without(s) == /\ DOMAIN s = Fields /\ s.prio = q.prio
                          /\ \A l \in List : s.list[l] = RemoveFirst(q.list[l], t)
<1>1. ASSUME NEW s, Without(s) PROVE Prunes(q, rt_schedule_insert_thread(s, t))
  <2>. DEFINE w == rt_schedule_insert_thread(s, t)
  <2>1. w.prio = s.prio /\ w.list = s.list
    BY <1>1 DEF rt_schedule_insert_thread
  <2>. HIDE DEF w
  <2>2. Prunes(q, w)
    BY <1>1, <2>1 DEF Prunes
  <2>. QED  BY <2>2 DEF w
<1>2. ASSUME NEW r \in KernelState, r.prio = q.prio, r.list = q.list
      PROVE  Without(rt_list_remove(r, t)) /\ Without(rt_timer_stop(rt_list_remove(r, t), t))
  <2>. DEFINE s == rt_list_remove(r, t)
              w == rt_timer_stop(s, t)
  <2>1. Without(s)
    BY <1>2 DEF rt_list_remove, KernelState
  <2>. HIDE DEF s
  <2>2. Without(w)
    BY <2>1 DEF rt_timer_stop
  <2>. QED  BY <2>1, <2>2 DEF s, w
<1>. HIDE DEF Without
<1>3. ASSUME NEW r \in KernelState, r.prio = q.prio, r.list = q.list
      PROVE  Prunes(q, rt_thread_resume(r, t))
  <2>1. rt_thread_resume(r, t) = IF r.stat[t] # "SUSPEND" THEN r
           ELSE rt_schedule_insert_thread(rt_timer_stop(rt_list_remove(r, t), t), t)
    BY DEF rt_thread_resume
  <2>2. Prunes(q, rt_schedule_insert_thread(rt_timer_stop(rt_list_remove(r, t), t), t))
    BY <1>1, <1>2, <1>3
  <2>3. Prunes(q, r)
    BY <1>3 DEF Prunes
  <2>. QED  BY <2>1, <2>2, <2>3
<1>4. Prunes(q, rt_thread_resume(q, t))
  BY <1>3
<1>5. Prunes(q, rt_thread_resume([q EXCEPT !.error[t] = e], t))
  <2>. DEFINE r == [q EXCEPT !.error[t] = e]
  <2>1. r \in KernelState /\ r.prio = q.prio /\ r.list = q.list
    BY DEF KernelState
  <2>. HIDE DEF r
  <2>2. Prunes(q, rt_thread_resume(r, t))
    BY <1>3, <2>1
  <2>. QED  BY <2>2 DEF r
<1>6. Prunes(q, rt_thread_timeout(q, t))
  <2>. DEFINE r == [rt_timer_stop(q, t) EXCEPT !.error[t] = "ETIMEOUT"]
  <2>1. r \in KernelState /\ r.prio = q.prio /\ r.list = q.list
    BY DEF rt_timer_stop, KernelState, Error
  <2>2. rt_thread_timeout(q, t) = rt_schedule_insert_thread(rt_list_remove(r, t), t)
    BY DEF rt_thread_timeout
  <2>. HIDE DEF r
  <2>3. Without(rt_list_remove(r, t))
    BY <1>2, <2>1
  <2>. QED  BY <1>1, <2>2, <2>3
<1>. QED  BY <1>4, <1>5, <1>6

\* rt_schedule leaves the lists and the priorities alone.
LEMMA SchedulePrunes ==
    ASSUME NEW q, NEW r, CoherentState(r), Prunes(q, r)
    PROVE  Prunes(q, rt_schedule(r))
<1>. DEFINE s == rt_schedule(r)
<1>1. /\ CoherentState(s) /\ SameThreads(r, s)
      /\ \A l \in List : s.list[l] = r.list[l]
      /\ r.lock = 0 => HighestRuns(s)
  BY ScheduleCoherent
<1>. HIDE DEF s
<1>2. Prunes(q, s)
  BY <1>1 DEF Prunes, SameThreads
<1>. QED  BY <1>2 DEF s

-----------------------------------------------------------------------------
(* The invariant of the services *)

\* Where a call that has begun can be, and the places at which it works on an
\* object.
Waits == {"wait_sched", "wait_ret"}
Sleeps == {"sleep_sched", "sleep_ret"}
WorksOnObject == Waits \cup {"irq_off", "del", "del_one", "done_set"}

\* Every thread is ready or suspended, and the scheduler is not locked.
Started == k.lock = 0 /\ \A t \in Thread : k.stat[t] \in {"READY", "SUSPEND"}

\* The running thread is ready, except between its suspension and its call of
\* rt_schedule.
RunnerReady == k.stat[k.cur] = "READY" \/ pc[k.cur] \in {"wait_sched", "sleep_sched"}

\* The idle thread makes no calls; a call on an object has an object.
CallsHaveObjects ==
    /\ pc[Idle] = "run"
    /\ \A t \in Thread : pc[t] \in WorksOnObject => on[t] \in Object

IpcInv ==
    /\ IpcTypeOK /\ Coherent
    /\ Started /\ RunnerReady /\ CallsHaveObjects
    /\ NobodyStranded

-----------------------------------------------------------------------------
\* Steps of the kernel that only wake threads and choose who runs: nobody
\* becomes suspended, a thread that stays suspended stays in its list and
\* keeps its timer, and a thread that is switched to is ready.
Eases(q, r) ==
    /\ CoherentState(r) /\ r.lock = q.lock
    /\ \A u \in Thread : r.stat[u] = q.stat[u] \/ r.stat[u] = "READY"
    /\ \A u \in Thread : r.stat[u] = "SUSPEND" => (u \in q.timer => u \in r.timer)
    /\ \A l \in List : ToSet(r.list[l]) \subseteq ToSet(q.list[l])
    /\ \A l \in List, u \in Thread :
          u \in ToSet(q.list[l]) /\ r.stat[u] = "SUSPEND" => u \in ToSet(r.list[l])
    /\ r.cur = q.cur \/ r.stat[r.cur] = "READY"

\* A kernel eases into itself.
LEMMA EasesReflexive ==
    ASSUME NEW q, CoherentState(q)
    PROVE  Eases(q, q)
  BY DEF Eases

\* Two easing steps make one.
LEMMA EasesTransitive ==
    ASSUME NEW q, NEW r, NEW s, CoherentState(q), Eases(q, r), Eases(r, s)
    PROVE  Eases(q, s)
<1>1. r \in KernelState /\ s \in KernelState
  BY DEF Eases, CoherentState
<1>2. r.cur \in Thread /\ s.cur \in Thread
  BY <1>1 DEF KernelState
<1>3. \A u \in Thread : s.stat[u] = "SUSPEND" => r.stat[u] = "SUSPEND"
  BY DEF Eases
<1>4. s.cur = q.cur \/ s.stat[s.cur] = "READY"
  BY <1>2 DEF Eases
<1>. QED  BY <1>3, <1>4 DEF Eases

\* rt_schedule suspends nobody and queues nobody.
LEMMA ScheduleEases ==
    ASSUME NEW q, CoherentState(q), q.lock = 0
    PROVE  Eases(q, rt_schedule(q)) /\ rt_schedule(q).stat[rt_schedule(q).cur] = "READY"
<1>. DEFINE r == rt_schedule(q)
<1>1. /\ CoherentState(r) /\ SameThreads(q, r)
      /\ \A l \in List : r.list[l] = q.list[l]
      /\ HighestRuns(r)
  BY ScheduleCoherent
<1>. HIDE DEF r
<1>2. r.stat = q.stat /\ r.timer = q.timer /\ r.lock = q.lock /\ r.stat[r.cur] = "READY"
  BY <1>1 DEF SameThreads, HighestRuns
<1>. QED  BY <1>1, <1>2 DEF Eases, r

\* Waking one thread eases the kernel.
LEMMA WokenEases ==
    ASSUME NEW q, CoherentState(q), NEW t \in Thread, NEW e, NEW r, Woken(q, t, e, r)
    PROVE  Eases(q, r)
<1>1. q \in KernelState
  BY DEF CoherentState
<1>2. \A u \in Thread : r.stat[u] = IF u = t THEN "READY" ELSE q.stat[u]
  BY <1>1 DEF Woken, KernelState
<1>3. \A l \in List : ToSet(r.list[l]) = ToSet(q.list[l]) \ {t}
  BY DEF Woken
<1>4. CoherentState(r) /\ r.lock = q.lock /\ r.cur = q.cur /\ r.timer = q.timer \ {t}
  BY DEF Woken
<1>. QED  BY <1>2, <1>3, <1>4 DEF Eases

\* The head of a list that is not empty is a suspended thread.
LEMMA HeadSuspended ==
    ASSUME NEW q, CoherentState(q), NEW l \in List, q.list[l] # <<>>
    PROVE  /\ Head(q.list[l]) \in Thread /\ Head(q.list[l]) \in ToSet(q.list[l])
           /\ q.stat[Head(q.list[l])] = "SUSPEND"
<1>1. q \in KernelState /\ \A m \in List, t \in Thread : t \in ToSet(q.list[m]) => q.stat[t] = "SUSPEND"
  BY CoherentLists
<1>2. q.list[l] \in Seq(Thread)
  BY <1>1 DEF KernelState
<1>3. Head(q.list[l]) \in Thread /\ Head(q.list[l]) \in ToSet(q.list[l])
  BY <1>2, HeadOfList
<1>. QED  BY <1>1, <1>3

\* rt_ipc_list_resume eases the kernel.
LEMMA ListResumeEases ==
    ASSUME NEW q, CoherentState(q), NEW l \in List, q.list[l] # <<>>
    PROVE  Eases(q, rt_ipc_list_resume(q, l))
<1>1. Head(q.list[l]) \in Thread /\ q.stat[Head(q.list[l])] = "SUSPEND"
  BY HeadSuspended
<1>2. Woken(q, Head(q.list[l]), q.error[Head(q.list[l])], rt_thread_resume(q, Head(q.list[l])))
  BY <1>1, PlainResumeWakes
<1>. QED  BY <1>1, <1>2, WokenEases DEF rt_ipc_list_resume

\* One turn of rt_ipc_list_resume_all eases the kernel.
LEMMA ResumeFirstEases ==
    ASSUME CoherentState(k), NEW o \in Object, k.list[o] # <<>>
    PROVE  Eases(k, ResumeFirst(o))
<1>. DEFINE t == Head(k.list[o])
<1>1. t \in Thread /\ k.stat[t] = "SUSPEND"
  BY HeadSuspended DEF Object
<1>2. "ERROR" \in Error
  BY DEF Error
<1>3. ResumeFirst(o) = rt_thread_resume([k EXCEPT !.error[t] = "ERROR"], t)
  BY DEF ResumeFirst
<1>. HIDE DEF t
<1>4. Woken(k, t, "ERROR", rt_thread_resume([k EXCEPT !.error[t] = "ERROR"], t))
  BY <1>1, <1>2, ResumeWakes
<1>. QED  BY <1>1, <1>3, <1>4, WokenEases

\* rt_thread_timeout eases the kernel.
LEMMA TimeoutEases ==
    ASSUME NEW q, CoherentState(q), NEW t \in q.timer
    PROVE  Eases(q, rt_thread_timeout(q, t))
<1>1. t \in Thread /\ Woken(q, t, "ETIMEOUT", rt_thread_timeout(q, t))
  BY TimeoutWakes
<1>. QED  BY <1>1, WokenEases

\* Changing a priority eases the kernel.
LEMMA ChangePriorityEases ==
    ASSUME NEW q, CoherentState(q), NEW t \in Thread, NEW p \in Prio
    PROVE  Eases(q, rt_thread_change_priority(q, t, p))
<1>. DEFINE r == rt_thread_change_priority(q, t, p)
<1>1. /\ CoherentState(r)
      /\ r.stat = q.stat /\ r.prio = [q.prio EXCEPT ![t] = p]
      /\ r.cur = q.cur /\ r.lock = q.lock /\ r.error = q.error /\ r.timer = q.timer
      /\ \A l \in List : r.list[l] = q.list[l]
  BY ChangePriorityCoherent
<1>. HIDE DEF r
<1>. QED  BY <1>1 DEF Eases, r

\* Writing thread->error changes nothing else.
LEMMA ErrorCoherent ==
    ASSUME NEW q, CoherentState(q), NEW t \in Thread, NEW e \in Error,
           NEW r, r = [q EXCEPT !.error[t] = e]
    PROVE  /\ CoherentState(r)
           /\ r.stat = q.stat /\ r.prio = q.prio /\ r.cur = q.cur /\ r.lock = q.lock
           /\ r.timer = q.timer /\ r.list = q.list
<1>1. q \in KernelState
  BY DEF CoherentState
<1>2. /\ r \in KernelState
      /\ r.stat = q.stat /\ r.prio = q.prio /\ r.cur = q.cur /\ r.lock = q.lock
      /\ r.timer = q.timer /\ r.list = q.list /\ r.ready = q.ready /\ r.group = q.group
  BY <1>1 DEF KernelState
<1>3. ReadyListsCoherent(q) /\ SuspendListsCoherent(q) /\ TimersCoherent(q) /\ IdleReady(q)
  BY DEF CoherentState, KernelCoherent
<1>4. ReadyListsCoherent(r)
  BY <1>2, <1>3 DEF ReadyListsCoherent
<1>5. SuspendListsCoherent(r)
  BY <1>2, <1>3 DEF SuspendListsCoherent
<1>6. TimersCoherent(r) /\ IdleReady(r)
  BY <1>2, <1>3 DEF TimersCoherent, IdleReady
<1>. QED  BY <1>2, <1>4, <1>5, <1>6 DEF CoherentState, KernelCoherent

\* A step after which no list has a thread it did not have before.
NoNewWaiter == \A x \in Object : Waiting(x)' \subseteq Waiting(x)

\* Whoever still waits after an easing step waited before it.
LEMMA EasedWaiters ==
    ASSUME Eases(k, k')
    PROVE  NoNewWaiter
  BY DEF Eases, NoNewWaiter, Waiting, Object

-----------------------------------------------------------------------------
(* The three kinds of steps *)

\* A step of an interrupt handler, or of a call that stays where it is.
LEMMA EasedKernel ==
    ASSUME IpcInv, Eases(k, k'), UNCHANGED <<open, pc, on, corrupt>>
    PROVE  IpcInv' /\ NoNewWaiter
<1>1. k \in KernelState /\ CoherentState(k)
  BY DEF IpcInv, IpcTypeOK, Coherent, CoherentState
<1>2. /\ CoherentState(k') /\ k'.lock = k.lock
      /\ \A u \in Thread : k'.stat[u] = k.stat[u] \/ k'.stat[u] = "READY"
      /\ \A u \in Thread : k'.stat[u] = "SUSPEND" => (u \in k.timer => u \in k'.timer)
      /\ \A l \in List : ToSet(k'.list[l]) \subseteq ToSet(k.list[l])
      /\ \A l \in List, u \in Thread :
            u \in ToSet(k.list[l]) /\ k'.stat[u] = "SUSPEND" => u \in ToSet(k'.list[l])
      /\ k'.cur = k.cur \/ k'.stat[k'.cur] = "READY"
  BY DEF Eases
<1>3. k' \in KernelState /\ k.cur \in Thread
  BY <1>1, <1>2 DEF CoherentState, KernelState
<1>4. (IpcTypeOK /\ Coherent)'
  BY <1>2, <1>3 DEF IpcInv, IpcTypeOK, Coherent, CoherentState
<1>5. Started'
  BY <1>2 DEF IpcInv, Started
<1>6. RunnerReady'
  BY <1>2, <1>3 DEF IpcInv, RunnerReady
<1>7. CallsHaveObjects'
  BY DEF IpcInv, CallsHaveObjects
<1>8. NobodyStranded'
  <2>1. ASSUME NEW u \in Thread, NEW o \in Object, u \in Waiting(o)'
        PROVE  on'[u] = o /\ pc'[u] \in {"wait_sched", "wait_ret"}
    <3>1. u \in Waiting(o)
      BY <2>1, <1>2 DEF Waiting, Object
    <3>. QED  BY <3>1 DEF IpcInv, NobodyStranded
  <2>2. ASSUME NEW u \in Thread, k'.stat[u] = "SUSPEND"
        PROVE  \/ \E o \in Object : u \in Waiting(o)'
               \/ pc'[u] \in {"sleep_sched", "sleep_ret"} /\ u \in k'.timer
    <3>1. k.stat[u] = "SUSPEND"
      BY <1>2, <2>2
    <3>2. \/ \E o \in Object : u \in Waiting(o)
          \/ pc[u] \in {"sleep_sched", "sleep_ret"} /\ u \in k.timer
      BY <3>1 DEF IpcInv, NobodyStranded
    <3>3. ASSUME NEW o \in Object, u \in Waiting(o) PROVE u \in Waiting(o)'
      BY <1>2, <2>2, <3>3 DEF Waiting, Object
    <3>. QED  BY <1>2, <2>2, <3>2, <3>3
  <2>. QED  BY <2>1, <2>2 DEF NobodyStranded
<1>. QED  BY <1>4, <1>5, <1>6, <1>7, <1>8, EasedWaiters DEF IpcInv

\* A step of a call that goes on or returns: the thread is ready, or it has
\* suspended itself and calls rt_schedule.
LEMMA EasedCall ==
    ASSUME IpcInv, Eases(k, k'),
           NEW t \in App, t = k.cur, NEW label \in PC, NEW o \in Object \cup {NoObject},
           Goes(t, label, o), label \in WorksOnObject => o \in Object,
           \/ k.stat[t] = "READY"
           \/ /\ k'.stat[k'.cur] = "READY"
              /\ \/ pc[t] = "wait_sched" /\ label = "wait_ret" /\ o = on[t]
                 \/ pc[t] = "sleep_sched" /\ label = "sleep_ret",
           open' \subseteq Object, corrupt' \in BOOLEAN
    PROVE  IpcInv' /\ NoNewWaiter
<1>1. k \in KernelState /\ CoherentState(k) /\ t \in Thread /\ t # Idle
  BY DEF IpcInv, IpcTypeOK, Coherent, CoherentState, App
<1>2. /\ CoherentState(k') /\ k'.lock = k.lock
      /\ \A u \in Thread : k'.stat[u] = k.stat[u] \/ k'.stat[u] = "READY"
      /\ \A u \in Thread : k'.stat[u] = "SUSPEND" => (u \in k.timer => u \in k'.timer)
      /\ \A l \in List : ToSet(k'.list[l]) \subseteq ToSet(k.list[l])
      /\ \A l \in List, u \in Thread :
            u \in ToSet(k.list[l]) /\ k'.stat[u] = "SUSPEND" => u \in ToSet(k'.list[l])
      /\ k'.cur = k.cur \/ k'.stat[k'.cur] = "READY"
  BY DEF Eases
<1>3. k' \in KernelState
  BY <1>2 DEF CoherentState
<1>4. /\ pc \in [Thread -> PC] /\ on \in [Thread -> Object \cup {NoObject}]
      /\ pc' \in [Thread -> PC] /\ on' \in [Thread -> Object \cup {NoObject}]
      /\ pc'[t] = label /\ on'[t] = o
      /\ \A u \in Thread \ {t} : pc'[u] = pc[u] /\ on'[u] = on[u]
  BY <1>1 DEF IpcInv, IpcTypeOK, Goes
<1>5. (IpcTypeOK /\ Coherent)'
  BY <1>2, <1>3, <1>4 DEF IpcTypeOK, Coherent, CoherentState
<1>6. Started'
  BY <1>2 DEF IpcInv, Started
<1>7. RunnerReady'
  BY <1>1, <1>2 DEF RunnerReady
<1>8. CallsHaveObjects'
  BY <1>1, <1>4, KernelAssumption DEF IpcInv, CallsHaveObjects
<1>9. NobodyStranded'
  <2>1. ASSUME NEW u \in Thread, NEW x \in Object, u \in Waiting(x)'
        PROVE  on'[u] = x /\ pc'[u] \in {"wait_sched", "wait_ret"}
    <3>1. u \in Waiting(x)
      BY <2>1, <1>2 DEF Waiting, Object
    <3>2. on[u] = x /\ pc[u] \in {"wait_sched", "wait_ret"} /\ k.stat[u] = "SUSPEND"
      <4>1. k.stat[u] = "SUSPEND"
        BY <1>1, <3>1, CoherentLists DEF Waiting, Object
      <4>. QED  BY <3>1, <4>1 DEF IpcInv, NobodyStranded
    <3>3. CASE u = t
      BY <3>2, <3>3, <1>4
    <3>4. CASE u # t
      BY <3>2, <3>4, <1>4
    <3>. QED  BY <3>3, <3>4
  <2>2. ASSUME NEW u \in Thread, k'.stat[u] = "SUSPEND"
        PROVE  \/ \E x \in Object : u \in Waiting(x)'
               \/ pc'[u] \in {"sleep_sched", "sleep_ret"} /\ u \in k'.timer
    <3>1. k.stat[u] = "SUSPEND"
      BY <1>2, <2>2
    <3>2. \/ \E x \in Object : u \in Waiting(x)
          \/ pc[u] \in {"sleep_sched", "sleep_ret"} /\ u \in k.timer
      BY <3>1 DEF IpcInv, NobodyStranded
    <3>3. ASSUME NEW x \in Object, u \in Waiting(x) PROVE u \in Waiting(x)'
      BY <1>2, <2>2, <3>3 DEF Waiting, Object
    <3>4. ASSUME pc[u] \in {"sleep_sched", "sleep_ret"}
          PROVE  pc'[u] \in {"sleep_sched", "sleep_ret"}
      <4>1. CASE u = t
        BY <4>1, <3>1, <3>4, <1>4
      <4>2. CASE u # t
        BY <4>2, <3>4, <1>4
      <4>. QED  BY <4>1, <4>2
    <3>. QED  BY <1>2, <2>2, <3>2, <3>3, <3>4
  <2>. QED  BY <2>1, <2>2 DEF NobodyStranded
<1>. QED  BY <1>5, <1>6, <1>7, <1>8, <1>9, EasedWaiters DEF IpcInv

\* r is q after its thread t was queued on o.
Queued(q, t, o, r) ==
    /\ CoherentState(r)
    /\ r.stat[t] = "SUSPEND" /\ \A u \in Thread \ {t} : r.stat[u] = q.stat[u]
    /\ r.prio = q.prio /\ r.cur = q.cur /\ r.lock = q.lock /\ r.error = q.error
    /\ \A u \in Thread \ {t} : u \in q.timer => u \in r.timer
    /\ ToSet(r.list[o]) = ToSet(q.list[o]) \cup {t}
    /\ \A m \in List \ {o} : r.list[m] = q.list[m]

\* A thread in its list, its timer started or not, is queued.
LEMMA EnlistedQueues ==
    ASSUME NEW q, CoherentState(q), NEW t \in Thread, NEW o \in Object,
           NEW s, Enlisted(q, t, o, s),
           NEW timed, NEW r, r = IF timed THEN rt_timer_start(s, t) ELSE s
    PROVE  Queued(q, t, o, r)
<1>1. o \in List /\ q \in KernelState
  BY DEF Object, CoherentState
<1>2. /\ CoherentState(s)
      /\ s.stat = [q.stat EXCEPT ![t] = "SUSPEND"]
      /\ s.prio = q.prio /\ s.cur = q.cur /\ s.lock = q.lock
      /\ s.error = q.error /\ s.timer = q.timer \ {t}
      /\ ToSet(s.list[o]) = ToSet(q.list[o]) \cup {t}
      /\ \A m \in List \ {o} : s.list[m] = q.list[m]
  BY DEF Enlisted
<1>3. s.stat[t] = "SUSPEND" /\ \A u \in Thread \ {t} : s.stat[u] = q.stat[u]
  BY <1>1, <1>2 DEF KernelState
<1>4. /\ CoherentState(r) /\ r.stat = s.stat /\ r.prio = s.prio /\ r.cur = s.cur
      /\ r.lock = s.lock /\ r.error = s.error /\ r.list = s.list
      /\ \A u \in Thread : u \in s.timer => u \in r.timer
  <2>1. CASE timed
    <3>1. TimerStarted(s, t, r)
      BY <1>2, <1>3, <2>1, TimerStartCoherent
    <3>. QED  BY <3>1 DEF TimerStarted
  <2>2. CASE ~timed
    BY <1>2, <2>2
  <2>. QED  BY <2>1, <2>2
<1>5. \A u \in Thread \ {t} : u \in q.timer => u \in r.timer
  BY <1>2, <1>4
<1>. QED  BY <1>2, <1>3, <1>4, <1>5 DEF Queued

\* Wait, the suspending half of a take, queues the running thread and nobody else.
LEMMA WaitQueues ==
    ASSUME NEW q, CoherentState(q), NEW t \in Thread, t # Idle, q.stat[t] = "READY",
           NEW o \in Object, NEW timed
    PROVE  Queued(q, t, o, Wait(q, t, o, timed))
<1>1. PICK s : s = rt_ipc_list_suspend(q, o, t, Flag[o])
  OBVIOUS
<1>2. Enlisted(q, t, o, s)
  BY <1>1, ListSuspendCoherent DEF Object
<1>3. Wait(q, t, o, timed) = IF timed THEN rt_timer_start(s, t) ELSE s
  BY <1>1 DEF Wait
<1>. QED  BY <1>2, <1>3, EnlistedQueues

\* The running thread suspends itself on an object; q is the kernel state in
\* which it does.
LEMMA QueuedStep ==
    ASSUME IpcInv, NEW q, Eases(k, q), q.cur = k.cur,
           NEW t \in App, t = k.cur, k.stat[t] = "READY", NEW o \in Object,
           Queued(q, t, o, k'), Goes(t, "wait_sched", o),
           UNCHANGED <<open, corrupt>>
    PROVE  IpcInv'
<1>1. k \in KernelState /\ CoherentState(k) /\ t \in Thread /\ t # Idle /\ o \in Object
  BY DEF IpcInv, IpcTypeOK, Coherent, CoherentState, App
<1>2. /\ CoherentState(q) /\ q.lock = k.lock
      /\ \A u \in Thread : q.stat[u] = k.stat[u] \/ q.stat[u] = "READY"
      /\ \A u \in Thread : q.stat[u] = "SUSPEND" => (u \in k.timer => u \in q.timer)
      /\ \A l \in List : ToSet(q.list[l]) \subseteq ToSet(k.list[l])
      /\ \A l \in List, u \in Thread :
            u \in ToSet(k.list[l]) /\ q.stat[u] = "SUSPEND" => u \in ToSet(q.list[l])
  BY DEF Eases
<1>3. q.stat[t] = "READY"
  BY <1>1, <1>2
<1>4. /\ CoherentState(k')
      /\ k'.stat[t] = "SUSPEND" /\ \A u \in Thread \ {t} : k'.stat[u] = q.stat[u]
      /\ k'.prio = q.prio /\ k'.cur = q.cur /\ k'.lock = q.lock /\ k'.error = q.error
      /\ \A u \in Thread \ {t} : u \in q.timer => u \in k'.timer
      /\ ToSet(k'.list[o]) = ToSet(q.list[o]) \cup {t}
      /\ \A m \in List \ {o} : k'.list[m] = q.list[m]
  BY DEF Queued
<1>5. /\ pc \in [Thread -> PC] /\ on \in [Thread -> Object \cup {NoObject}]
      /\ pc' \in [Thread -> PC] /\ on' \in [Thread -> Object \cup {NoObject}]
      /\ pc'[t] = "wait_sched" /\ on'[t] = o
      /\ \A u \in Thread \ {t} : pc'[u] = pc[u] /\ on'[u] = on[u]
  <2>1. "wait_sched" \in PC
    BY DEF PC
  <2>. QED  BY <1>1, <2>1 DEF IpcInv, IpcTypeOK, Goes
<1>6. (IpcTypeOK /\ Coherent)'
  BY <1>4, <1>5 DEF IpcInv, IpcTypeOK, Coherent, CoherentState
<1>7. Started'
  <2>1. k'.lock = k.lock
    BY <1>2, <1>4
  <2>2. ASSUME NEW u \in Thread PROVE k'.stat[u] \in {"READY", "SUSPEND"}
    BY <1>2, <1>4 DEF IpcInv, Started
  <2>. QED  BY <2>1, <2>2 DEF IpcInv, Started
<1>8. RunnerReady'
  BY <1>4, <1>5 DEF RunnerReady
<1>9. CallsHaveObjects'
  BY <1>1, <1>5, KernelAssumption DEF IpcInv, CallsHaveObjects
<1>10. NobodyStranded'
  <2>1. ASSUME NEW u \in Thread, NEW x \in Object, u \in Waiting(x)'
        PROVE  on'[u] = x /\ pc'[u] \in {"wait_sched", "wait_ret"}
    <3>1. CASE u = t
      <4>1. \A l \in List : t \notin ToSet(q.list[l])
        BY <1>1, <1>2, <1>3, CoherentLists
      <4>2. x = o
        BY <2>1, <3>1, <4>1, <1>4 DEF Waiting, Object
      <4>. QED  BY <3>1, <4>2, <1>5
    <3>2. CASE u # t
      <4>1. u \in ToSet(q.list[x])
        BY <2>1, <3>2, <1>4 DEF Waiting, Object
      <4>2. u \in Waiting(x)
        BY <4>1, <1>2 DEF Waiting, Object
      <4>. QED  BY <3>2, <4>2, <1>5 DEF IpcInv, NobodyStranded
    <3>. QED  BY <3>1, <3>2
  <2>2. ASSUME NEW u \in Thread, k'.stat[u] = "SUSPEND"
        PROVE  \/ \E x \in Object : u \in Waiting(x)'
               \/ pc'[u] \in {"sleep_sched", "sleep_ret"} /\ u \in k'.timer
    <3>1. CASE u = t
      <4>1. t \in Waiting(o)'
        BY <1>4 DEF Waiting
      <4>. QED  BY <1>1, <3>1, <4>1
    <3>2. CASE u # t
      <4>1. q.stat[u] = "SUSPEND" /\ k.stat[u] = "SUSPEND"
        BY <1>2, <1>4, <2>2, <3>2
      <4>2. \/ \E x \in Object : u \in Waiting(x)
            \/ pc[u] \in {"sleep_sched", "sleep_ret"} /\ u \in k.timer
        BY <4>1 DEF IpcInv, NobodyStranded
      <4>3. ASSUME NEW x \in Object, u \in Waiting(x) PROVE u \in Waiting(x)'
        <5>1. u \in ToSet(q.list[x])
          BY <1>2, <4>1, <4>3 DEF Waiting, Object
        <5>. QED  BY <5>1, <1>4 DEF Waiting, Object
      <4>4. u \in k.timer => u \in k'.timer
        BY <1>2, <1>4, <3>2, <4>1
      <4>. QED  BY <3>2, <4>2, <4>3, <4>4, <1>5
    <3>. QED  BY <3>1, <3>2
  <2>. QED  BY <2>1, <2>2 DEF NobodyStranded
<1>. QED  BY <1>6, <1>7, <1>8, <1>9, <1>10 DEF IpcInv

\* Wait is one way to do so.
LEMMA WaitStep ==
    ASSUME IpcInv, NEW q, Eases(k, q), q.cur = k.cur,
           NEW t \in App, t = k.cur, k.stat[t] = "READY", NEW o \in Object, NEW timed,
           k' = Wait(q, t, o, timed), Goes(t, "wait_sched", o),
           UNCHANGED <<open, corrupt>>
    PROVE  IpcInv'
<1>1. CoherentState(q) /\ t \in Thread /\ t # Idle /\ q.stat[t] = "READY"
  BY DEF Eases, App
<1>2. Queued(q, t, o, k')
  BY <1>1, WaitQueues
<1>. QED  BY <1>2, QueuedStep

\* The running thread goes to sleep.
LEMMA SleepStep ==
    ASSUME IpcInv, NEW t \in App, Sleep(t)
    PROVE  IpcInv' /\ NoNewWaiter
<1>. DEFINE r == rt_thread_suspend(k, t)
<1>1. k \in KernelState /\ CoherentState(k) /\ t \in Thread /\ t # Idle /\ t = k.cur
  BY DEF IpcInv, IpcTypeOK, Coherent, CoherentState, App, Sleep, Runs
<1>2. k.stat[t] = "READY"
  BY <1>1 DEF IpcInv, RunnerReady, Sleep, Runs
<1>3. /\ CoherentState(r)
      /\ r.stat = [k.stat EXCEPT ![t] = "SUSPEND"]
      /\ r.prio = k.prio /\ r.cur = k.cur /\ r.lock = k.lock
      /\ r.error = k.error /\ r.timer = k.timer \ {t}
      /\ \A l \in List : r.list[l] = k.list[l]
  <2>1. CoherentState(k) /\ t \in Thread /\ t # Idle /\ k.stat[t] = "READY"
    BY <1>1, <1>2
  <2>2. Suspended(k, t, r)
    BY <2>1, SuspendCoherent
  <2>. QED  BY <2>2 DEF Suspended
<1>4. k' = rt_timer_start(r, t)
  BY DEF Sleep
<1>. HIDE DEF r
<1>5. r.stat[t] = "SUSPEND" /\ \A u \in Thread \ {t} : r.stat[u] = k.stat[u]
  BY <1>1, <1>3 DEF KernelState
<1>6. TimerStarted(r, t, k')
  BY <1>1, <1>3, <1>4, <1>5, TimerStartCoherent
<1>7. /\ CoherentState(k') /\ k'.stat = r.stat /\ k'.cur = k.cur /\ k'.lock = k.lock
      /\ k'.timer = k.timer \cup {t} /\ \A l \in List : k'.list[l] = k.list[l]
  BY <1>3, <1>6 DEF TimerStarted
<1>8. /\ pc \in [Thread -> PC] /\ on \in [Thread -> Object \cup {NoObject}]
      /\ pc' \in [Thread -> PC] /\ on' \in [Thread -> Object \cup {NoObject}]
      /\ pc'[t] = "sleep_sched" /\ on'[t] = NoObject
      /\ \A u \in Thread \ {t} : pc'[u] = pc[u] /\ on'[u] = on[u]
  <2>1. "sleep_sched" \in PC
    BY DEF PC
  <2>. QED  BY <1>1, <2>1 DEF IpcInv, IpcTypeOK, Goes, Sleep
<1>9. UNCHANGED <<open, corrupt>>
  BY DEF Sleep
<1>10. (IpcTypeOK /\ Coherent)'
  BY <1>7, <1>8, <1>9 DEF IpcInv, IpcTypeOK, Coherent, CoherentState
<1>11. Started'
  BY <1>5, <1>7 DEF IpcInv, Started
<1>12. RunnerReady'
  BY <1>1, <1>7, <1>8 DEF RunnerReady
<1>13. CallsHaveObjects'
  BY <1>1, <1>8, KernelAssumption DEF IpcInv, CallsHaveObjects, WorksOnObject, Waits
<1>14. NobodyStranded'
  <2>1. ASSUME NEW u \in Thread, NEW x \in Object, u \in Waiting(x)'
        PROVE  on'[u] = x /\ pc'[u] \in {"wait_sched", "wait_ret"}
    <3>1. u \in Waiting(x)
      BY <2>1, <1>7 DEF Waiting, Object
    <3>2. u # t
      BY <3>1, <1>1, <1>2, CoherentLists DEF Waiting, Object
    <3>. QED  BY <3>1, <3>2, <1>8 DEF IpcInv, NobodyStranded
  <2>2. ASSUME NEW u \in Thread, k'.stat[u] = "SUSPEND"
        PROVE  \/ \E x \in Object : u \in Waiting(x)'
               \/ pc'[u] \in {"sleep_sched", "sleep_ret"} /\ u \in k'.timer
    <3>1. CASE u = t
      BY <3>1, <1>7, <1>8
    <3>2. CASE u # t
      <4>1. k.stat[u] = "SUSPEND"
        BY <1>5, <1>7, <2>2, <3>2
      <4>2. \/ \E x \in Object : u \in Waiting(x)
            \/ pc[u] \in {"sleep_sched", "sleep_ret"} /\ u \in k.timer
        BY <4>1 DEF IpcInv, NobodyStranded
      <4>3. \A x \in Object : Waiting(x)' = Waiting(x)
        BY <1>7 DEF Waiting, Object
      <4>. QED  BY <3>2, <4>2, <4>3, <1>7, <1>8
    <3>. QED  BY <3>1, <3>2
  <2>. QED  BY <2>1, <2>2 DEF NobodyStranded
<1>15. NoNewWaiter
  BY <1>7 DEF NoNewWaiter, Waiting, Object
<1>. QED  BY <1>10, <1>11, <1>12, <1>13, <1>14, <1>15 DEF IpcInv

-----------------------------------------------------------------------------
(* The actions *)

\* What is known of a thread that takes a step.
LEMMA Runner ==
    ASSUME IpcInv, NEW t \in App, NEW label, Runs(t, label)
    PROVE  /\ CoherentState(k) /\ k \in KernelState /\ k.lock = 0
           /\ t \in Thread /\ t = k.cur /\ pc[t] = label
           /\ on[t] \in Object \cup {NoObject}
           /\ label \in WorksOnObject => on[t] \in Object
           /\ label \notin {"wait_sched", "sleep_sched"} => k.stat[t] = "READY"
           /\ open \subseteq Object /\ corrupt \in BOOLEAN
  BY DEF IpcInv, IpcTypeOK, Coherent, CoherentState, App, Runs, Started, RunnerReady,
         CallsHaveObjects

\* The places of a call.
LEMMA Labels ==
    /\ PC = {"run", "wait_sched", "wait_ret", "sleep_sched", "sleep_ret", "sched",
             "irq_off", "del", "del_one", "put_copy", "get_copy", "done_set"}
    /\ WorksOnObject = {"wait_sched", "wait_ret", "irq_off", "del", "del_one", "done_set"}
  BY DEF PC, WorksOnObject, Waits

\* The shared invariant holds when the scheduler has started.
LEMMA IpcInitInv ==
    ASSUME IpcInit
    PROVE  IpcInv
<1>1. /\ CoherentState(k) /\ HighestRuns(k) /\ k.lock = 0
      /\ k.stat = [t \in Thread |-> "READY"]
      /\ \A l \in List : k.list[l] = <<>>
  BY InitCoherent DEF IpcInit
<1>2. k \in KernelState
  BY <1>1 DEF CoherentState
<1>3. \A o \in Object : Waiting(o) = {}
  BY <1>1 DEF Waiting, Object, ToSet
<1>4. "run" \in PC /\ "run" \notin WorksOnObject
  BY Labels
<1>5. IpcTypeOK /\ Coherent
  BY <1>1, <1>2, <1>4 DEF IpcInit, IpcTypeOK, Coherent, CoherentState
<1>6. Started /\ RunnerReady
  BY <1>1 DEF Started, RunnerReady, HighestRuns
<1>7. CallsHaveObjects
  BY <1>4, KernelAssumption DEF IpcInit, CallsHaveObjects
<1>8. NobodyStranded
  BY <1>1, <1>3 DEF NobodyStranded
<1>. QED  BY <1>5, <1>6, <1>7, <1>8 DEF IpcInv

\* A step in which the running thread calls rt_schedule.
LEMMA ScheduleStep ==
    ASSUME IpcInv, NEW t \in App, NEW label, Runs(t, label), k' = rt_schedule(k),
           NEW next \in PC, NEW o \in Object \cup {NoObject}, Goes(t, next, o),
           next \in WorksOnObject => o \in Object,
           \/ label \notin {"wait_sched", "sleep_sched"}
           \/ label = "wait_sched" /\ next = "wait_ret" /\ o = on[t]
           \/ label = "sleep_sched" /\ next = "sleep_ret",
           UNCHANGED <<open, corrupt>>
    PROVE  IpcInv' /\ NoNewWaiter
<1>1. /\ CoherentState(k) /\ k.lock = 0 /\ t = k.cur /\ pc[t] = label
      /\ label \notin {"wait_sched", "sleep_sched"} => k.stat[t] = "READY"
      /\ open' \subseteq Object /\ corrupt' \in BOOLEAN
  BY Runner
<1>2. Eases(k, k') /\ k'.stat[k'.cur] = "READY"
  BY <1>1, ScheduleEases
<1>3. \/ k.stat[t] = "READY"
      \/ /\ k'.stat[k'.cur] = "READY"
         /\ \/ pc[t] = "wait_sched" /\ next = "wait_ret" /\ o = on[t]
            \/ pc[t] = "sleep_sched" /\ next = "sleep_ret"
  BY <1>1, <1>2
<1>. QED  BY <1>1, <1>2, <1>3, EasedCall

\* A step in which a ready thread goes on in a call or returns from it.
LEMMA ReadyStep ==
    ASSUME IpcInv, NEW t \in App, NEW label, Runs(t, label), Eases(k, k'),
           label \notin {"wait_sched", "sleep_sched"},
           NEW next \in PC, NEW o \in Object \cup {NoObject}, Goes(t, next, o),
           next \in WorksOnObject => o \in Object,
           UNCHANGED <<open, corrupt>>
    PROVE  IpcInv' /\ NoNewWaiter
<1>1. /\ t = k.cur /\ k.stat[t] = "READY"
      /\ open' \subseteq Object /\ corrupt' \in BOOLEAN
  BY Runner
<1>. QED  BY <1>1, EasedCall

\* Every step inside a call that the services share preserves the invariant.
LEMMA IpcInCallInv ==
    ASSUME IpcInv, NEW t \in App, IpcInCall(t)
    PROVE  IpcInv' /\ NoNewWaiter
<1>1. CASE WaitSchedule(t)
  <2>1. /\ Runs(t, "wait_sched") /\ k' = rt_schedule(k) /\ Goes(t, "wait_ret", on[t])
        /\ UNCHANGED <<open, corrupt>>
    BY <1>1 DEF WaitSchedule
  <2>2. on[t] \in Object /\ "wait_ret" \in PC
    BY <2>1, Runner, Labels
  <2>. QED  BY <2>1, <2>2, ScheduleStep
<1>2. CASE Schedule(t)
  <2>1. /\ Runs(t, "sched") /\ k' = rt_schedule(k) /\ Goes(t, "run", NoObject)
        /\ UNCHANGED <<open, corrupt>>
    BY <1>2 DEF Schedule, Returns
  <2>2. "run" \in PC /\ "run" \notin WorksOnObject
    BY Labels
  <2>. QED  BY <2>1, <2>2, ScheduleStep
<1>3. CASE DeleteTest(t)
  <2>1. Runs(t, "del") /\ UNCHANGED <<k, corrupt>>
    BY <1>3 DEF DeleteTest
  <2>2. /\ CoherentState(k) /\ t = k.cur /\ k.stat[t] = "READY" /\ on[t] \in Object
        /\ open \subseteq Object /\ corrupt \in BOOLEAN
    BY <2>1, Runner, Labels
  <2>3. Eases(k, k')
    BY <2>1, <2>2, EasesReflexive
  <2>4. CASE Waiting(on[t]) # {}
    <3>1. Goes(t, "del_one", on[t]) /\ UNCHANGED open
      BY <1>3, <2>4 DEF DeleteTest
    <3>2. "del_one" \in PC
      BY Labels
    <3>. QED  BY <2>1, <2>2, <2>3, <3>1, <3>2, ReadyStep
  <2>5. CASE Waiting(on[t]) = {}
    <3>1. Goes(t, "run", NoObject) /\ open' = open \ {on[t]}
      BY <1>3, <2>5 DEF DeleteTest, Returns
    <3>2. "run" \in PC /\ "run" \notin WorksOnObject
      BY Labels
    <3>3. open' \subseteq Object
      BY <2>2, <3>1
    <3>4. corrupt' \in BOOLEAN
      BY <2>1, <2>2
    <3>. QED  BY <2>2, <2>3, <3>1, <3>2, <3>3, <3>4, EasedCall
  <2>. QED  BY <2>4, <2>5
<1>4. CASE DeleteOne(t)
  <2>1. Runs(t, "del_one") /\ UNCHANGED open
    BY <1>4 DEF DeleteOne
  <2>2. /\ CoherentState(k) /\ t = k.cur /\ k.stat[t] = "READY" /\ on[t] \in Object
        /\ pc[t] = "del_one" /\ open \subseteq Object
    BY <2>1, Runner, Labels
  <2>3. CASE k.list[on[t]] # <<>>
    <3>1. k' = ResumeFirst(on[t]) /\ Goes(t, "del", on[t]) /\ UNCHANGED corrupt
      BY <1>4, <2>3 DEF DeleteOne
    <3>2. Eases(k, k')
      BY <2>2, <2>3, <3>1, ResumeFirstEases
    <3>3. "del" \in PC
      BY Labels
    <3>. QED  BY <2>1, <2>2, <3>1, <3>2, <3>3, ReadyStep
  <2>4. CASE k.list[on[t]] = <<>>
    <3>1. corrupt' = TRUE /\ UNCHANGED <<k, pc, on>>
      BY <1>4, <2>4 DEF DeleteOne
    <3>2. Eases(k, k')
      BY <2>2, <3>1, EasesReflexive
    <3>3. "del_one" \in PC /\ Goes(t, "del_one", on[t])
      BY <2>2, <3>1, Labels DEF Goes, IpcInv, IpcTypeOK
    <3>4. corrupt' \in BOOLEAN
      BY <3>1
    <3>. QED  BY <2>1, <2>2, <3>2, <3>3, <3>4, EasedCall
  <2>. QED  BY <2>3, <2>4
<1>5. CASE SleepSchedule(t)
  <2>1. /\ Runs(t, "sleep_sched") /\ k' = rt_schedule(k) /\ Goes(t, "sleep_ret", NoObject)
        /\ UNCHANGED <<open, corrupt>>
    BY <1>5 DEF SleepSchedule
  <2>2. "sleep_ret" \in PC /\ "sleep_ret" \notin WorksOnObject
    BY Labels
  <2>. QED  BY <2>1, <2>2, ScheduleStep
<1>6. CASE SleepReturn(t)
  <2>. DEFINE e == IF k.error[t] = "ETIMEOUT" THEN "EOK" ELSE k.error[t]
  <2>1. /\ Runs(t, "sleep_ret") /\ Goes(t, "run", NoObject) /\ UNCHANGED <<open, corrupt>>
        /\ k' = [k EXCEPT !.error[t] = e]
    BY <1>6 DEF SleepReturn, Returns
  <2>2. CoherentState(k) /\ k \in KernelState /\ t \in Thread
    BY <2>1, Runner
  <2>3. e \in Error
    BY <2>2 DEF KernelState, Error
  <2>. HIDE DEF e
  <2>4. Eases(k, k')
    <3>1. /\ CoherentState(k')
          /\ k'.stat = k.stat /\ k'.prio = k.prio /\ k'.cur = k.cur /\ k'.lock = k.lock
          /\ k'.timer = k.timer /\ k'.list = k.list
      BY <2>1, <2>2, <2>3, ErrorCoherent
    <3>. QED  BY <3>1 DEF Eases
  <2>5. "run" \in PC /\ "run" \notin WorksOnObject
    BY Labels
  <2>. QED  BY <2>1, <2>4, <2>5, ReadyStep
<1>. QED  BY <1>1, <1>2, <1>3, <1>4, <1>5, <1>6 DEF IpcInCall

\* A step in which the running thread changes the kernel and stays outside
\* every call.
LEMMA IpcCallInv ==
    ASSUME IpcInv, NEW t \in App, IpcCall(t)
    PROVE  IpcInv' /\ NoNewWaiter
<1>1. ASSUME NEW o \in Object, Delete(t, o) PROVE IpcInv' /\ NoNewWaiter
  <2>1. /\ Runs(t, "run") /\ Goes(t, "del", o) /\ UNCHANGED <<open, corrupt>> /\ UNCHANGED k
    BY <1>1 DEF Delete
  <2>2. CoherentState(k)
    BY <2>1, Runner
  <2>3. Eases(k, k')
    BY <2>1, <2>2, EasesReflexive
  <2>4. "del" \in PC
    BY Labels
  <2>. QED  BY <2>1, <2>3, <2>4, ReadyStep
<1>2. ASSUME NEW u \in App, NEW p \in NewPrio, ChangePriority(t, u, p) PROVE IpcInv' /\ NoNewWaiter
  <2>1. /\ Runs(t, "run") /\ UNCHANGED <<open, pc, on, corrupt>>
        /\ k' = rt_thread_change_priority(k, u, p)
    BY <1>2 DEF ChangePriority
  <2>2. CoherentState(k) /\ u \in Thread /\ p \in Prio
    BY <2>1, Runner, IpcAssumption DEF App
  <2>3. Eases(k, k')
    BY <2>1, <2>2, ChangePriorityEases
  <2>. QED  BY <2>1, <2>3, EasedKernel
<1>. QED  BY <1>1, <1>2, SleepStep DEF IpcCall

\* The tick interrupt.
LEMMA TickInv ==
    ASSUME IpcInv, Tick
    PROVE  IpcInv' /\ NoNewWaiter
<1>1. CoherentState(k) /\ k.lock = 0
  BY DEF IpcInv, IpcTypeOK, Coherent, CoherentState, Started
<1>2. CASE SliceEnd
  <2>1. k' = rt_schedule(k) /\ UNCHANGED <<open, pc, on, corrupt>>
    BY <1>2 DEF SliceEnd
  <2>2. Eases(k, k')
    BY <1>1, <2>1, ScheduleEases
  <2>. QED  BY <2>1, <2>2, EasedKernel
<1>3. ASSUME NEW t \in Thread, Timeout(t) PROVE IpcInv' /\ NoNewWaiter
  <2>1. /\ t \in k.timer /\ k' = rt_schedule(rt_thread_timeout(k, t))
        /\ UNCHANGED <<open, pc, on, corrupt>>
    BY <1>3 DEF Timeout, Rescheduled
  <2>. DEFINE q == rt_thread_timeout(k, t)
  <2>2. Eases(k, q)
    BY <1>1, <2>1, TimeoutEases
  <2>. HIDE DEF q
  <2>3. CoherentState(q) /\ q.lock = 0
    BY <1>1, <2>2 DEF Eases
  <2>4. Eases(q, k')
    BY <2>1, <2>3, ScheduleEases DEF q
  <2>5. Eases(k, k')
    BY <1>1, <2>2, <2>4, EasesTransitive
  <2>. QED  BY <2>1, <2>5, EasedKernel
<1>. QED  BY <1>2, <1>3 DEF Tick

\* An object is created.
LEMMA CreateInv ==
    ASSUME IpcInv, NEW t \in App, NEW o \in Object, Create(t, o)
    PROVE  IpcInv' /\ NoNewWaiter
<1>1. /\ Runs(t, "run") /\ open' = open \cup {o} /\ UNCHANGED <<k, pc, on, corrupt>>
  BY DEF Create
<1>2. /\ CoherentState(k) /\ t = k.cur /\ k.stat[t] = "READY" /\ pc[t] = "run"
      /\ on[t] \in Object \cup {NoObject}
      /\ open \subseteq Object /\ corrupt \in BOOLEAN
  BY <1>1, Runner
<1>3. Eases(k, k')
  BY <1>1, <1>2, EasesReflexive
<1>4. "run" \in PC /\ "run" \notin WorksOnObject /\ Goes(t, "run", on[t])
  BY <1>1, <1>2, Labels DEF Goes, IpcInv, IpcTypeOK
<1>5. open' \subseteq Object /\ corrupt' \in BOOLEAN
  BY <1>1, <1>2
<1>. QED  BY <1>2, <1>3, <1>4, <1>5, EasedCall

-----------------------------------------------------------------------------
(* Who was served.  Resumed(o) holds the threads that left the list of o with *)
(* RT_EOK and have not gone on yet; the following lemmas say how each kind of *)
(* step changes it, Waiting(o) and thread->error.                             *)

\* Waiting(o), Resumed(o) and the errors of the waiting threads after a step in
\* which nobody is served: threads may leave a list only with an error.
NobodyServed ==
    /\ NoNewWaiter
    /\ \A o \in Object : Resumed(o)' = Resumed(o)
    /\ \A o \in Object : \A u \in Waiting(o)' : k'.error[u] = k.error[u]

\* Whom a step of the kernel wakes, it wakes with an error.
Refuses(q, r) ==
    \A u \in Thread :
        \/ r.stat[u] = q.stat[u] /\ r.error[u] = q.error[u]
        \/ q.stat[u] = "SUSPEND" /\ r.stat[u] = "READY" /\ r.error[u] # "EOK"

\* The threads that wait, or have been resumed, do so after the step as before it.
SamePlaces ==
    \A u \in Thread : /\ pc'[u] \in Waits <=> pc[u] \in Waits
                      /\ pc[u] \in Waits => on'[u] = on[u]

\* The threads in the list of an object are those that are suspended in a call
\* on it.
WaitersWait ==
    /\ \A o \in Object : Waiting(o) \subseteq Thread
    /\ \A o \in Object, u \in Thread :
          u \in Waiting(o) <=> on[u] = o /\ pc[u] \in Waits /\ k.stat[u] = "SUSPEND"

\* The shared invariant says who waits.
LEMMA IpcInvWaiters == IpcInv => WaitersWait
<1>. SUFFICES ASSUME IpcInv PROVE WaitersWait
  OBVIOUS
<1>1. CoherentState(k) /\ k \in KernelState
  BY DEF IpcInv, IpcTypeOK, Coherent, CoherentState
<1>2. \A o \in Object : Waiting(o) \subseteq Thread
  <2>1. \A o \in Object : k.list[o] \in Seq(Thread)
    BY <1>1 DEF KernelState, Object
  <2>. QED  BY <2>1 DEF Waiting, ToSet
<1>3. \A o \in Object, u \in Thread : u \in Waiting(o) => k.stat[u] = "SUSPEND"
  BY <1>1, CoherentLists DEF Waiting, Object
<1>4. ASSUME NEW o \in Object, NEW u \in Thread,
             on[u] = o, pc[u] \in Waits, k.stat[u] = "SUSPEND"
      PROVE  u \in Waiting(o)
  <2>1. pc[u] \notin {"sleep_sched", "sleep_ret"}
    BY <1>4 DEF Waits
  <2>2. PICK x \in Object : u \in Waiting(x)
    BY <1>4, <2>1 DEF IpcInv, NobodyStranded
  <2>3. on[u] = x
    BY <2>2 DEF IpcInv, NobodyStranded
  <2>. QED  BY <1>4, <2>2, <2>3
<1>. QED  BY <1>2, <1>3, <1>4 DEF IpcInv, NobodyStranded, Waits, WaitersWait

\* Before and after a step.
LEMMA StepWaiters ==
    ASSUME IpcInv, IpcInv'
    PROVE  WaitersWait /\ WaitersWait'
  BY IpcInvWaiters, PTL

\* A step that wakes only with an error serves nobody.
LEMMA RefusedStep ==
    ASSUME IpcInv, IpcInv', NoNewWaiter, SamePlaces,
           \A u \in Thread : pc[u] \in Waits =>
              \/ k'.stat[u] = k.stat[u] /\ k'.error[u] = k.error[u]
              \/ k.stat[u] = "SUSPEND" /\ k'.stat[u] = "READY" /\ k'.error[u] # "EOK"
    PROVE  NobodyServed
<1>1. WaitersWait /\ WaitersWait'
  BY StepWaiters
<1>2. \A o \in Object, u \in Thread :
         u \in Waiting(o)' <=> on'[u] = o /\ pc'[u] \in Waits /\ k'.stat[u] = "SUSPEND"
  BY <1>1 DEF WaitersWait
<1>3. \A o \in Object : \A u \in Waiting(o)' : k'.error[u] = k.error[u]
  BY <1>1, <1>2 DEF NoNewWaiter, WaitersWait
<1>4. ASSUME NEW o \in Object, NEW u \in Thread
      PROVE  u \in Resumed(o)' <=> u \in Resumed(o)
  BY <1>1, <1>2 DEF Resumed, WaitersWait, SamePlaces, Waits
<1>5. \A o \in Object : Resumed(o)' = Resumed(o)
  <2>1. \A o \in Object : Resumed(o)' \subseteq Thread /\ Resumed(o) \subseteq Thread
    BY DEF Resumed
  <2>. QED  BY <1>4, <2>1
<1>. QED  BY <1>3, <1>5 DEF NobodyServed

\* A wakeup with an error, followed by a call of rt_schedule or not, refuses.
LEMMA WokenRefuses ==
    ASSUME NEW q, CoherentState(q), NEW t \in Thread, q.stat[t] = "SUSPEND",
           NEW e, e # "EOK", NEW r, Woken(q, t, e, r)
    PROVE  Refuses(q, r) /\ Refuses(q, rt_schedule(r))
<1>1. q \in KernelState
  BY DEF CoherentState
<1>2. /\ \A u \in Thread : r.stat[u] = IF u = t THEN "READY" ELSE q.stat[u]
      /\ \A u \in Thread : r.error[u] = IF u = t THEN e ELSE q.error[u]
      /\ CoherentState(r)
  BY <1>1 DEF Woken, KernelState
<1>3. rt_schedule(r).stat = r.stat /\ rt_schedule(r).error = r.error
  BY <1>2, ScheduleCoherent DEF SameThreads
<1>4. Refuses(q, r)
  BY <1>2 DEF Refuses
<1>. QED  BY <1>3, <1>4 DEF Refuses

\* A call of rt_schedule wakes nobody.
LEMMA ScheduleRefuses ==
    ASSUME NEW q, CoherentState(q)
    PROVE  Refuses(q, rt_schedule(q)) /\ Refuses(q, q)
<1>1. rt_schedule(q).stat = q.stat /\ rt_schedule(q).error = q.error
  BY ScheduleCoherent DEF SameThreads
<1>. QED  BY <1>1 DEF Refuses

\* One turn of rt_ipc_list_resume_all refuses.
LEMMA ResumeFirstRefuses ==
    ASSUME CoherentState(k), NEW o \in Object, k.list[o] # <<>>
    PROVE  Refuses(k, ResumeFirst(o))
<1>. DEFINE t == Head(k.list[o])
<1>1. t \in Thread /\ k.stat[t] = "SUSPEND"
  BY HeadSuspended DEF Object
<1>2. "ERROR" \in Error /\ "ERROR" # "EOK"
  BY DEF Error
<1>3. ResumeFirst(o) = rt_thread_resume([k EXCEPT !.error[t] = "ERROR"], t)
  BY DEF ResumeFirst
<1>. HIDE DEF t
<1>4. Woken(k, t, "ERROR", rt_thread_resume([k EXCEPT !.error[t] = "ERROR"], t))
  BY <1>1, <1>2, ResumeWakes
<1>. QED  BY <1>1, <1>2, <1>3, <1>4, WokenRefuses

\* A thread that is not waiting goes on to a place where it does not wait either,
\* or a waiting thread calls rt_schedule.
LEMMA GoesSamePlaces ==
    ASSUME IpcInv, NEW t \in App, NEW label, NEW o, Goes(t, label, o),
           \/ pc[t] \notin Waits /\ label \notin Waits
           \/ pc[t] = "wait_sched" /\ label = "wait_ret" /\ o = on[t]
    PROVE  SamePlaces
<1>1. t \in Thread /\ pc \in [Thread -> PC] /\ on \in [Thread -> Object \cup {NoObject}]
  BY DEF IpcInv, IpcTypeOK, App
<1>2. \A u \in Thread : /\ pc'[u] = IF u = t THEN label ELSE pc[u]
                        /\ on'[u] = IF u = t THEN o ELSE on[u]
  BY <1>1 DEF Goes
<1>3. "wait_sched" \in Waits /\ "wait_ret" \in Waits
  BY DEF Waits
<1>. QED  BY <1>1, <1>2, <1>3 DEF SamePlaces

\* The steps inside a call that the services share serve nobody.
LEMMA IpcInCallServes ==
    ASSUME IpcInv, NEW t \in App, IpcInCall(t)
    PROVE  NobodyServed
<1>0. IpcInv' /\ NoNewWaiter
  BY IpcInCallInv
<1>1. CoherentState(k) /\ k \in KernelState /\ t \in Thread
  BY DEF IpcInv, IpcTypeOK, Coherent, CoherentState, App
<1>2. ASSUME NEW label, Runs(t, label), NEW next, NEW o, Goes(t, next, o),
             \/ label \notin Waits /\ next \notin Waits
             \/ label = "wait_sched" /\ next = "wait_ret" /\ o = on[t]
      PROVE  SamePlaces
  <2>1. pc[t] = label
    BY <1>2 DEF Runs
  <2>. QED  BY <1>2, <2>1, GoesSamePlaces
<1>3. ASSUME SamePlaces, Refuses(k, k') PROVE NobodyServed
  BY <1>0, <1>3, RefusedStep DEF Refuses
<1>4. /\ \A x \in {"run", "sched", "del", "del_one", "sleep_sched", "sleep_ret"} : x \notin Waits
  BY DEF Waits
<1>5. CASE WaitSchedule(t)
  <2>1. SamePlaces
    BY <1>2, <1>5 DEF WaitSchedule
  <2>. QED  BY <1>1, <1>3, <1>5, <2>1, ScheduleRefuses DEF WaitSchedule
<1>6. CASE Schedule(t)
  <2>1. SamePlaces
    BY <1>2, <1>4, <1>6 DEF Schedule, Returns
  <2>. QED  BY <1>1, <1>3, <1>6, <2>1, ScheduleRefuses DEF Schedule
<1>7. CASE DeleteTest(t)
  <2>1. SamePlaces
    BY <1>2, <1>4, <1>7 DEF DeleteTest, Returns
  <2>2. k' = k
    BY <1>7 DEF DeleteTest
  <2>. QED  BY <1>1, <1>3, <2>1, <2>2, ScheduleRefuses
<1>8. CASE DeleteOne(t)
  <2>1. Runs(t, "del_one") /\ on[t] \in Object
    <3>1. Runs(t, "del_one")
      BY <1>8 DEF DeleteOne
    <3>. QED  BY <3>1, Runner, Labels
  <2>2. CASE k.list[on[t]] # <<>>
    <3>1. k' = ResumeFirst(on[t]) /\ Goes(t, "del", on[t])
      BY <1>8, <2>2 DEF DeleteOne
    <3>2. SamePlaces
      BY <1>2, <1>4, <2>1, <3>1
    <3>3. Refuses(k, k')
      BY <1>1, <2>1, <2>2, <3>1, ResumeFirstRefuses
    <3>. QED  BY <1>3, <3>2, <3>3
  <2>3. CASE k.list[on[t]] = <<>>
    <3>1. UNCHANGED <<k, pc, on>>
      BY <1>8, <2>3 DEF DeleteOne
    <3>2. SamePlaces
      BY <3>1 DEF SamePlaces
    <3>. QED  BY <1>1, <1>3, <3>1, <3>2, ScheduleRefuses
  <2>. QED  BY <2>2, <2>3
<1>9. CASE SleepSchedule(t)
  <2>1. SamePlaces
    BY <1>2, <1>4, <1>9 DEF SleepSchedule
  <2>. QED  BY <1>1, <1>3, <1>9, <2>1, ScheduleRefuses DEF SleepSchedule
<1>10. CASE SleepReturn(t)
  <2>1. SamePlaces /\ pc[t] = "sleep_ret"
    BY <1>2, <1>4, <1>10 DEF SleepReturn, Returns, Runs
  <2>2. /\ k'.stat = k.stat
        /\ \A u \in Thread \ {t} : k'.error[u] = k.error[u]
    BY <1>1, <1>10 DEF SleepReturn, KernelState
  <2>3. \A u \in Thread : pc[u] \in Waits => u # t
    BY <1>4, <2>1
  <2>. QED  BY <1>0, <2>1, <2>2, <2>3, RefusedStep
<1>. QED  BY <1>5, <1>6, <1>7, <1>8, <1>9, <1>10 DEF IpcInCall

\* The calls that the services share serve nobody.
LEMMA IpcCallServes ==
    ASSUME IpcInv, NEW t \in App, IpcCall(t)
    PROVE  NobodyServed
<1>0. IpcInv' /\ NoNewWaiter
  BY IpcCallInv
<1>1. CoherentState(k) /\ k \in KernelState /\ t \in Thread /\ t # Idle
  BY DEF IpcInv, IpcTypeOK, Coherent, CoherentState, App
<1>2. \A x \in {"run", "del", "sleep_sched"} : x \notin Waits
  BY DEF Waits
<1>3. ASSUME NEW o \in Object, Delete(t, o) PROVE NobodyServed
  <2>1. pc[t] = "run" /\ Goes(t, "del", o) /\ k' = k
    BY <1>3 DEF Delete, Runs
  <2>2. SamePlaces
    BY <1>2, <2>1, GoesSamePlaces
  <2>. QED  BY <1>0, <2>1, <2>2, RefusedStep
<1>4. ASSUME NEW u \in App, NEW p \in NewPrio, ChangePriority(t, u, p) PROVE NobodyServed
  <2>1. UNCHANGED <<pc, on>> /\ k' = rt_thread_change_priority(k, u, p)
    BY <1>4 DEF ChangePriority
  <2>2. u \in Thread /\ p \in Prio
    BY IpcAssumption DEF App
  <2>3. k'.stat = k.stat /\ k'.error = k.error
    <3>1. LET r == rt_thread_change_priority(k, u, p)
          IN  /\ CoherentState(r)
              /\ r.stat = k.stat /\ r.prio = [k.prio EXCEPT ![u] = p]
              /\ r.cur = k.cur /\ r.lock = k.lock /\ r.error = k.error /\ r.timer = k.timer
              /\ \A l \in List : r.list[l] = k.list[l]
      <4>1. CoherentState(k)
        BY <1>1
      <4>. QED  BY <2>2, <4>1, ChangePriorityCoherent
    <3>. QED  BY <2>1, <3>1
  <2>4. SamePlaces
    BY <2>1 DEF SamePlaces
  <2>. QED  BY <1>0, <2>3, <2>4, RefusedStep
<1>5. CASE Sleep(t)
  <2>. DEFINE r == rt_thread_suspend(k, t)
  <2>1. Runs(t, "run") /\ Goes(t, "sleep_sched", NoObject) /\ k' = rt_timer_start(r, t)
    BY <1>5 DEF Sleep
  <2>2. pc[t] = "run" /\ k.stat[t] = "READY"
    BY <2>1, Runner
  <2>3. Suspended(k, t, r)
    BY <1>1, <2>2, SuspendCoherent
  <2>. HIDE DEF r
  <2>4. CoherentState(r) /\ r.stat = [k.stat EXCEPT ![t] = "SUSPEND"] /\ r.error = k.error
    BY <2>3 DEF Suspended
  <2>5. r.stat[t] = "SUSPEND" /\ \A u \in Thread \ {t} : r.stat[u] = k.stat[u]
    BY <1>1, <2>4 DEF KernelState
  <2>6. k'.stat = r.stat /\ k'.error = k.error
    BY <1>1, <2>1, <2>4, <2>5, TimerStartCoherent DEF TimerStarted
  <2>7. SamePlaces
    BY <1>2, <2>1, <2>2, GoesSamePlaces
  <2>8. \A u \in Thread : pc[u] \in Waits => u # t
    BY <1>2, <2>2
  <2>. QED  BY <1>0, <2>5, <2>6, <2>7, <2>8, RefusedStep
<1>. QED  BY <1>3, <1>4, <1>5 DEF IpcCall

\* A tick serves nobody: a wait that it ends, it ends with -RT_ETIMEOUT.
LEMMA TickServes ==
    ASSUME IpcInv, Tick
    PROVE  NobodyServed
<1>0. IpcInv' /\ NoNewWaiter
  BY TickInv
<1>1. CoherentState(k)
  BY DEF IpcInv, IpcTypeOK, Coherent, CoherentState
<1>2. Refuses(k, k') /\ UNCHANGED <<pc, on>>
  <2>1. CASE SliceEnd
    BY <1>1, <2>1, ScheduleRefuses DEF SliceEnd
  <2>2. ASSUME NEW t \in Thread, Timeout(t) PROVE Refuses(k, k') /\ UNCHANGED <<pc, on>>
    <3>1. /\ t \in k.timer /\ k' = rt_schedule(rt_thread_timeout(k, t))
          /\ UNCHANGED <<pc, on>>
      BY <2>2 DEF Timeout, Rescheduled
    <3>2. k.stat[t] = "SUSPEND" /\ Woken(k, t, "ETIMEOUT", rt_thread_timeout(k, t))
      BY <1>1, <3>1, TimeoutWakes
    <3>3. Refuses(k, rt_schedule(rt_thread_timeout(k, t)))
      BY <1>1, <3>2, WokenRefuses
    <3>. QED  BY <3>1, <3>3
  <2>. QED  BY <2>1, <2>2 DEF Tick
<1>3. SamePlaces
  BY <1>2 DEF SamePlaces
<1>. QED  BY <1>0, <1>2, <1>3, RefusedStep DEF Refuses

-----------------------------------------------------------------------------
\* The threads in L, which are not suspended, leave the places at which they
\* count as resumed; for the others nothing changes.
Leave(L) ==
    /\ \A u \in L : pc'[u] \notin Waits /\ k.stat[u] = "READY"
    /\ \A u \in Thread \ L : /\ pc'[u] \in Waits <=> pc[u] \in Waits
                             /\ pc[u] \in Waits => on'[u] = on[u]

\* Nobody is queued and nobody woken.
Leaves(L) ==
    /\ \A o \in Object : Waiting(o)' = Waiting(o) /\ Resumed(o)' = Resumed(o) \ L
    /\ \A u \in Thread \ L : k'.error[u] = k.error[u]

\* h, the first thread of the list of o, is served.
Serves(L, o, h) ==
    /\ h \in Waiting(o) /\ h \notin L
    /\ Waiting(o)' = Waiting(o) \ {h} /\ Resumed(o)' = (Resumed(o) \ L) \cup {h}
    /\ \A x \in Object \ {o} : Waiting(x)' = Waiting(x) /\ Resumed(x)' = Resumed(x) \ L
    /\ \A u \in Thread \ (L \cup {h}) : k'.error[u] = k.error[u]

\* t begins to wait for o, or waits again.
Blocks(t, o) ==
    /\ Waiting(o)' = Waiting(o) \cup {t}
    /\ \A x \in Object \ {o} : Waiting(x)' = Waiting(x)
    /\ \A x \in Object : Resumed(x)' = Resumed(x) \ {t}
    /\ k'.error[t] = "EOK" /\ \A u \in Thread \ {t} : k'.error[u] = k.error[u]

\* A step of the running thread that ends its wait, or of one that does not wait.
LEMMA GoesLeave ==
    ASSUME IpcInv, NEW t \in App, k.stat[t] = "READY",
           NEW label, label \notin Waits, NEW o, Goes(t, label, o)
    PROVE  Leave({t})
<1>1. t \in Thread /\ pc \in [Thread -> PC] /\ on \in [Thread -> Object \cup {NoObject}]
  BY DEF IpcInv, IpcTypeOK, App
<1>2. \A u \in Thread : /\ pc'[u] = IF u = t THEN label ELSE pc[u]
                        /\ on'[u] = IF u = t THEN o ELSE on[u]
  BY <1>1 DEF Goes
<1>. QED  BY <1>1, <1>2 DEF Leave

\* A step that leaves the lists and the errors of the other threads alone.
LEMMA LeaveStep ==
    ASSUME IpcInv, NEW L \in SUBSET Thread, Leave(L),
           \A l \in List : k'.list[l] = k.list[l],
           \A u \in Thread \ L : k'.error[u] = k.error[u]
    PROVE  Leaves(L)
<1>1. \A o \in Object : Waiting(o)' = Waiting(o)
  BY DEF Waiting, Object
<1>2. ASSUME NEW o \in Object, NEW u \in Thread
      PROVE  u \in Resumed(o)' <=> u \in Resumed(o) \ L
  BY <1>1 DEF Resumed, Leave, Waits
<1>3. \A o \in Object : Resumed(o)' \subseteq Thread /\ Resumed(o) \subseteq Thread
  BY DEF Resumed
<1>. QED  BY <1>1, <1>2, <1>3 DEF Leaves

\* A step that wakes one thread of the list of o with RT_EOK; r is the kernel
\* after what the step did before.
LEMMA ServeStep ==
    ASSUME IpcInv, NEW L \in SUBSET Thread, Leave(L),
           NEW r, r \in KernelState, r.error = k.error, \A l \in List : r.list[l] = k.list[l],
           NEW o \in Object, NEW h \in Waiting(o), NEW q, Woken(r, h, "EOK", q),
           k' = q \/ k' = rt_schedule(q)
    PROVE  Serves(L, o, h)
<1>2. WaitersWait
  BY IpcInvWaiters
<1>3. h \in Thread /\ h \notin L /\ on[h] = o /\ pc[h] \in Waits
  BY <1>2 DEF WaitersWait, Leave
<1>4. /\ CoherentState(q)
      /\ \A u \in Thread : q.error[u] = IF u = h THEN "EOK" ELSE k.error[u]
      /\ \A l \in List : ToSet(q.list[l]) = ToSet(k.list[l]) \ {h}
  <2>1. k.error \in [Thread -> Error]
    BY DEF KernelState
  <2>2. q.error = [k.error EXCEPT ![h] = "EOK"] /\ CoherentState(q)
    BY DEF Woken
  <2>3. \A l \in List : ToSet(q.list[l]) = ToSet(k.list[l]) \ {h}
    BY DEF Woken
  <2>. QED  BY <1>3, <2>1, <2>2, <2>3
<1>5. k'.error = q.error /\ \A l \in List : k'.list[l] = q.list[l]
  BY <1>4, ScheduleCoherent DEF SameThreads
<1>6. \A x \in Object : Waiting(x)' = Waiting(x) \ {h}
  BY <1>4, <1>5 DEF Waiting, Object
<1>7. \A x \in Object \ {o} : h \notin Waiting(x)
  BY <1>2, <1>3 DEF WaitersWait
<1>8. \A u \in Thread \ {h} : k'.error[u] = k.error[u]
  BY <1>4, <1>5
<1>9. k'.error[h] = "EOK"
  BY <1>3, <1>4, <1>5
<1>10. ASSUME NEW x \in Object, NEW u \in Thread \ {h}
       PROVE  u \in Resumed(x)' <=> u \in Resumed(x) \ L
  BY <1>6, <1>8 DEF Resumed, Leave, Waits
<1>11. ASSUME NEW x \in Object PROVE h \in Resumed(x)' <=> x = o
  BY <1>3, <1>6, <1>9 DEF Resumed, Leave, Waits
<1>12. \A x \in Object \ {o} : h \notin Resumed(x)
  BY <1>3 DEF Resumed
<1>13. \A x \in Object : Resumed(x)' \subseteq Thread /\ Resumed(x) \subseteq Thread
  BY DEF Resumed
<1>14. Resumed(o)' = (Resumed(o) \ L) \cup {h}
  BY <1>3, <1>10, <1>11, <1>13
<1>15. \A x \in Object \ {o} : Resumed(x)' = Resumed(x) \ L
  BY <1>10, <1>11, <1>12, <1>13
<1>16. /\ Waiting(o)' = Waiting(o) \ {h}
       /\ \A x \in Object \ {o} : Waiting(x)' = Waiting(x)
  <2>1. ASSUME NEW x \in Object \ {o} PROVE Waiting(x)' = Waiting(x)
    <3>1. Waiting(x)' = Waiting(x) \ {h} /\ h \notin Waiting(x)
      BY <1>6, <1>7
    <3>. QED  BY <3>1
  <2>. QED  BY <1>6, <2>1
<1>17. \A u \in Thread \ (L \cup {h}) : k'.error[u] = k.error[u]
  BY <1>8
<1>. QED  BY <1>3, <1>14, <1>15, <1>16, <1>17 DEF Serves

\* rt_ipc_list_resume of a list whose threads have no error yet.
LEMMA ListResumeServes ==
    ASSUME IpcInv, NEW L \in SUBSET Thread, Leave(L),
           NEW r, CoherentState(r), r.error = k.error, \A l \in List : r.list[l] = k.list[l],
           NEW o \in Object, k.list[o] # <<>>, k.error[Head(k.list[o])] = "EOK",
           k' = rt_ipc_list_resume(r, o) \/ k' = rt_schedule(rt_ipc_list_resume(r, o))
    PROVE  Serves(L, o, Head(k.list[o]))
<1>. DEFINE h == Head(k.list[o])
<1>1. r \in KernelState /\ o \in List /\ h = Head(r.list[o])
  BY DEF CoherentState, Object
<1>2. h \in Thread /\ h \in Waiting(o) /\ r.stat[h] = "SUSPEND"
  BY <1>1, HeadSuspended DEF Waiting
<1>3. rt_ipc_list_resume(r, o) = rt_thread_resume(r, h)
  BY <1>1 DEF rt_ipc_list_resume
<1>4. r.error[h] = "EOK"
  OBVIOUS
<1>. HIDE DEF h
<1>5. Woken(r, h, "EOK", rt_ipc_list_resume(r, o))
  BY <1>1, <1>2, <1>3, <1>4, PlainResumeWakes
<1>6. Serves(L, o, h)
  BY <1>1, <1>2, <1>5, ServeStep
<1>. QED  BY <1>6 DEF h

\* The running thread suspends itself on o; q is the kernel state in which it
\* does, with its error cleared.
LEMMA BlockStep ==
    ASSUME IpcInv, IpcInv', NEW t \in App, k.stat[t] = "READY", NEW o \in Object,
           NEW q, \A l \in List : q.list[l] = k.list[l],
           q.error = [k.error EXCEPT ![t] = "EOK"],
           Queued(q, t, o, k'), Goes(t, "wait_sched", o)
    PROVE  Blocks(t, o)
<1>1. /\ t \in Thread /\ pc \in [Thread -> PC] /\ on \in [Thread -> Object \cup {NoObject}]
      /\ k \in KernelState
  BY DEF IpcInv, IpcTypeOK, App
<1>2. \A u \in Thread : /\ pc'[u] = IF u = t THEN "wait_sched" ELSE pc[u]
                        /\ on'[u] = IF u = t THEN o ELSE on[u]
  BY <1>1 DEF Goes
<1>3. \A u \in Thread : k'.error[u] = IF u = t THEN "EOK" ELSE k.error[u]
  BY <1>1 DEF Queued, KernelState
<1>4. Waiting(o)' = Waiting(o) \cup {t} /\ \A x \in Object \ {o} : Waiting(x)' = Waiting(x)
  BY DEF Queued, Waiting, Object
<1>5. ASSUME NEW x \in Object, NEW u \in Thread
      PROVE  u \in Resumed(x)' <=> u \in Resumed(x) \ {t}
  BY <1>2, <1>3, <1>4 DEF Resumed
<1>6. \A x \in Object : Resumed(x)' \subseteq Thread /\ Resumed(x) \subseteq Thread
  BY DEF Resumed
<1>. QED  BY <1>1, <1>3, <1>4, <1>5, <1>6 DEF Blocks

\* Whoever waits has no error yet: rt_ipc_list_resume serves it.
WaitersClean == \A o \in Object : \A u \in Waiting(o) : k.error[u] = "EOK"

\* A step that serves nobody leaves the waiting threads without an error.
LEMMA ServedClean ==
    ASSUME WaitersClean, NobodyServed
    PROVE  WaitersClean'
  BY DEF WaitersClean, NobodyServed, NoNewWaiter

\* So does one that serves a thread.
LEMMA ServesClean ==
    ASSUME IpcInv, WaitersClean, NEW L \in SUBSET Thread, Leave(L),
           NEW o \in Object, NEW h, Serves(L, o, h)
    PROVE  WaitersClean'
<1>1. WaitersWait
  BY IpcInvWaiters
<1>2. ASSUME NEW x \in Object, NEW u \in Waiting(x)' PROVE k'.error[u] = "EOK"
  <2>1. u \in Waiting(x) /\ u \in Thread /\ k.error[u] = "EOK"
    BY <1>1 DEF Serves, WaitersWait, WaitersClean
  <2>2. u \notin L
    BY <1>1, <2>1 DEF WaitersWait, Leave
  <2>3. u # h
    BY <1>1, <2>1 DEF Serves, WaitersWait
  <2>. QED  BY <2>1, <2>2, <2>3 DEF Serves
<1>. QED  BY <1>2 DEF WaitersClean

\* And one in which a thread blocks.
LEMMA BlocksClean ==
    ASSUME IpcInv, WaitersClean, NEW t \in Thread, NEW o \in Object, Blocks(t, o)
    PROVE  WaitersClean'
<1>1. WaitersWait
  BY IpcInvWaiters
<1>2. ASSUME NEW x \in Object, NEW u \in Waiting(x)' PROVE k'.error[u] = "EOK"
  <2>1. CASE u = t
    BY <2>1 DEF Blocks
  <2>2. CASE u # t
    BY <1>1, <2>2 DEF Blocks, WaitersWait, WaitersClean
  <2>. QED  BY <2>1, <2>2
<1>. QED  BY <1>2 DEF WaitersClean

\* And one that only leaves.
LEMMA LeavesClean ==
    ASSUME IpcInv, WaitersClean, NEW L \in SUBSET Thread, Leave(L), Leaves(L)
    PROVE  WaitersClean'
<1>1. WaitersWait
  BY IpcInvWaiters
<1>2. ASSUME NEW x \in Object, NEW u \in Waiting(x)' PROVE k'.error[u] = "EOK"
  <2>1. u \in Waiting(x) /\ u \in Thread /\ k.error[u] = "EOK"
    BY <1>1 DEF Leaves, WaitersWait, WaitersClean
  <2>2. u \notin L
    BY <1>1, <2>1 DEF WaitersWait, Leave
  <2>. QED  BY <2>1, <2>2 DEF Leaves
<1>. QED  BY <1>2 DEF WaitersClean

\* A thread in no call was not resumed.
LEMMA RunnerNotResumed ==
    ASSUME NEW t, pc[t] \notin Waits
    PROVE  \A o \in Object : t \notin Resumed(o)
  BY DEF Resumed, Waits

\* A step inside a call creates no object.
LEMMA IpcOpen ==
    ASSUME NEW t, IpcInCall(t) \/ IpcCall(t) \/ Tick
    PROVE  open' \subseteq open
<1>1. IpcInCall(t) => open' \subseteq open
  BY DEF IpcInCall, WaitSchedule, Schedule, DeleteTest, DeleteOne, SleepSchedule, SleepReturn
<1>2. IpcCall(t) => open' \subseteq open
  BY DEF IpcCall, Delete, Sleep, ChangePriority
<1>3. Tick => open' \subseteq open
  BY DEF Tick, SliceEnd, Timeout
<1>. QED  BY <1>1, <1>2, <1>3

\* Nobody waits for an object on which nobody is in a call.
LEMMA UnusedIsEmpty ==
    ASSUME IpcInv, NEW o \in Object, \A u \in Thread : on[u] # o
    PROVE  Waiting(o) = {} /\ Resumed(o) = {}
<1>1. WaitersWait
  BY IpcInvWaiters
<1>. QED  BY <1>1 DEF WaitersWait, Resumed

\* A deleted object stays drained in a step that queues nobody.
LEMMA StaysDrained ==
    ASSUME DeletedIsDrained, NoNewWaiter, \A o \in open \ open' : Waiting(o) = {}
    PROVE  DeletedIsDrained'
  BY DEF DeletedIsDrained, NoNewWaiter

\* What the steps that the services share delete is drained.
LEMMA IpcDrains ==
    ASSUME NEW t, IpcInCall(t) \/ IpcCall(t) \/ Tick
    PROVE  \A o \in open \ open' : Waiting(o) = {}
<1>1. CASE DeleteTest(t)
  BY <1>1 DEF DeleteTest
<1>2. CASE UNCHANGED open
  BY <1>2
<1>3. IpcInCall(t) => DeleteTest(t) \/ UNCHANGED open
  BY DEF IpcInCall, WaitSchedule, Schedule, DeleteOne, SleepSchedule, SleepReturn
<1>4. IpcCall(t) \/ Tick => UNCHANGED open
  BY DEF IpcCall, Delete, Sleep, ChangePriority, Tick, SliceEnd, Timeout
<1>. QED  BY <1>1, <1>2, <1>3, <1>4

-----------------------------------------------------------------------------
(* The steps of the services that wait again (mailboxes, message queues), and *)
(* of those that serve several lists.                                         *)

\* The first thread of the list of l, if there is one, was served; the threads
\* in L went on.
ServesOne(L, l) ==
    /\ NoNewWaiter
    /\ \A x \in Object \ {l} : Resumed(x)' = Resumed(x) \ L
    /\ Waiting(l) = {} => Resumed(l)' = Resumed(l) \ L
    /\ Waiting(l) # {} =>
         \E h \in Thread \ (Resumed(l) \cup L) : Resumed(l)' = (Resumed(l) \ L) \cup {h}

\* Sets of threads can be counted.
LEMMA CountThreads ==
    ASSUME NEW R \in SUBSET Thread
    PROVE  /\ Cardinality(R) \in Nat
           /\ \A x \in Thread \ R : Cardinality(R \cup {x}) = Cardinality(R) + 1
           /\ \A x \in R : Cardinality(R \ {x}) = Cardinality(R) - 1
<1>1. IsFiniteSet(R)
  BY KernelAssumption, FS_Subset
<1>2. Cardinality(R) \in Nat
  BY <1>1, FS_CardinalityType
<1>3. \A x \in Thread \ R : Cardinality(R \cup {x}) = Cardinality(R) + 1
  BY <1>1, FS_AddElement
<1>4. \A x \in R : Cardinality(R \ {x}) = Cardinality(R) - 1
  BY <1>1, FS_RemoveElement
<1>. QED  BY <1>2, <1>3, <1>4

\* A thread waits for an object exactly when its list is not empty.
LEMMA EmptyIsUnawaited ==
    ASSUME IpcInv, NEW o \in Object
    PROVE  k.list[o] = <<>> <=> Waiting(o) = {}
<1>1. k.list[o] \in Seq(Thread)
  BY DEF IpcInv, IpcTypeOK, KernelState, Object
<1>. QED  BY <1>1, EmptyList DEF Waiting

\* A served thread was not among the resumed ones.
LEMMA ServesIsServesOne ==
    ASSUME IpcInv, NEW L \in SUBSET Thread, NEW l \in Object, NEW h, Serves(L, l, h)
    PROVE  ServesOne(L, l)
<1>1. h \in Thread /\ h \in Waiting(l) /\ h \notin Resumed(l) /\ h \notin L
  BY IpcInvWaiters DEF WaitersWait, Serves, Resumed
<1>2. NoNewWaiter
  BY DEF Serves, NoNewWaiter
<1>3. h \in Thread \ (Resumed(l) \cup L) /\ Resumed(l)' = (Resumed(l) \ L) \cup {h}
  BY <1>1 DEF Serves
<1>. QED  BY <1>1, <1>2, <1>3 DEF Serves, ServesOne

\* The running thread goes on in its call, or returns, and changes at most its
\* own error.
LEMMA GoingStep ==
    ASSUME IpcInv, WaitersClean, NEW t \in App, NEW label, Runs(t, label),
           label \notin {"wait_sched", "sleep_sched"},
           UNCHANGED k \/ \E e \in Error : k' = [k EXCEPT !.error[t] = e],
           NEW next \in PC \ Waits, NEW o \in Object \cup {NoObject}, Goes(t, next, o),
           next \in WorksOnObject => o \in Object,
           open' \subseteq Object, corrupt' \in BOOLEAN
    PROVE  IpcInv' /\ WaitersClean' /\ Leaves({t})
<1>1. /\ CoherentState(k) /\ k \in KernelState /\ t \in Thread /\ t = k.cur
      /\ k.stat[t] = "READY"
  BY Runner
<1>2. /\ CoherentState(k')
      /\ k'.stat = k.stat /\ k'.cur = k.cur /\ k'.lock = k.lock
      /\ k'.timer = k.timer /\ k'.list = k.list
      /\ \A u \in Thread \ {t} : k'.error[u] = k.error[u]
  <2>1. CASE UNCHANGED k
    BY <1>1, <2>1
  <2>2. ASSUME NEW e \in Error, k' = [k EXCEPT !.error[t] = e]
        PROVE  /\ CoherentState(k')
               /\ k'.stat = k.stat /\ k'.cur = k.cur /\ k'.lock = k.lock
               /\ k'.timer = k.timer /\ k'.list = k.list
               /\ \A u \in Thread \ {t} : k'.error[u] = k.error[u]
    <3>1. \A u \in Thread \ {t} : k'.error[u] = k.error[u]
      BY <1>1, <2>2 DEF KernelState
    <3>. QED  BY <1>1, <2>2, <3>1, ErrorCoherent
  <2>. QED  BY <2>1, <2>2
<1>3. Eases(k, k')
  BY <1>2 DEF Eases
<1>4. IpcInv'
  BY <1>1, <1>3, EasedCall
<1>5. Leave({t})
  BY <1>1, GoesLeave
<1>6. Leaves({t})
  BY <1>1, <1>2, <1>5, LeaveStep
<1>7. WaitersClean'
  BY <1>1, <1>5, <1>6, LeavesClean
<1>. QED  BY <1>4, <1>6, <1>7

\* The running thread resumes the first thread of a list, if there is one, and
\* ends its call.
LEMMA ServingStep ==
    ASSUME IpcInv, WaitersClean, NEW t \in App, NEW label, Runs(t, label),
           label \notin {"wait_sched", "sleep_sched"}, NEW l \in Object,
           ResumesOne(t, l), UNCHANGED <<open, corrupt>>
    PROVE  IpcInv' /\ WaitersClean' /\ ServesOne({t}, l)
<1>1. /\ CoherentState(k) /\ k \in KernelState /\ t \in Thread /\ t = k.cur
      /\ k.stat[t] = "READY" /\ open \subseteq Object /\ corrupt \in BOOLEAN
  BY Runner
<1>2. /\ "sched" \in PC \ Waits /\ "sched" \notin WorksOnObject
      /\ "run" \in PC \ Waits /\ "run" \notin WorksOnObject
  BY Labels DEF Waits
<1>3. CASE k.list[l] # <<>>
  <2>1. k' = rt_ipc_list_resume(k, l) /\ Goes(t, "sched", NoObject)
    BY <1>3 DEF ResumesOne
  <2>2. Eases(k, k')
    BY <1>1, <1>3, <2>1, ListResumeEases DEF Object
  <2>3. IpcInv'
    BY <1>2, <2>1, <2>2, ReadyStep
  <2>4. Leave({t})
    BY <1>1, <1>2, <2>1, GoesLeave
  <2>5. k.error[Head(k.list[l])] = "EOK"
    <3>1. Head(k.list[l]) \in Waiting(l)
      BY <1>1, <1>3, HeadSuspended DEF Waiting, Object
    <3>. QED  BY <3>1 DEF WaitersClean
  <2>6. Serves({t}, l, Head(k.list[l]))
    BY <1>1, <1>3, <2>1, <2>4, <2>5, ListResumeServes
  <2>7. WaitersClean'
    BY <1>1, <2>4, <2>6, ServesClean
  <2>8. ServesOne({t}, l)
    BY <1>1, <2>6, ServesIsServesOne
  <2>. QED  BY <2>3, <2>7, <2>8
<1>4. CASE k.list[l] = <<>>
  <2>1. Goes(t, "run", NoObject) /\ UNCHANGED k
    BY <1>4 DEF ResumesOne, Returns
  <2>2. IpcInv' /\ WaitersClean' /\ Leaves({t})
    BY <1>1, <1>2, <2>1, GoingStep
  <2>3. ServesOne({t}, l)
    BY <1>4, <2>2, EmptyIsUnawaited DEF Leaves, ServesOne, NoNewWaiter
  <2>. QED  BY <2>2, <2>3
<1>. QED  BY <1>3, <1>4

\* An interrupt handler does.
LEMMA ServingIsr ==
    ASSUME IpcInv, WaitersClean, NEW l \in Object, ResumesOneIsr(l),
           UNCHANGED <<open, pc, on, corrupt>>
    PROVE  IpcInv' /\ WaitersClean' /\ ServesOne({}, l)
<1>1. CoherentState(k) /\ k.lock = 0
  BY DEF IpcInv, IpcTypeOK, Coherent, CoherentState, Started
<1>2. Leave({})
  BY DEF Leave
<1>3. CASE k.list[l] # <<>>
  <2>1. PICK q : q = rt_ipc_list_resume(k, l)
    OBVIOUS
  <2>2. k' = rt_schedule(q)
    BY <1>3, <2>1 DEF ResumesOneIsr, Rescheduled
  <2>3. Eases(k, q)
    BY <1>1, <1>3, <2>1, ListResumeEases DEF Object
  <2>4. CoherentState(q) /\ q.lock = 0
    BY <1>1, <2>3 DEF Eases
  <2>5. Eases(k, k')
    BY <1>1, <2>2, <2>3, <2>4, ScheduleEases, EasesTransitive
  <2>6. IpcInv'
    BY <2>5, EasedKernel
  <2>7. k.error[Head(k.list[l])] = "EOK"
    <3>1. Head(k.list[l]) \in Waiting(l)
      BY <1>1, <1>3, HeadSuspended DEF Waiting, Object
    <3>. QED  BY <3>1 DEF WaitersClean
  <2>8. Serves({}, l, Head(k.list[l]))
    BY <1>1, <1>2, <1>3, <2>1, <2>2, <2>7, ListResumeServes
  <2>9. WaitersClean'
    BY <1>2, <2>8, ServesClean
  <2>10. ServesOne({}, l)
    BY <2>8, ServesIsServesOne
  <2>. QED  BY <2>6, <2>9, <2>10
<1>4. CASE k.list[l] = <<>>
  <2>1. UNCHANGED k
    BY <1>4 DEF ResumesOneIsr
  <2>2. IpcInv'
    BY <1>1, <2>1, EasesReflexive, EasedKernel
  <2>3. Leaves({})
    BY <1>2, <2>1, LeaveStep
  <2>4. WaitersClean'
    BY <1>2, <2>3, LeavesClean
  <2>5. ServesOne({}, l)
    BY <1>4, <2>3, EmptyIsUnawaited DEF Leaves, ServesOne, NoNewWaiter
  <2>. QED  BY <2>2, <2>4, <2>5
<1>. QED  BY <1>3, <1>4

\* The running thread is put into the list of o, to wait or to wait again; q is the
\* kernel in which it is.
LEMMA QueueingStep ==
    ASSUME IpcInv, WaitersClean, NEW t \in App, NEW label, Runs(t, label),
           label \notin {"wait_sched", "sleep_sched"}, NEW o \in Object,
           NEW q, q = [k EXCEPT !.error[t] = "EOK"], Queued(q, t, o, k'),
           Goes(t, "wait_sched", o), UNCHANGED <<open, corrupt>>
    PROVE  IpcInv' /\ WaitersClean' /\ Blocks(t, o)
<1>1. /\ CoherentState(k) /\ k \in KernelState /\ t \in Thread /\ t # Idle /\ t = k.cur
      /\ k.stat[t] = "READY"
  BY Runner DEF App
<1>2. "EOK" \in Error
  BY DEF Error
<1>3. /\ CoherentState(q)
      /\ q.stat = k.stat /\ q.cur = k.cur /\ q.lock = k.lock
      /\ q.timer = k.timer /\ q.list = k.list
  BY <1>1, <1>2, ErrorCoherent
<1>4. q.error = [k.error EXCEPT ![t] = "EOK"]
  BY <1>1 DEF KernelState
<1>5. Eases(k, q)
  BY <1>3 DEF Eases
<1>6. IpcInv'
  BY <1>1, <1>3, <1>5, QueuedStep
<1>7. Blocks(t, o)
  BY <1>1, <1>3, <1>4, <1>6, BlockStep
<1>8. WaitersClean'
  BY <1>1, <1>7, BlocksClean
<1>. QED  BY <1>6, <1>7, <1>8

\* The running thread waits, or waits again.
LEMMA BlockingStep ==
    ASSUME IpcInv, WaitersClean, NEW t \in App, NEW label, Runs(t, label),
           label \notin {"wait_sched", "sleep_sched"}, NEW o \in Object, NEW timed,
           k' = Wait([k EXCEPT !.error[t] = "EOK"], t, o, timed),
           Goes(t, "wait_sched", o), UNCHANGED <<open, corrupt>>
    PROVE  IpcInv' /\ WaitersClean' /\ Blocks(t, o)
<1>1. PICK q : q = [k EXCEPT !.error[t] = "EOK"]
  OBVIOUS
<1>2. CoherentState(k) /\ t \in Thread /\ t # Idle /\ k.stat[t] = "READY" /\ "EOK" \in Error
  BY Runner DEF App, Error
<1>3. CoherentState(q) /\ q.stat = k.stat
  BY <1>1, <1>2, ErrorCoherent
<1>4. Queued(q, t, o, k')
  BY <1>1, <1>2, <1>3, WaitQueues
<1>. QED  BY <1>1, <1>4, QueueingStep

\* One turn of rt_ipc_list_resume_all in a reset.
LEMMA RefusingStep ==
    ASSUME IpcInv, WaitersClean, NEW o \in Object, k.list[o] # <<>>,
           k' = ResumeFirst(o), UNCHANGED <<open, pc, on, corrupt>>
    PROVE  IpcInv' /\ WaitersClean' /\ NobodyServed
<1>1. CoherentState(k)
  BY DEF IpcInv, IpcTypeOK, Coherent, CoherentState
<1>2. IpcInv' /\ NoNewWaiter
  BY <1>1, ResumeFirstEases, EasedKernel
<1>3. SamePlaces
  BY DEF SamePlaces
<1>4. NobodyServed
  BY <1>1, <1>2, <1>3, ResumeFirstRefuses, RefusedStep DEF Refuses
<1>. QED  BY <1>2, <1>4, ServedClean

\* A step that leaves the kernel and the places alone: an object is created, or
\* a thread works on a deleted one.
LEMMA IdleStep ==
    ASSUME IpcInv, WaitersClean, UNCHANGED <<k, pc, on>>,
           open' \subseteq Object, corrupt' \in BOOLEAN
    PROVE  IpcInv' /\ WaitersClean' /\ NobodyServed
<1>1. \A o \in Object : Waiting(o)' = Waiting(o) /\ Resumed(o)' = Resumed(o)
  BY DEF Waiting, Resumed
<1>2. (IpcTypeOK /\ Coherent /\ Started /\ RunnerReady /\ CallsHaveObjects)'
  BY DEF IpcInv, IpcTypeOK, Coherent, Started, RunnerReady, CallsHaveObjects
<1>3. NobodyStranded'
  BY <1>1 DEF IpcInv, NobodyStranded
<1>. QED  BY <1>1, <1>2, <1>3 DEF IpcInv, WaitersClean, NobodyServed, NoNewWaiter

-----------------------------------------------------------------------------
(* The lists of RT_IPC_FLAG_PRIO objects *)

\* Those of a kernel are sorted.
PrioSorted(q) == \A o \in Object : Flag[o] = "PRIO" => Sorted(q.prio, q.list[o])

\* HighestPrioFirst says so of the current one.
LEMMA SortedFirst ==
    (HighestPrioFirst <=> PrioSorted(k)) /\ (HighestPrioFirst' <=> PrioSorted(k'))
  BY DEF HighestPrioFirst, PrioSorted, Sorted

\* A step that only wakes threads keeps the lists sorted.
LEMMA PrunedSorted ==
    ASSUME NEW q, q \in KernelState, NEW r, Prunes(q, r), PrioSorted(q)
    PROVE  PrioSorted(r)
<1>. SUFFICES ASSUME NEW o \in Object, Flag[o] = "PRIO" PROVE Sorted(r.prio, r.list[o])
  BY DEF PrioSorted
<1>1. q.list[o] \in Seq(Thread) /\ Sorted(q.prio, q.list[o])
  BY DEF KernelState, PrioSorted, Object
<1>2. r.prio = q.prio /\ (r.list[o] = q.list[o] \/ \E e : r.list[o] = RemoveFirst(q.list[o], e))
  BY DEF Prunes, Object
<1>. QED  BY <1>1, <1>2, RemoveFirstSorted

\* A thread that begins to wait is put at its place.
LEMMA WaitInserts ==
    ASSUME NEW q, CoherentState(q), NEW t \in Thread, t # Idle, q.stat[t] = "READY",
           NEW o \in Object, NEW timed
    PROVE  Wait(q, t, o, timed).list[o] =
             IF Flag[o] = "FIFO" THEN Append(q.list[o], t) ELSE PrioInsert(q.prio, q.list[o], t)
<1>. DEFINE p == rt_thread_suspend(q, t)
            n == IF Flag[o] = "FIFO" THEN Append(p.list[o], t)
                 ELSE PrioInsert(p.prio, p.list[o], t)
            s == rt_ipc_list_suspend(q, o, t, Flag[o])
            r == Wait(q, t, o, timed)
<1>1. p \in KernelState /\ p.prio = q.prio /\ \A l \in List : p.list[l] = q.list[l]
  <2>1. Suspended(q, t, p)
    BY SuspendCoherent
  <2>. QED  BY <2>1 DEF Suspended, CoherentState
<1>2. s = [p EXCEPT !.list[o] = n]
  BY DEF rt_ipc_list_suspend
<1>3. r = s \/ r = rt_timer_start(s, t)
  BY DEF Wait
<1>. HIDE DEF p, s, r
<1>4. o \in List /\ p.list \in [List -> Seq(Thread)]
  BY <1>1 DEF Object, KernelState
<1>5. s.list[o] = n
  BY <1>1, <1>2, <1>4 DEF KernelState
<1>6. DOMAIN s = {"stat", "prio", "ready", "group", "list", "cur", "lock", "error", "timer"}
  BY <1>1, <1>2 DEF KernelState
<1>7. r.list = s.list
  BY <1>3, <1>6 DEF rt_timer_start
<1>8. r.list[o] = IF Flag[o] = "FIFO" THEN Append(q.list[o], t)
                  ELSE PrioInsert(q.prio, q.list[o], t)
  BY <1>1, <1>4, <1>5, <1>7
<1>. QED  BY <1>8 DEF r

\* So the lists stay sorted.
LEMMA WaitSorted ==
    ASSUME NEW q, CoherentState(q), NEW t \in Thread, t # Idle, q.stat[t] = "READY",
           NEW o \in Object, NEW timed, PrioSorted(q)
    PROVE  PrioSorted(Wait(q, t, o, timed))
<1>1. PICK r : r = Wait(q, t, o, timed)
  OBVIOUS
<1>2. r.prio = q.prio /\ \A l \in List \ {o} : r.list[l] = q.list[l]
  BY <1>1, WaitQueues DEF Queued
<1>3. r.list[o] = IF Flag[o] = "FIFO" THEN Append(q.list[o], t)
                  ELSE PrioInsert(q.prio, q.list[o], t)
  BY <1>1, WaitInserts
<1>4. ASSUME NEW l \in Object, Flag[l] = "PRIO" PROVE Sorted(q.prio, r.list[l])
  <2>1. l \in List /\ Sorted(q.prio, q.list[l])
    BY <1>4 DEF PrioSorted, Object
  <2>2. CASE l # o
    BY <1>2, <2>1, <2>2
  <2>3. CASE l = o
    <3>1. q.list[o] \in Seq(Thread) /\ IsInjective(q.list[o]) /\ t \notin ToSet(q.list[o])
      BY CoherentLists DEF KernelState, ListsOK, Object
    <3>2. \A u \in Thread : q.prio[u] \in Int
      BY DEF CoherentState, KernelState, Prio
    <3>3. r.list[o] = PrioInsert(q.prio, q.list[o], t)
      BY <1>3, <1>4, <2>3
    <3>. QED  BY <2>1, <2>3, <3>1, <3>2, <3>3, PrioInsertSorted
  <2>. QED  BY <2>2, <2>3
<1>5. PrioSorted(r)
  BY <1>2, <1>4 DEF PrioSorted
<1>. QED  BY <1>1, <1>5

\* rt_ipc_list_resume takes one thread from one list.
LEMMA ResumePrunes ==
    ASSUME NEW q, CoherentState(q), NEW o \in Object, q.list[o] # <<>>
    PROVE  Prunes(q, rt_ipc_list_resume(q, o))
<1>1. PICK h : h = Head(q.list[o])
  OBVIOUS
<1>2. h \in Thread /\ "EOK" \in Error /\ q \in KernelState
  BY <1>1, HeadSuspended DEF Object, Error, CoherentState
<1>3. rt_ipc_list_resume(q, o) = rt_thread_resume(q, h)
  BY <1>1 DEF rt_ipc_list_resume
<1>. QED  BY <1>2, <1>3, WakePrunes

\* So does one turn of rt_ipc_list_resume_all.
LEMMA ResumeFirstPrunes ==
    ASSUME CoherentState(k), NEW o \in Object, k.list[o] # <<>>
    PROVE  Prunes(k, ResumeFirst(o))
<1>1. PICK h : h = Head(k.list[o])
  OBVIOUS
<1>2. h \in Thread /\ "ERROR" \in Error /\ k \in KernelState
  BY <1>1, HeadSuspended DEF Object, Error, CoherentState
<1>3. ResumeFirst(o) = rt_thread_resume([k EXCEPT !.error[h] = "ERROR"], h)
  BY <1>1 DEF ResumeFirst
<1>. QED  BY <1>2, <1>3, WakePrunes

\* The steps that the services share keep the lists sorted, as long as nobody
\* changes the priority of a thread with rt_thread_control.
LEMMA SharedPrunes ==
    ASSUME IpcInv, NEW t \in App,
           IpcInCall(t) \/ (IpcCall(t) /\ NewPrio = {})
    PROVE  Prunes(k, k')
<1>1. k \in KernelState /\ CoherentState(k)
  BY DEF IpcInv, IpcTypeOK, Coherent, CoherentState
<1>2. Prunes(k, k)
  BY DEF Prunes
<1>3. Prunes(k, rt_schedule(k))
  BY <1>1, <1>2, SchedulePrunes
<1>4. ASSUME Sleep(t) PROVE Prunes(k, k')
  <2>1. t \in Thread /\ t # Idle /\ k.stat[t] = "READY"
    BY <1>4, Runner DEF Sleep, App
  <2>2. PICK r : r = rt_thread_suspend(k, t)
    OBVIOUS
  <2>3. r \in KernelState /\ r.prio = k.prio /\ \A l \in List : r.list[l] = k.list[l]
    <3>1. Suspended(k, t, r)
      BY <1>1, <2>1, <2>2, SuspendCoherent
    <3>. QED  BY <3>1 DEF Suspended, CoherentState
  <2>4. k' = rt_timer_start(r, t)
    BY <1>4, <2>2 DEF Sleep
  <2>5. k'.prio = r.prio /\ k'.list = r.list
    BY <2>3, <2>4 DEF rt_timer_start, KernelState
  <2>. QED  BY <2>3, <2>5 DEF Prunes
<1>5. ASSUME SleepReturn(t) PROVE Prunes(k, k')
  <2>1. PICK e : k' = [k EXCEPT !.error[t] = e]
    BY <1>5 DEF SleepReturn
  <2>2. k'.prio = k.prio /\ k'.list = k.list
    BY <1>1, <2>1 DEF KernelState
  <2>. QED  BY <2>2 DEF Prunes
<1>6. CASE IpcInCall(t)
  <2>1. CASE WaitSchedule(t) \/ Schedule(t) \/ SleepSchedule(t)
    BY <1>3, <2>1 DEF WaitSchedule, Schedule, SleepSchedule
  <2>2. CASE DeleteTest(t)
    BY <1>2, <2>2 DEF DeleteTest
  <2>3. CASE DeleteOne(t)
    <3>1. on[t] \in Object
      BY <2>3, Runner, Labels DEF DeleteOne
    <3>2. (k.list[on[t]] # <<>> /\ k' = ResumeFirst(on[t])) \/ k' = k
      BY <2>3 DEF DeleteOne
    <3>. QED  BY <1>1, <1>2, <3>1, <3>2, ResumeFirstPrunes
  <2>4. CASE SleepReturn(t)
    BY <1>5, <2>4
  <2>. QED  BY <1>6, <2>1, <2>2, <2>3, <2>4 DEF IpcInCall
<1>7. CASE IpcCall(t) /\ NewPrio = {}
  <2>1. Sleep(t) \/ \E o \in Object : Delete(t, o)
    BY <1>7 DEF IpcCall
  <2>. QED  BY <1>2, <1>4, <2>1 DEF Delete
<1>. QED  BY <1>6, <1>7

\* The tick keeps the lists sorted.
LEMMA TickPrunes ==
    ASSUME IpcInv, Tick
    PROVE  Prunes(k, k')
<1>1. k \in KernelState /\ CoherentState(k)
  BY DEF IpcInv, IpcTypeOK, Coherent, CoherentState
<1>2. Prunes(k, k)
  BY DEF Prunes
<1>3. Prunes(k, rt_schedule(k))
  BY <1>1, <1>2, SchedulePrunes
<1>4. ASSUME NEW u \in Thread, Timeout(u) PROVE Prunes(k, k')
  <2>1. PICK r : r = rt_thread_timeout(k, u)
    OBVIOUS
  <2>2. u \in k.timer /\ k' = rt_schedule(r)
    BY <1>4, <2>1 DEF Timeout, Rescheduled
  <2>3. CoherentState(r)
    BY <1>1, <2>1, <2>2, TimeoutEases DEF Eases
  <2>4. Prunes(k, r)
    BY <1>1, <2>1, WakePrunes DEF Error
  <2>. QED  BY <2>2, <2>3, <2>4, SchedulePrunes
<1>. QED  BY <1>3, <1>4 DEF Tick, SliceEnd

=============================================================================
