-------------------------- MODULE LogViewer_proofs --------------------------
(***************************************************************************)
(* Proofs about "Save to folder" and "View Logs", for any number of rows,  *)
(* names and files that are in the folder before.                          *)
(*                                                                         *)
(* That jobs are saved under different names rests on what the loop over   *)
(* the names keeps: Numbering.  It is shown for names without extensions   *)
(* and numbers; with others it is not so (MCSaveFolder.tla).               *)
(***************************************************************************)
EXTENDS LogViewer, SequenceTheorems, FiniteSetTheorems, WellFoundedInduction,
        TLAPS

-----------------------------------------------------------------------------
(* Sequences and sets of rows.                                             *)

Increasing(s) == \A k, l \in DOMAIN s : k < l => s[k] < s[l]

(* There are finitely many rows.                                           *)
LEMMA RowsFinite ==
  ASSUME NEW S \in SUBSET Row
  PROVE  IsFiniteSet(S) /\ Cardinality(S) \in Nat
<1>1. IsFiniteSet(Row)
  BY BoundsAssumption, FS_Interval DEF Row
<1> QED
  BY <1>1, FS_Subset, FS_CardinalityType

(* A set in order: each element once, and all of them.                     *)
LEMMA InOrderProperties ==
  ASSUME NEW S \in SUBSET Row, NEW s \in InOrder(S)
  PROVE  /\ s \in Seq(Row) /\ s \in Seq(S) /\ Len(s) = Cardinality(S)
         /\ DOMAIN s = 1 .. Len(s) /\ Increasing(s)
         /\ \A x \in S : \E k \in DOMAIN s : s[k] = x
<1> DEFINE n == Cardinality(S)
<1>1. n \in Nat /\ IsFiniteSet(S) /\ \A x \in S : x \in Nat
  BY RowsFinite DEF Row
<1>2. s \in [1 .. n -> S] /\ \A k, l \in 1 .. n : k < l => s[k] < s[l]
  BY DEF InOrder
<1>3. s \in Seq(S) /\ Len(s) = n
  BY <1>1, <1>2
<1>4. s \in Seq(Row)
  BY <1>1, <1>2
<1>5. ASSUME NEW k \in 1 .. n, NEW l \in 1 .. n, s[k] = s[l] PROVE k = l
  <2>1. s[k] \in Nat
    BY <1>1, <1>2
  <2>2. ~(k < l) /\ ~(l < k)
    BY <1>2, <1>5, <2>1
  <2> QED
    BY <1>1, <2>2
<1>6. s \in Injection(1 .. n, S)
  BY <1>2, <1>5 DEF Injection, IsInjective
<1>7. IsFiniteSet(1 .. n) /\ Cardinality(1 .. n) = n
  BY <1>1, FS_Interval
<1>8. s \in Surjection(1 .. n, S)
  BY <1>1, <1>6, <1>7, FS_Injection
<1>9. \A x \in S : \E k \in 1 .. n : s[k] = x
  BY <1>8 DEF Surjection
<1> QED
  BY <1>2, <1>3, <1>4, <1>9 DEF Increasing

(* An increasing sequence is the set of its elements in order.             *)
LEMMA IncreasingIsInOrder ==
  ASSUME NEW s \in Seq(Row), Increasing(s)
  PROVE  s \in InOrder({s[k] : k \in DOMAIN s})
<1> DEFINE S == {s[k] : k \in DOMAIN s}
           n == Len(s)
<1>1. n \in Nat /\ s \in [1 .. n -> Row]
  BY LenProperties
<1>2. s \in [1 .. n -> S]
  BY <1>1
<1>3. ASSUME NEW k \in 1 .. n, NEW l \in 1 .. n, s[k] = s[l] PROVE k = l
  <2>1. s[k] \in Nat
    BY <1>1 DEF Row
  <2>2. ~(k < l) /\ ~(l < k)
    BY <1>1, <1>3, <2>1 DEF Increasing
  <2> QED
    BY <1>1, <2>2
<1>4. s \in Bijection(1 .. n, S)
  BY <1>1, <1>2, <1>3
     DEF Bijection, Injection, Surjection, IsInjective
<1>5. Cardinality(1 .. n) = n /\ IsFiniteSet(1 .. n)
  BY <1>1, FS_Interval
<1>6. Cardinality(S) = n
  BY <1>4, <1>5, FS_Bijection DEF ExistsBijection
<1> QED
  BY <1>1, <1>2, <1>6 DEF InOrder, Increasing

(* RemoveAt takes one element out, and those behind it move up.            *)
LEMMA RemoveAtProperties ==
  ASSUME NEW S, NEW s \in Seq(S), NEW n \in 1 .. Len(s)
  PROVE  /\ RemoveAt(s, n) \in Seq(S)
         /\ Len(RemoveAt(s, n)) = Len(s) - 1
         /\ \A k \in 1 .. Len(s) - 1 :
              RemoveAt(s, n)[k] = IF k < n THEN s[k] ELSE s[k + 1]
<1> DEFINE u == SubSeq(s, 1, n - 1)
           v == SubSeq(s, n + 1, Len(s))
<1>0. Len(s) \in Nat /\ \A k \in 1 .. Len(s) : s[k] \in S
  BY LenProperties, ElementOfSeq
<1>1. /\ u \in Seq(S) /\ Len(u) = n - 1
      /\ \A k \in 1 .. n - 1 : u[k] = s[k]
  BY <1>0, SubSeqProperties
<1>2. /\ v \in Seq(S) /\ Len(v) = Len(s) - n
      /\ \A k \in 1 .. Len(s) - n : v[k] = s[n + k]
  <2>1. v \in Seq(S) /\ Len(v) = Len(s) - n
    BY <1>0, SubSeqProperties
  <2>2. \A k \in 1 .. Len(s) - n : v[k] = s[n + 1 + k - 1]
    BY <1>0, SubSeqProperties
  <2>3. \A k \in 1 .. Len(s) - n : n + 1 + k - 1 = n + k
    BY <1>0
  <2> QED
    BY <2>1, <2>2, <2>3
<1> HIDE DEF u, v
<1>3. /\ u \o v \in Seq(S) /\ Len(u \o v) = Len(u) + Len(v)
      /\ \A k \in 1 .. Len(u) + Len(v) :
           (u \o v)[k] = IF k <= Len(u) THEN u[k] ELSE v[k - Len(u)]
  BY ONLY <1>1, <1>2, ConcatProperties
<1>4. RemoveAt(s, n) = u \o v
  BY DEF RemoveAt, u, v
<1>5. Len(u) + Len(v) = Len(s) - 1
  BY <1>0, <1>1, <1>2
<1>6. ASSUME NEW k \in 1 .. Len(s) - 1
      PROVE  RemoveAt(s, n)[k] = IF k < n THEN s[k] ELSE s[k + 1]
  <2>1. k \in 1 .. Len(u) + Len(v)
    BY <1>5
  <2>2. CASE k < n
    <3>1. k <= Len(u) /\ k \in 1 .. n - 1
      BY <1>0, <1>1, <2>2
    <3> QED
      BY <1>1, <1>3, <1>4, <2>1, <2>2, <3>1
  <2>3. CASE ~(k < n)
    <3>1. ~(k <= Len(u)) /\ k - Len(u) = k - n + 1 /\ k - n + 1 \in 1 .. Len(s) - n
          /\ n + (k - n + 1) = k + 1
      BY <1>0, <1>1, <2>3
    <3> QED
      BY <1>2, <1>3, <1>4, <2>1, <2>3, <3>1
  <2> QED
    BY <2>2, <2>3
<1> QED
  BY <1>3, <1>4, <1>5, <1>6

(* The smallest element of a set of numbers.                               *)
LEMMA LeastElement ==
  ASSUME NEW S \in SUBSET Nat, S # {}
  PROVE  \E m \in S : \A k \in S : m <= k
<1>1. PICK m \in S : \A k \in S : <<k, m>> \notin OpToRel(<, Nat)
  BY NatLessThanWellFounded, WFMin
<1>2. \A k \in S : ~(k < m)
  BY <1>1 DEF OpToRel
<1> QED
  BY <1>2

-----------------------------------------------------------------------------
(* The log viewer.                                                         *)

Viewers == {"none", "blank", "refreshing", "idle", "closed", "crashed"}

(* The pages are rows in order.  While they are walked, those before i are *)
(* the ones that were loaded, and the notebook is there, unless the viewer *)
(* was opened before with one page left.                                   *)
PagesOK ==
  /\ viewer \in Viewers /\ mNotebook \in BOOLEAN
  /\ done \subseteq Row
  /\ mLogPages \in Seq(Row) /\ Increasing(mLogPages)
  /\ viewer = "none" => i = 1 /\ found = {}
  /\ pc = "chosen" => viewer = "none"
  /\ viewer = "refreshing" =>
       /\ i \in 1 .. Len(mLogPages) + 1
       /\ found = {mLogPages[k] : k \in 1 .. i - 1}
       /\ mNotebook \/ Len(mLogPages) = 1
  /\ viewer = "idle" =>
       /\ found = {mLogPages[k] : k \in DOMAIN mLogPages}
       /\ mNotebook = (Len(mLogPages) # 1)

(* A page that is taken out leaves the others in order.                    *)
LEMMA DeletePageKeeps ==
  ASSUME PagesOK, DeletePage
  PROVE  PagesOK'
<1>t. /\ viewer = "refreshing" /\ mNotebook \in BOOLEAN
      /\ done \subseteq Row /\ mLogPages \in Seq(Row) /\ Increasing(mLogPages)
      /\ i \in 1 .. Len(mLogPages) + 1
      /\ found = {mLogPages[k] : k \in 1 .. i - 1}
      /\ i <= Len(mLogPages) /\ Len(mLogPages) \in Nat
      /\ UNCHANGED <<done, mNotebook, i, found, pc>> /\ pc # "chosen"
  BY DEF PagesOK, DeletePage, vars
<1>1. CASE ~mNotebook
  BY <1>1, <1>t DEF DeletePage, PagesOK, Viewers, vars
<1>2. CASE mNotebook
  <2> DEFINE s == mLogPages
             u == RemoveAt(mLogPages, i)
  <2>1. mLogPages' = u /\ viewer' = viewer
    BY <1>2 DEF DeletePage
  <2>2. i \in 1 .. Len(s) /\ \A k \in 1 .. Len(s) : s[k] \in Nat
    <3>1. \A k \in 1 .. Len(s) : s[k] \in Row
      BY <1>t
    <3> QED
      BY <1>t, <3>1 DEF Row
  <2>3. /\ u \in Seq(Row) /\ Len(u) = Len(s) - 1
        /\ \A k \in 1 .. Len(s) - 1 : u[k] = IF k < i THEN s[k] ELSE s[k + 1]
    BY <1>t, <2>2, RemoveAtProperties
  <2> HIDE DEF u
  <2>4. DOMAIN u = 1 .. Len(s) - 1 /\ DOMAIN s = 1 .. Len(s)
    BY <1>t, <2>3
  <2>5. Increasing(u)
    <3> SUFFICES ASSUME NEW k \in 1 .. Len(s) - 1, NEW l \in 1 .. Len(s) - 1, k < l
                 PROVE  u[k] < u[l]
      BY <2>4 DEF Increasing
    <3> DEFINE At(x) == IF x < i THEN x ELSE x + 1
    <3>1. /\ At(k) \in 1 .. Len(s) /\ At(l) \in 1 .. Len(s) /\ At(k) < At(l)
          /\ i \in Nat
      BY <1>t
    <3>2. u[k] = s[At(k)] /\ u[l] = s[At(l)]
      BY <2>3
    <3> HIDE DEF At
    <3> QED
      BY <1>t, <2>4, <3>1, <3>2 DEF Increasing
  <2>6. \A k \in 1 .. i - 1 : u[k] = s[k]
    <3>1. i - 1 < i /\ i - 1 <= Len(s) - 1
      BY <1>t
    <3>2. \A k \in 1 .. i - 1 : k < i /\ k \in 1 .. Len(s) - 1
      BY <1>t
    <3> QED
      BY <2>3, <3>2
  <2>7. found' = {u[k] : k \in 1 .. i - 1}
    BY <1>t, <2>6
  <2>8. i \in 1 .. Len(u) + 1
    BY <1>t, <2>3
  <2> QED
    BY <1>t, <1>2, <2>1, <2>3, <2>5, <2>7, <2>8 DEF PagesOK, Viewers
<1> QED
  BY <1>1, <1>2

(* Every step of the viewer, and of what goes on around it.                *)
LEMMA PagesStep == PagesOK /\ [ViewNext]_viewVars => PagesOK'
<1> SUFFICES ASSUME PagesOK, [ViewNext]_viewVars
             PROVE  PagesOK'
  OBVIOUS
<1>t. /\ done \subseteq Row /\ mLogPages \in Seq(Row) /\ Increasing(mLogPages)
      /\ mNotebook \in BOOLEAN /\ viewer \in Viewers /\ Len(mLogPages) \in Nat
      /\ DOMAIN mLogPages = 1 .. Len(mLogPages)
  BY DEF PagesOK
<1>1. CASE OnViewlogsClick
  <2>1. PICK viewable \in SUBSET Row :
          /\ mLogPages' \in InOrder(viewable)
          /\ viewer' = IF viewable = {} THEN "blank" ELSE "refreshing"
          /\ mNotebook' = (viewable # {})
    BY <1>1 DEF OnViewlogsClick
  <2>2. mLogPages' \in Seq(Row) /\ Increasing(mLogPages')
    BY <2>1, InOrderProperties
  <2>3. mNotebook' \in BOOLEAN /\ (viewer' = "refreshing" => mNotebook')
    BY <2>1
  <2>4. viewer' \in {"blank", "refreshing"} /\ done' = done
    BY <1>1, <2>1 DEF OnViewlogsClick
  <2>5. UNCHANGED <<i, found>> /\ i = 1 /\ found = {}
    BY <1>1 DEF OnViewlogsClick, PagesOK
  <2>6. i' \in 1 .. Len(mLogPages') + 1
    <3>1. Len(mLogPages') \in Nat
      BY <2>2
    <3> QED
      BY <2>5, <3>1
  <2>7. found' = {mLogPages'[k] : k \in 1 .. i' - 1}
    <3>1. 1 .. i' - 1 = {}
      BY <2>5
    <3> QED
      BY <2>5, <3>1
  <2>8. pc' # "chosen"
    BY <1>1 DEF OnViewlogsClick
  <2> QED
    BY <1>t, <2>2, <2>3, <2>4, <2>6, <2>7, <2>8
       DEF PagesOK, Viewers, Increasing
<1>2. CASE KeepPage
  <2>1. /\ i \in 1 .. Len(mLogPages) /\ found = {mLogPages[k] : k \in 1 .. i - 1}
        /\ i' = i + 1 /\ found' = found \cup {mLogPages[i]}
        /\ mNotebook \/ Len(mLogPages) = 1
        /\ UNCHANGED <<viewer, mLogPages, mNotebook, pc, done>>
        /\ viewer = "refreshing"
    BY <1>2, <1>t DEF KeepPage, PagesOK, vars
  <2>2. i + 1 \in 1 .. Len(mLogPages) + 1 /\ 1 .. i + 1 - 1 = (1 .. i - 1) \cup {i}
    BY <1>t, <2>1
  <2>3. found' = {mLogPages[k] : k \in 1 .. i + 1 - 1}
    BY <2>1, <2>2
  <2> QED
    BY <1>t, <2>1, <2>2, <2>3 DEF PagesOK
<1>3. CASE DeletePage
  BY <1>3, DeletePageKeeps
<1>4. CASE EndRefresh
  <2>1. /\ viewer = "refreshing" /\ i > Len(mLogPages)
        /\ i \in 1 .. Len(mLogPages) + 1
        /\ found = {mLogPages[k] : k \in 1 .. i - 1}
        /\ mNotebook \/ Len(mLogPages) = 1
        /\ viewer' = "idle" /\ mNotebook' = (mNotebook /\ Len(mLogPages) # 1)
        /\ UNCHANGED <<mLogPages, found, pc, done>>
    BY <1>4 DEF EndRefresh, PagesOK, vars
  <2>2. 1 .. i - 1 = DOMAIN mLogPages
    BY <1>t, <2>1
  <2>3. mNotebook' = (Len(mLogPages) # 1)
    BY <1>t, <2>1
  <2>4. pc # "chosen"
    BY <2>1 DEF PagesOK
  <2> QED
    BY <1>t, <2>1, <2>2, <2>3, <2>4 DEF PagesOK, Viewers
<1>5. CASE OnRefreshClick
  <2>1. /\ viewer = "idle" /\ viewer' = "refreshing" /\ i' = 1 /\ found' = {}
        /\ mNotebook = (Len(mLogPages) # 1)
        /\ UNCHANGED <<mLogPages, mNotebook, pc, done>>
        /\ pc # "chosen"
    BY <1>5 DEF OnRefreshClick, PagesOK, vars
  <2>2. i' \in 1 .. Len(mLogPages') + 1 /\ 1 .. i' - 1 = {}
    BY <1>t, <2>1
  <2>3. found' = {mLogPages'[k] : k \in 1 .. i' - 1}
    BY <2>1, <2>2
  <2> QED
    BY <1>t, <2>1, <2>2, <2>3 DEF PagesOK, Viewers
<1>6. CASE OnClose
  <2>1. /\ mLogPages' = <<>> /\ mNotebook' = FALSE
        /\ viewer' \in {"closed", "crashed"}
        /\ UNCHANGED <<pc, done>> /\ pc # "chosen"
    BY <1>6 DEF OnClose, PagesOK, vars
  <2>2. mLogPages' \in Seq(Row) /\ Increasing(mLogPages')
    BY <2>1 DEF Increasing
  <2> QED
    BY <1>t, <2>1, <2>2 DEF PagesOK, Viewers
<1>7. CASE UNCHANGED <<window, done>> /\ (pc' = "chosen" => pc = "chosen")
  BY <1>7 DEF PagesOK, window
<1> QED
  BY <1>1, <1>2, <1>3, <1>4, <1>5, <1>6, <1>7
     DEF ViewNext, View, LogsChange, viewVars, vars, Next, window, Removed,
         NameAll, Ask, Confirm, SaveNext, End

(* After a Refresh the pages are those whose file was loaded, in order,    *)
(* and the notebook is there unless one page is left alone                 *)
(* (log_viewer.cpp:95-119).                                                *)
THEOREM RefreshKeepsOrderHolds == ViewSpec => []RefreshKeepsOrder
<1>1. ViewInit => PagesOK
  <2> SUFFICES ASSUME ViewInit PROVE PagesOK
    OBVIOUS
  <2>1. <<>> \in Seq(Row) /\ Increasing(<<>>)
    BY DEF Increasing
  <2> QED
    BY <2>1 DEF ViewInit, Init, PagesOK, Viewers
<1>2. PagesOK => RefreshKeepsOrder
  BY IncreasingIsInOrder DEF PagesOK, RefreshKeepsOrder
<1> QED
  BY <1>1, <1>2, PagesStep, PTL DEF ViewSpec

-----------------------------------------------------------------------------
(* The names.                                                              *)

(* A name is its fields.                                                   *)
LEMMA NameIsItsFields ==
  ASSUME NEW a \in Name, NEW b \in Name,
         a.stem = b.stem, a.ext = b.ext, a.numbers = b.numbers
  PROVE  a = b
<1>1. /\ a = [stem |-> a.stem, ext |-> a.ext, numbers |-> a.numbers]
      /\ b = [stem |-> b.stem, ext |-> b.ext, numbers |-> b.numbers]
  BY DEF Name
<1> QED
  BY <1>1

SameAs(w, i0, j) == j > i0 /\ w[j] = w[i0]

(* What appending numbers to those that have the name of the i-th does:    *)
(* each gets another number, and no other name changes.                    *)
LEMMA NumberedAfterProperties ==
  ASSUME NEW m \in Nat, NEW w \in [1 .. m -> Name], NEW i0 \in 1 .. m
  PROVE  /\ NumberedAfter(w, i0) \in [1 .. m -> Name]
         /\ \A j \in 1 .. m : ~SameAs(w, i0, j) => NumberedAfter(w, i0)[j] = w[j]
         /\ \E c \in [1 .. m -> Nat] :
              \A j \in 1 .. m : SameAs(w, i0, j) =>
                /\ NumberedAfter(w, i0)[j] = Suffixed(w[j], c[j])
                /\ \A l \in 1 .. m : SameAs(w, i0, l) /\ j < l => c[j] < c[l]
<1> DEFINE Same(j) == SameAs(w, i0, j)
           c == [j \in 1 .. m |-> Cardinality({l \in 1 .. j : Same(l)})]
           v == NumberedAfter(w, i0)
<1>1. v = [j \in 1 .. m |-> IF Same(j) THEN Suffixed(w[j], c[j]) ELSE w[j]]
  BY DEF NumberedAfter, SameAs
<1>2. ASSUME NEW j \in 1 .. m
      PROVE  IsFiniteSet({l \in 1 .. j : Same(l)}) /\ c[j] \in Nat
  <2>1. IsFiniteSet(1 .. j) /\ {l \in 1 .. j : Same(l)} \subseteq 1 .. j
    BY FS_Interval
  <2> QED
    BY <2>1, FS_Subset, FS_CardinalityType
<1>3. c \in [1 .. m -> Nat]
  BY <1>2
<1>4. ASSUME NEW j \in 1 .. m, NEW l \in 1 .. m, Same(j), Same(l), j < l
      PROVE  c[j] < c[l]
  <2> DEFINE A == {x \in 1 .. j : Same(x)}
             B == {x \in 1 .. l : Same(x)}
  <2>1. A \subseteq B /\ l \in B /\ l \notin A
    BY <1>4
  <2>2. /\ Cardinality(A) <= Cardinality(B)
        /\ Cardinality(A) = Cardinality(B) => A = B
    BY <1>2, <2>1, FS_Subset
  <2>3. c[j] = Cardinality(A) /\ c[l] = Cardinality(B)
    OBVIOUS
  <2>4. c[j] <= c[l] /\ c[j] # c[l] /\ c[j] \in Nat /\ c[l] \in Nat
    BY <1>3, <2>1, <2>2, <2>3
  <2> QED
    BY ONLY <2>4
<1> HIDE DEF c
<1>5. ASSUME NEW j \in 1 .. m PROVE Suffixed(w[j], c[j]) \in Name
  <2>1. w[j] \in Name /\ c[j] \in Nat /\ w[j].numbers \in Seq(Nat)
    BY <1>3 DEF Name
  <2>2. Append(w[j].numbers, c[j]) \in Seq(Nat)
    BY <2>1
  <2> QED
    BY <2>1, <2>2 DEF Name, Suffixed
<1>6. v \in [1 .. m -> Name]
  BY <1>1, <1>5
<1>7. /\ \A j \in 1 .. m : ~Same(j) => v[j] = w[j]
      /\ \A j \in 1 .. m : Same(j) => v[j] = Suffixed(w[j], c[j])
  BY <1>1
<1> QED
  BY <1>3, <1>4, <1>6, <1>7

(* The names after each round of the loop.                                 *)
RoundsUpTo(f, names, i0) ==
  f = [x \in 0 .. i0 |-> IF x = 0 THEN names ELSE NumberedAfter(f[x - 1], x)]

(* There are such, by induction on the number of rounds.                   *)
LEMMA RoundsExist ==
  ASSUME NEW names, NEW m \in Nat
  PROVE  \E f : RoundsUpTo(f, names, m)
<1> DEFINE S == {x \in Nat : ~ \E f : RoundsUpTo(f, names, x)}
<1>1. ASSUME S # {} PROVE FALSE
  <2>1. PICK x \in S : \A y \in S : x <= y
    BY <1>1, LeastElement
  <2>2. CASE x = 0
    <3>1. RoundsUpTo([y \in 0 .. 0 |-> names], names, 0)
      BY DEF RoundsUpTo
    <3> QED
      BY <2>1, <2>2, <3>1
  <2>3. CASE x # 0
    <3>1. x - 1 \in Nat /\ x - 1 \notin S
      BY <2>1, <2>3
    <3>2. PICK f : RoundsUpTo(f, names, x - 1)
      BY <3>1
    <3> DEFINE more == [y \in 0 .. x |->
                          IF y = x THEN NumberedAfter(f[x - 1], x) ELSE f[y]]
    <3>3. \A y \in 0 .. x - 1 : more[y] = f[y]
      BY <3>1
    <3>4. \A y \in 0 .. x - 1 :
            f[y] = IF y = 0 THEN names ELSE NumberedAfter(f[y - 1], y)
      BY <3>2 DEF RoundsUpTo
    <3>5. more[x] = NumberedAfter(f[x - 1], x)
      BY <3>1
    <3>6. ASSUME NEW y \in 0 .. x
          PROVE  more[y] = IF y = 0 THEN names ELSE NumberedAfter(more[y - 1], y)
      <4>1. CASE y = x
        <5>1. more[x - 1] = f[x - 1] /\ y # 0
          BY <2>3, <3>1, <3>3, <4>1
        <5> QED
          BY <3>5, <4>1, <5>1
      <4>2. CASE y # x /\ y # 0
        <5>1. y \in 0 .. x - 1 /\ y - 1 \in 0 .. x - 1
          BY <3>1, <4>2
        <5> QED
          BY <3>3, <3>4, <4>2, <5>1
      <4>3. CASE y = 0
        <5>1. y \in 0 .. x - 1
          BY <3>1, <4>3
        <5> QED
          BY <3>3, <3>4, <4>3, <5>1
      <4> QED
        BY <4>1, <4>2, <4>3
    <3>7. more = [y \in 0 .. x |-> more[y]]
      OBVIOUS
    <3> HIDE DEF more
    <3>8. more = [y \in 0 .. x |->
                    IF y = 0 THEN names ELSE NumberedAfter(more[y - 1], y)]
      BY <3>6, <3>7
    <3> QED
      BY <2>1, <3>8 DEF RoundsUpTo
  <2> QED
    BY <2>2, <2>3
<1> QED
  BY <1>1

(* Renamed is where the loop ends, and keeps what each round keeps: I[x]   *)
(* are the names there may be after x rounds.                              *)
LEMMA RenamedKeeps ==
  ASSUME NEW names, NEW m \in Nat, Len(names) = m, NEW I,
         names \in I[0],
         \A x \in 1 .. m : \A w \in I[x - 1] : NumberedAfter(w, x) \in I[x]
  PROVE  Renamed(names) \in I[m]
<1> DEFINE Rounds(f) ==
             [x \in 0 .. m |-> IF x = 0 THEN names ELSE NumberedAfter(f[x - 1], x)]
           rounds == CHOOSE f : f = Rounds(f)
<1>0. PICK f : RoundsUpTo(f, names, m)
  BY RoundsExist
<1>1. f = Rounds(f)
  BY <1>0 DEF RoundsUpTo
<1>2. rounds = Rounds(rounds)
  BY <1>1
<1>3. Renamed(names) = rounds[m]
  BY DEF Renamed
<1> HIDE DEF rounds
<1>4. /\ rounds[0] = names
      /\ \A x \in 1 .. m : rounds[x] = NumberedAfter(rounds[x - 1], x)
  BY <1>2
<1> DEFINE S == {x \in 0 .. m : rounds[x] \notin I[x]}
<1>5. ASSUME S # {} PROVE FALSE
  <2>0. S \in SUBSET Nat
    OBVIOUS
  <2> HIDE DEF S
  <2>1. PICK x \in S : \A y \in S : x <= y
    BY <1>5, <2>0, LeastElement
  <2> USE DEF S
  <2>2. x # 0
    BY <1>4, <2>1
  <2>3. x \in 1 .. m /\ x - 1 \in 0 .. m /\ x - 1 \notin S
    BY <2>1, <2>2
  <2> QED
    BY <1>4, <2>1, <2>3
<1>6. m \in 0 .. m
  OBVIOUS
<1> QED
  BY <1>3, <1>5, <1>6


(* What the loop keeps when no name has an extension or a number: those    *)
(* from i0 on may still be equal; of the others, no two are, and one that  *)
(* has got a number is like no later one that has none.                    *)
Numbering(w, m, i0) ==
  /\ \A j \in 1 .. m :
       /\ w[j].ext = ""
       /\ w[j].numbers = <<>> \/ \E c \in Nat : w[j].numbers = <<c>>
  /\ \A j, l \in 1 .. m :
       j # l /\ w[j] = w[l] => w[j].numbers = <<>> /\ j > i0 /\ l > i0
  /\ \A j, l \in 1 .. m :
       w[j].stem = w[l].stem /\ w[j].numbers # <<>> /\ w[l].numbers = <<>> =>
         l <= i0

LEMMA NumberingStep ==
  ASSUME NEW m \in Nat, NEW i0 \in 1 .. m, NEW w \in [1 .. m -> Name],
         Numbering(w, m, i0 - 1)
  PROVE  Numbering(NumberedAfter(w, i0), m, i0)
<1> DEFINE v == NumberedAfter(w, i0)
           Same(j) == SameAs(w, i0, j)
<1>1. PICK c \in [1 .. m -> Nat] :
        \A j \in 1 .. m : Same(j) =>
          /\ v[j] = Suffixed(w[j], c[j])
          /\ \A l \in 1 .. m : Same(l) /\ j < l => c[j] < c[l]
  BY NumberedAfterProperties
<1>2. \A j \in 1 .. m : ~Same(j) => v[j] = w[j]
  BY NumberedAfterProperties
<1> HIDE DEF v
<1>3. i0 \in Nat /\ \A j \in 1 .. m : w[j] \in Name
  OBVIOUS
<1>4. /\ \A j \in 1 .. m :
           /\ w[j].ext = ""
           /\ w[j].numbers = <<>> \/ \E d \in Nat : w[j].numbers = <<d>>
      /\ \A j, l \in 1 .. m :
           j # l /\ w[j] = w[l] => w[j].numbers = <<>> /\ j >= i0 /\ l >= i0
      /\ \A j, l \in 1 .. m :
           w[j].stem = w[l].stem /\ w[j].numbers # <<>> /\ w[l].numbers = <<>> =>
             l < i0
  <2>1. \A j \in 1 .. m : (j > i0 - 1 <=> j >= i0) /\ (j <= i0 - 1 <=> j < i0)
    BY <1>3
  <2> QED
    BY <2>1 DEF Numbering
<1>5. ASSUME NEW j \in 1 .. m, Same(j)
      PROVE  /\ w[j].numbers = <<>> /\ v[j].numbers = <<c[j]>> /\ c[j] \in Nat
             /\ v[j].stem = w[j].stem /\ v[j].ext = w[j].ext /\ j > i0
             /\ w[j] = w[i0]
  <2>0. w[j] = w[i0] /\ j > i0 /\ j # i0
    BY <1>3, <1>5 DEF SameAs
  <2>1. w[j].numbers = <<>>
    BY <1>4, <2>0
  <2>2. v[j] = Suffixed(w[j], c[j]) /\ w[j] \in Name
    BY <1>1, <1>5
  <2>3. /\ v[j].numbers = Append(w[j].numbers, c[j])
        /\ v[j].stem = w[j].stem /\ v[j].ext = w[j].ext
    BY <2>2 DEF Suffixed, Name
  <2>4. Append(<<>>, c[j]) = <<c[j]>> /\ c[j] \in Nat
    BY <1>1
  <2> QED
    BY <2>0, <2>1, <2>3, <2>4
<1>6. ASSUME NEW d \in Nat PROVE <<d>> # <<>>
  OBVIOUS
<1>7. ASSUME NEW j \in 1 .. m
      PROVE  /\ v[j].ext = ""
             /\ v[j].numbers = <<>> \/ \E d \in Nat : v[j].numbers = <<d>>
  <2>1. CASE Same(j)
    BY <1>4, <1>5, <2>1
  <2>2. CASE ~Same(j)
    BY <1>2, <1>4, <2>2
  <2> QED
    BY <2>1, <2>2
<1>8. ASSUME NEW j \in 1 .. m, NEW l \in 1 .. m, Same(j), ~Same(l),
             v[j].stem = v[l].stem, v[l].numbers # <<>>
      PROVE  FALSE
  <2>1. w[l].stem = w[j].stem /\ w[l].numbers # <<>> /\ w[j].numbers = <<>>
    BY <1>2, <1>5, <1>8
  <2>2. j < i0
    BY <1>4, <2>1
  <2> QED
    BY <1>3, <1>8, <2>2 DEF SameAs
<1>9. ASSUME NEW j \in 1 .. m, NEW l \in 1 .. m, j # l, v[j] = v[l]
      PROVE  v[j].numbers = <<>> /\ j > i0 /\ l > i0
  <2>1. CASE Same(j) /\ Same(l)
    <3>1. <<c[j]>> = <<c[l]>> /\ c[j] \in Nat /\ c[l] \in Nat
      BY <1>5, <1>9, <2>1
    <3>2. c[j] = c[l]
      BY <3>1
    <3>3. ~(j < l) /\ ~(l < j)
      BY <1>1, <2>1, <3>1, <3>2
    <3> QED
      BY <1>9, <3>3
  <2>2. CASE Same(j) /\ ~Same(l)
    <3>1. v[l].numbers # <<>> /\ v[j].stem = v[l].stem
      BY <1>5, <1>6, <1>9, <2>2
    <3> QED
      BY <1>8, <2>2, <3>1
  <2>3. CASE ~Same(j) /\ Same(l)
    <3>1. v[j].numbers # <<>> /\ v[j].stem = v[l].stem
      BY <1>5, <1>6, <1>9, <2>3
    <3> QED
      BY <1>8, <2>3, <3>1
  <2>4. CASE ~Same(j) /\ ~Same(l)
    <3>1. w[j] = w[l] /\ v[j].numbers = w[j].numbers
      BY <1>2, <1>9, <2>4
    <3>2. w[j].numbers = <<>> /\ j >= i0 /\ l >= i0
      BY <1>4, <1>9, <3>1
    <3>3. j # i0 /\ l # i0
      BY <1>3, <1>9, <2>4, <3>1, <3>2 DEF SameAs
    <3> QED
      BY <1>3, <3>1, <3>2, <3>3
  <2> QED
    BY <2>1, <2>2, <2>3, <2>4
<1>10. ASSUME NEW j \in 1 .. m, NEW l \in 1 .. m,
              v[j].stem = v[l].stem, v[j].numbers # <<>>, v[l].numbers = <<>>
       PROVE  l <= i0
  <2>1. ~Same(l)
    BY <1>5, <1>6, <1>10
  <2>2. w[l] = v[l] /\ w[l].numbers = <<>>
    BY <1>2, <1>10, <2>1
  <2>3. CASE Same(j)
    <3>1. /\ w[j].stem = w[l].stem /\ w[j].ext = w[l].ext
          /\ w[j].numbers = w[l].numbers
      BY <1>4, <1>5, <1>10, <2>2, <2>3
    <3>2. w[j] = w[l]
      BY <1>3, <3>1, NameIsItsFields
    <3>3. w[l] = w[i0]
      BY <1>5, <2>3, <3>2
    <3> QED
      BY <1>3, <2>1, <3>3 DEF SameAs
  <2>4. CASE ~Same(j)
    <3>1. l < i0
      BY <1>2, <1>4, <1>10, <2>2, <2>4
    <3> QED
      BY <1>3, <3>1
  <2> QED
    BY <2>3, <2>4
<1> QED
  BY <1>7, <1>9, <1>10 DEF Numbering, v

(* All names are names still, and plain ones are saved under as many names *)
(* (gamessq_frame.cpp:1241-1251).                                          *)
LEMMA RenamedProperties ==
  ASSUME NEW m \in Nat, NEW names \in [1 .. m -> Name]
  PROVE  /\ Renamed(names) \in [1 .. m -> Name]
         /\ (\A j \in 1 .. m : names[j].ext = "" /\ names[j].numbers = <<>>) =>
              \A j, l \in 1 .. m :
                j # l => Base(Renamed(names)[j]) # Base(Renamed(names)[l])
<1>0. Len(names) = m
  OBVIOUS
<1>1. Renamed(names) \in [1 .. m -> Name]
  <2> DEFINE I == [x \in 0 .. m |-> [1 .. m -> Name]]
  <2>1. names \in I[0]
    OBVIOUS
  <2>2. ASSUME NEW x \in 1 .. m, NEW w \in I[x - 1]
        PROVE  NumberedAfter(w, x) \in I[x]
    <3>1. x - 1 \in 0 .. m /\ x \in 0 .. m
      OBVIOUS
    <3> QED
      BY <3>1, NumberedAfterProperties
  <2>3. m \in 0 .. m
    OBVIOUS
  <2>4. Renamed(names) \in I[m]
    <3> HIDE DEF I
    <3> QED
      BY <1>0, <2>1, <2>2, RenamedKeeps
  <2> QED
    BY <2>3, <2>4
<1>2. ASSUME \A j \in 1 .. m : names[j].ext = "" /\ names[j].numbers = <<>>
      PROVE  Numbering(Renamed(names), m, m)
  <2> DEFINE I == [x \in 0 .. m |-> {w \in [1 .. m -> Name] : Numbering(w, m, x)}]
  <2>1. names \in I[0]
    <3>1. \A j \in 1 .. m : j > 0
      OBVIOUS
    <3>2. Numbering(names, m, 0)
      BY <1>2, <3>1 DEF Numbering
    <3> QED
      BY <3>2
  <2>2. ASSUME NEW x \in 1 .. m, NEW w \in I[x - 1]
        PROVE  NumberedAfter(w, x) \in I[x]
    <3>1. x - 1 \in 0 .. m /\ x \in 0 .. m
      OBVIOUS
    <3>2. w \in [1 .. m -> Name] /\ Numbering(w, m, x - 1)
      BY <3>1
    <3>3. NumberedAfter(w, x) \in [1 .. m -> Name]
      BY <3>2, NumberedAfterProperties
    <3>4. Numbering(NumberedAfter(w, x), m, x)
      BY <3>2, NumberingStep
    <3> QED
      BY <3>1, <3>3, <3>4
  <2>3. m \in 0 .. m
    OBVIOUS
  <2>4. Renamed(names) \in I[m]
    <3> HIDE DEF I
    <3> QED
      BY <1>0, <2>1, <2>2, RenamedKeeps
  <2> QED
    BY <2>3, <2>4
<1>3. ASSUME NEW j \in 1 .. m, NEW l \in 1 .. m, j # l,
             Numbering(Renamed(names), m, m)
      PROVE  Base(Renamed(names)[j]) # Base(Renamed(names)[l])
  <2> DEFINE a == Renamed(names)[j]
             b == Renamed(names)[l]
  <2>1. a \in Name /\ b \in Name
    BY <1>1
  <2>2. a.ext = "" /\ b.ext = ""
    BY <1>3 DEF Numbering
  <2>3. a # b
    <3>1. ~(j > m)
      OBVIOUS
    <3> QED
      BY <1>3, <3>1 DEF Numbering
  <2> HIDE DEF a, b
  <2>4. a.stem # b.stem \/ a.numbers # b.numbers
    BY <2>1, <2>2, <2>3, NameIsItsFields
  <2>5. Base(a) = <<a.stem, a.numbers>> /\ Base(b) = <<b.stem, b.numbers>>
    BY <2>2 DEF Base
  <2> QED
    BY <2>4, <2>5 DEF a, b
<1> QED
  BY <1>1, <1>2, <1>3


-----------------------------------------------------------------------------
(* Save to folder.                                                         *)

(* A step of ViewNext as SaveFolder sees it.                               *)
Opened ==
  /\ pc = "chosen" /\ pc' = "viewing"
  /\ UNCHANGED <<job, done, gone, savenames, overwrites, folder, todo, failed>>

(* What the viewer does is nothing to it, but for being opened.            *)
LEMMA ViewStepIsSaveStep == [ViewNext]_viewVars => Opened \/ [Next]_vars
BY DEF ViewNext, OnViewlogsClick, View, KeepPage, DeletePage, EndRefresh,
       OnRefreshClick, OnClose, LogsChange, Next, viewVars, vars, Opened

(* The rows to save are the jobs that were done, and what would be         *)
(* overwritten is known before any file is.                                *)
Asked ==
  \A k \in DOMAIN savenames : \A x \in Spooled(savenames[k].row) \ {"inp"} :
    Target(k, x) \in DOMAIN folder /\ folder[Target(k, x)] = Old =>
      Target(k, x) \in overwrites

SaveInv ==
  /\ job \in [Row -> [name : Names, dat : BOOLEAN]]
  /\ done \subseteq Row
  /\ failed \subseteq done
  /\ savenames \in Seq([row : done, name : Name])
  /\ pc \notin {"saving", "end"} => \A f \in DOMAIN folder : folder[f] = Old
  /\ pc \notin {"chosen", "viewing"} =>
       \A r \in done : \E k \in DOMAIN savenames : savenames[k].row = r
  /\ pc = "asked" => todo = 1
  /\ pc \in {"saving", "end"} => todo \in Nat \ {0}
  /\ pc \in {"asked", "saving", "end"} => Asked

(* No two jobs are saved under one name, so there is nothing of another    *)
(* job under it; and those that have been reached, and did not fail, are   *)
(* there with all their files.                                             *)
Unique ==
  \A k, l \in DOMAIN savenames :
    k # l => Base(savenames[k].name) # Base(savenames[l].name)

Saved ==
  \A k \in DOMAIN savenames :
    k < todo /\ savenames[k].row \notin failed =>
      \A x \in FilesOf(savenames[k].row) :
        /\ Target(k, x) \in DOMAIN folder
        /\ folder[Target(k, x)] = Whole(savenames[k].row)

OwnOrOld ==
  \A k \in DOMAIN savenames : \A x \in Exts :
    Target(k, x) \in DOMAIN folder =>
      \/ folder[Target(k, x)] = Whole(savenames[k].row)
      \/ folder[Target(k, x)] = Part(savenames[k].row)
      \/ folder[Target(k, x)] = Old

WholeInv ==
  /\ Unique
  /\ pc \in {"saving", "end"} => Saved /\ OwnOrOld

(* The names jobs have when they have no extension and no number.          *)
Plain == \A n \in Names : n.ext = "" /\ n.numbers = <<>>

LEMMA SaveInvInit == Init => SaveInv /\ WholeInv
<1>1. <<>> \in Seq([row : done, name : Name]) /\ DOMAIN <<>> = {}
  OBVIOUS
<1> QED
  BY <1>1 DEF Init, SaveInv, WholeInv, Unique

(* What SAVE does to the folder and to failed.                             *)
SaveEffect(copied, cut) ==
  LET r == savenames[todo].row
  IN  /\ DOMAIN folder' = copied \cup cut \cup DOMAIN folder
      /\ \A f \in copied : folder'[f] = Whole(r)
      /\ \A f \in cut : folder'[f] = Part(r)
      /\ \A f \in DOMAIN folder \ (copied \cup cut) : folder'[f] = folder[f]
      /\ failed' = failed \/ failed' = failed \cup {r}
      /\ r \notin failed' =>
           copied = {Target(todo, x) : x \in FilesOf(r)}

(* The copies SAVE makes are of files the job has, under its name.         *)
LEMMA SaveNextEffect ==
  ASSUME SaveNext
  PROVE  \E copied \in SUBSET Save(todo) : \E cut \in SUBSET (Save(todo) \ copied) :
           SaveEffect(copied, cut)
<1> DEFINE r == savenames[todo].row
<1>1. PICK copied \in SUBSET Save(todo) :
        \E cut \in SUBSET (Save(todo) \ copied) :
          /\ folder' = [f \in copied \cup cut \cup DOMAIN folder |->
                          CASE f \in copied -> Whole(r)
                            [] f \in cut -> Part(r)
                            [] OTHER -> folder[f]]
          /\ failed' = failed \cup
               IF copied = Save(todo) /\ r \notin gone THEN {} ELSE {r}
  BY DEF SaveNext
<1>2. PICK cut \in SUBSET (Save(todo) \ copied) :
          /\ folder' = [f \in copied \cup cut \cup DOMAIN folder |->
                          CASE f \in copied -> Whole(r)
                            [] f \in cut -> Part(r)
                            [] OTHER -> folder[f]]
          /\ failed' = failed \cup
               IF copied = Save(todo) /\ r \notin gone THEN {} ELSE {r}
  BY <1>1
<1>3. /\ DOMAIN folder' = copied \cup cut \cup DOMAIN folder
      /\ \A f \in DOMAIN folder' :
           folder'[f] = CASE f \in copied -> Whole(r)
                          [] f \in cut -> Part(r)
                          [] OTHER -> folder[f]
  BY <1>2
<1>4. \A f \in cut : f \notin copied
  OBVIOUS
<1>5. failed' = failed \/ failed' = failed \cup {r}
  BY <1>2
<1>6. ASSUME r \notin failed'
      PROVE  copied = {Target(todo, x) : x \in FilesOf(r)}
  <2>1. copied = Save(todo) /\ r \notin gone
    BY <1>2, <1>6
  <2> QED
    BY <2>1 DEF Save, Spooled
<1> QED
  BY <1>3, <1>4, <1>5, <1>6 DEF SaveEffect

(* The names are given.                                                    *)
LEMMA NameAllKeeps ==
  ASSUME SaveInv, NameAll
  PROVE  SaveInv' /\ (Plain => WholeInv')
<1>1. PICK rows \in InOrder(done) :
        savenames' =
          LET names == Renamed([k \in DOMAIN rows |-> job[rows[k]].name])
          IN  [k \in DOMAIN rows |-> [row |-> rows[k], name |-> names[k]]]
  BY DEF NameAll
<1> DEFINE m == Len(rows)
           given == [k \in 1 .. m |-> job[rows[k]].name]
           names == Renamed(given)
<1>2. /\ rows \in Seq(done) /\ DOMAIN rows = 1 .. m /\ m \in Nat
      /\ \A r \in done : \E k \in 1 .. m : rows[k] = r
  BY InOrderProperties DEF SaveInv
<1>3. job \in [Row -> [name : Names, dat : BOOLEAN]] /\ done \subseteq Row
  BY DEF SaveInv
<1>4. \A k \in 1 .. m : rows[k] \in done
  BY <1>2
<1>5. \A k \in 1 .. m : job[rows[k]].name \in Names
  BY <1>3, <1>4
<1>6. given \in [1 .. m -> Name]
  BY <1>5, NamesAssumption
<1>7. names \in [1 .. m -> Name]
  BY <1>2, <1>6, RenamedProperties
<1>8. savenames' = [k \in 1 .. m |-> [row |-> rows[k], name |-> names[k]]]
  BY <1>1, <1>2
<1> HIDE DEF names, m
<1>9. savenames' \in Seq([row : done, name : Name]) /\ DOMAIN savenames' = 1 .. m
  BY <1>2, <1>4, <1>7, <1>8
<1>10. \A k \in 1 .. m : savenames'[k].row = rows[k] /\ savenames'[k].name = names[k]
  BY <1>8
<1>11. pc' = "named" /\ UNCHANGED <<job, done, folder, failed>> /\ pc = "chosen"
  BY DEF NameAll
<1>12. SaveInv'
  <2>1. \A r \in done : \E k \in DOMAIN savenames' : savenames'[k].row = r
    BY <1>2, <1>9, <1>10
  <2>2. failed \subseteq done /\ \A f \in DOMAIN folder : folder[f] = Old
    BY <1>11 DEF SaveInv
  <2> QED
    BY <1>3, <1>9, <1>11, <2>1, <2>2 DEF SaveInv
<1>13. ASSUME Plain PROVE Unique'
  <2>1. \A j \in 1 .. m : given[j].ext = "" /\ given[j].numbers = <<>>
    BY <1>5, <1>13 DEF Plain
  <2>2. \A j, l \in 1 .. m : j # l => Base(names[j]) # Base(names[l])
    BY <1>2, <1>6, <2>1, RenamedProperties DEF names
  <2> QED
    BY <1>9, <1>10, <2>2 DEF Unique
<1> QED
  BY <1>11, <1>12, <1>13 DEF WholeInv

(* A job is saved: over none of the files of the others.                   *)
LEMMA SaveNextKeeps ==
  ASSUME SaveInv, SaveNext
  PROVE  SaveInv' /\ (WholeInv => WholeInv')
<1>1. /\ pc = "saving" /\ todo <= Len(savenames) /\ todo \in Nat \ {0}
      /\ savenames \in Seq([row : done, name : Name]) /\ done \subseteq Row
      /\ Len(savenames) \in Nat /\ DOMAIN savenames = 1 .. Len(savenames)
      /\ todo' = todo + 1
      /\ UNCHANGED <<pc, job, done, gone, savenames, overwrites>>
  BY DEF SaveInv, SaveNext
<1>2. todo \in DOMAIN savenames
  BY <1>1
<1> DEFINE r0 == savenames[todo].row
<1>3. Whole(r0) # Old /\ Part(r0) # Old /\ r0 \in done
  <2>1. savenames[todo] \in [row : done, name : Name]
    BY <1>1, <1>2, ElementOfSeq
  <2>2. r0 \in done /\ r0 \in 1 .. MaxRows
    BY <1>1, <2>1 DEF Row
  <2>3. r0 # 0
    BY <2>2, BoundsAssumption
  <2> QED
    BY <2>2, <2>3 DEF Old, Whole, Part
<1>e. PICK copied \in SUBSET Save(todo) :
        \E cut \in SUBSET (Save(todo) \ copied) : SaveEffect(copied, cut)
  BY SaveNextEffect
<1>f. PICK cut \in SUBSET (Save(todo) \ copied) : SaveEffect(copied, cut)
  BY <1>e
<1>4. /\ DOMAIN folder' = copied \cup cut \cup DOMAIN folder
      /\ \A f \in copied : folder'[f] = Whole(r0)
      /\ \A f \in cut : folder'[f] = Part(r0)
      /\ \A f \in DOMAIN folder \ (copied \cup cut) : folder'[f] = folder[f]
      /\ failed' = failed \/ failed' = failed \cup {r0}
      /\ r0 \notin failed' => copied = {Target(todo, x) : x \in FilesOf(r0)}
  BY <1>f DEF SaveEffect
<1>5. /\ \A r : Spooled(r)' = Spooled(r) /\ FilesOf(r)' = FilesOf(r)
      /\ \A k, x : Target(k, x)' = Target(k, x)
  BY <1>1 DEF Spooled, FilesOf, Target
<1>c. failed \subseteq failed' /\ failed' \subseteq done
  BY <1>3, <1>4 DEF SaveInv
<1>6. Asked /\ pc' = "saving"
  BY <1>1 DEF SaveInv
<1>7. Asked'
  <2> SUFFICES ASSUME NEW k \in DOMAIN savenames,
                      NEW x \in Spooled(savenames[k].row) \ {"inp"},
                      Target(k, x) \in DOMAIN folder', folder'[Target(k, x)] = Old
               PROVE  Target(k, x) \in overwrites
    BY <1>1, <1>5 DEF Asked
  <2>1. Target(k, x) \notin copied \cup cut
    BY <1>3, <1>4
  <2> QED
    BY <1>4, <1>6, <2>1 DEF Asked
<1>8. todo + 1 \in Nat \ {0}
  BY <1>1
<1>9. SaveInv'
  BY <1>1, <1>6, <1>7, <1>8, <1>c DEF SaveInv
(* The name of another row is not touched.                                 *)
<1>u. ASSUME WholeInv, NEW k \in DOMAIN savenames, k # todo, NEW x
      PROVE  Target(k, x) \notin copied \cup cut
  <2>1. \A y : Target(k, x) # Target(todo, y)
    BY <1>2, <1>u DEF WholeInv, Unique, Target
  <2> QED
    BY <2>1 DEF Save
<1>10. ASSUME WholeInv PROVE Saved'
  <2>0. Saved
    BY <1>1, <1>10 DEF WholeInv
  <2> SUFFICES ASSUME NEW k \in DOMAIN savenames, k < todo + 1,
                      savenames[k].row \notin failed',
                      NEW x \in FilesOf(savenames[k].row)
               PROVE  /\ Target(k, x) \in DOMAIN folder'
                      /\ folder'[Target(k, x)] = Whole(savenames[k].row)
    BY <1>1, <1>5 DEF Saved, Whole
  <2>1. CASE k = todo
    BY <1>4, <2>1
  <2>2. CASE k # todo
    <3>1. k < todo /\ savenames[k].row \notin failed
      BY <1>1, <1>c, <2>2
    <3>2. Target(k, x) \in DOMAIN folder
          /\ folder[Target(k, x)] = Whole(savenames[k].row)
      BY <2>0, <3>1 DEF Saved
    <3> QED
      BY <1>4, <1>u, <1>10, <2>2, <3>2
  <2> QED
    BY <2>1, <2>2
<1>12. ASSUME WholeInv PROVE OwnOrOld'
  <2>0. OwnOrOld
    BY <1>1, <1>12 DEF WholeInv
  <2> SUFFICES ASSUME NEW k \in DOMAIN savenames, NEW x \in Exts,
                      Target(k, x) \in DOMAIN folder'
               PROVE  \/ folder'[Target(k, x)] = Whole(savenames[k].row)
                      \/ folder'[Target(k, x)] = Part(savenames[k].row)
                      \/ folder'[Target(k, x)] = Old
    BY <1>1, <1>5 DEF OwnOrOld, Whole, Part
  <2>1. CASE Target(k, x) \in copied \cup cut
    <3>1. k = todo
      BY <1>u, <1>12, <2>1
    <3> QED
      BY <1>4, <2>1, <3>1
  <2>2. CASE Target(k, x) \notin copied \cup cut
    BY <1>4, <2>0, <2>2 DEF OwnOrOld
  <2> QED
    BY <2>1, <2>2
<1>11. Unique => Unique'
  BY <1>1 DEF Unique
<1> QED
  BY <1>9, <1>10, <1>11, <1>12 DEF WholeInv

(* Every step.                                                             *)
LEMMA SaveStep ==
  ASSUME SaveInv, Opened \/ [Next]_vars
  PROVE  SaveInv' /\ (Plain /\ WholeInv => WholeInv')
<1>1. CASE NameAll
  BY <1>1, NameAllKeeps
<1>2. CASE Ask
  <2>1. /\ overwrites' = FindOverwrites \cap DOMAIN folder /\ todo' = 1
        /\ pc = "named" /\ pc' \in {"saving", "asked"}
        /\ UNCHANGED <<job, done, gone, savenames, folder, failed>>
        /\ \A f \in DOMAIN folder : folder[f] = Old
    BY <1>2 DEF Ask, SaveInv
  <2>2. /\ \A r : Spooled(r)' = Spooled(r)
        /\ \A k, x : Target(k, x)' = Target(k, x)
    BY <2>1 DEF Spooled, FilesOf, Target
  <2>3. Asked'
    BY <2>1, <2>2 DEF Asked, FindOverwrites
  <2>4. Saved'
    <3>1. \A k \in DOMAIN savenames : ~(k < 1)
      <4>1. DOMAIN savenames \subseteq Nat \ {0}
        BY DEF SaveInv
      <4> QED
        BY <4>1
    <3> QED
      BY <2>1, <3>1 DEF Saved
  <2>5. OwnOrOld'
    BY <2>1, <2>2 DEF OwnOrOld
  <2> QED
    BY <2>1, <2>3, <2>4, <2>5 DEF SaveInv, WholeInv, Unique
<1>3. CASE SaveNext
  BY <1>3, SaveNextKeeps
<1>4. CASE Removed
  <2>1. /\ gone \subseteq gone'
        /\ UNCHANGED <<pc, job, done, savenames, overwrites, folder, todo, failed>>
    BY <1>4 DEF Removed
  <2>2. /\ \A r : Spooled(r)' \subseteq Spooled(r) /\ FilesOf(r)' = FilesOf(r)
        /\ \A k, x : Target(k, x)' = Target(k, x)
        /\ \A r : Whole(r)' = Whole(r) /\ Part(r)' = Part(r)
    BY <2>1 DEF Spooled, FilesOf, Target, Whole, Part
  <2>3. /\ Asked => Asked'
        /\ Saved => Saved'
        /\ OwnOrOld => OwnOrOld'
        /\ Unique => Unique'
    BY <2>1, <2>2 DEF Asked, Saved, OwnOrOld, Unique
  <2> QED
    BY <2>1, <2>3 DEF SaveInv, WholeInv
<1>5. CASE \/ Confirm \/ End \/ Opened \/ UNCHANGED vars
  <2>1. /\ UNCHANGED <<job, done, gone, savenames, overwrites, folder, todo, failed>>
        /\ \/ pc' = pc
           \/ pc = "asked" /\ pc' \in {"saving", "end"}
           \/ pc = "saving" /\ pc' = "end"
           \/ pc = "chosen" /\ pc' = "viewing"
    BY <1>5 DEF Confirm, End, Opened, vars
  <2>2. /\ \A r : Spooled(r)' = Spooled(r) /\ FilesOf(r)' = FilesOf(r)
        /\ \A k, x : Target(k, x)' = Target(k, x)
        /\ \A r : Whole(r)' = Whole(r) /\ Part(r)' = Part(r)
    BY <2>1 DEF Spooled, FilesOf, Target, Whole, Part
  <2>3. /\ Asked <=> Asked'
        /\ Saved <=> Saved'
        /\ OwnOrOld <=> OwnOrOld'
        /\ Unique <=> Unique'
    BY <2>1, <2>2 DEF Asked, Saved, OwnOrOld, Unique
  <2>6. pc = "asked" => OwnOrOld
    BY DEF SaveInv, OwnOrOld
  <2>4. pc = "asked" => Saved
    <3>1. \A k \in DOMAIN savenames : ~(k < 1)
      <4>1. DOMAIN savenames \subseteq Nat \ {0}
        BY DEF SaveInv
      <4> QED
        BY <4>1
    <3> QED
      BY <3>1 DEF Saved, SaveInv
  <2>5. SaveInv'
    BY <2>1, <2>3 DEF SaveInv
  <2> QED
    BY <2>1, <2>3, <2>4, <2>5, <2>6 DEF WholeInv
<1> QED
  BY <1>1, <1>2, <1>3, <1>4, <1>5 DEF Next

(* What TypeOK says and SaveInv does not.                                  *)
SaveTyped ==
  /\ pc \in {"chosen", "viewing", "named", "asked", "saving", "end"}
  /\ gone \subseteq Row
  /\ \A f \in DOMAIN folder : folder[f] \in (Row \X BOOLEAN) \cup {Old}
  /\ pc \in {"chosen", "viewing", "named"} => todo = 0
  /\ todo \in 0 .. Len(savenames) + 1

(* SaveNext copies the files of a row that was selected, and counts up to  *)
(* one past the last; nothing counts before the names are given.           *)
LEMMA SaveTypedStep ==
  ASSUME SaveInv, SaveTyped, Opened \/ [Next]_vars
  PROVE  SaveTyped'
<1>1. /\ savenames \in Seq([row : done, name : Name]) /\ done \subseteq Row
      /\ Len(savenames) \in Nat /\ DOMAIN savenames = 1 .. Len(savenames)
  BY DEF SaveInv
<1>2. CASE NameAll
  <2>1. savenames' \in Seq([row : done, name : Name])'
    BY <1>2, NameAllKeeps DEF SaveInv
  <2>2. Len(savenames') \in Nat
    BY <2>1
  <2>3. /\ pc = "chosen" /\ pc' = "named"
        /\ UNCHANGED <<gone, folder, todo>>
    BY <1>2 DEF NameAll
  <2>4. todo = 0
    BY <2>3 DEF SaveTyped
  <2>5. 0 \in 0 .. Len(savenames') + 1
    BY <2>2
  <2> QED
    BY <2>3, <2>4, <2>5 DEF SaveTyped
<1>3. CASE SaveNext
  <2>1. /\ pc = "saving" /\ todo <= Len(savenames) /\ todo \in Nat \ {0}
        /\ todo' = todo + 1 /\ UNCHANGED <<pc, gone, savenames>>
    BY <1>3 DEF SaveInv, SaveNext
  <2>2. savenames[todo].row \in Row
    <3>1. todo \in DOMAIN savenames
      BY <1>1, <2>1
    <3>2. savenames[todo] \in [row : done, name : Name]
      BY <1>1, <3>1, ElementOfSeq
    <3> QED
      BY <1>1, <3>2
  <2>3. \A f \in DOMAIN folder' : folder'[f] \in (Row \X BOOLEAN) \cup {Old}
    <3>1. /\ Whole(savenames[todo].row) \in Row \X BOOLEAN
          /\ Part(savenames[todo].row) \in Row \X BOOLEAN
      BY <2>2 DEF Whole, Part
    <3> QED
      BY <1>3, <3>1, SaveNextEffect DEF SaveEffect, SaveTyped
  <2>4. todo + 1 \in 0 .. Len(savenames) + 1
    BY <1>1, <2>1
  <2> QED
    BY <2>1, <2>3, <2>4 DEF SaveTyped
<1>4. CASE Ask
  <2>1. 1 \in 0 .. Len(savenames) + 1
    BY <1>1
  <2> QED
    BY <1>4, <2>1 DEF Ask, SaveTyped
<1>5. CASE Removed
  BY <1>1, <1>5 DEF Removed, SaveTyped
<1>6. CASE Confirm \/ End \/ Opened \/ UNCHANGED vars
  BY <1>6 DEF Confirm, End, Opened, vars, SaveTyped
<1> QED
  BY <1>2, <1>3, <1>4, <1>5, <1>6 DEF Next

(* Type correctness of Save to folder: a file of the folder is an old one  *)
(* or that of a selected row.                                              *)
THEOREM SaveTypeOK == ViewSpec => []TypeOK
<1>1. ViewInit => SaveInv /\ SaveTyped
  <2> SUFFICES ASSUME Init PROVE SaveInv /\ SaveTyped
    BY DEF ViewInit
  <2>1. /\ pc = "chosen" /\ gone = {} /\ todo = 0 /\ savenames = <<>>
        /\ \A f \in DOMAIN folder : folder[f] = Old
    BY DEF Init
  <2>2. 0 \in 0 .. Len(<<>>) + 1
    OBVIOUS
  <2> QED
    BY SaveInvInit, <2>1, <2>2 DEF SaveTyped
<1>2. SaveInv /\ SaveTyped /\ [ViewNext]_viewVars => (SaveInv /\ SaveTyped)'
  BY ViewStepIsSaveStep, SaveStep, SaveTypedStep
<1>3. SaveInv /\ SaveTyped => TypeOK
  BY DEF SaveInv, SaveTyped, TypeOK
<1> QED
  BY <1>1, <1>2, <1>3, PTL DEF ViewSpec

(* Whatever the user was not asked about survives, but for input files:    *)
(* FindOverwrites looks at all the jobs before the first is saved, and     *)
(* what is in the spool directory only gets less                           *)
(* (gamessq_frame.cpp:1252-1275).                                          *)
THEOREM OverwritesAnnouncedHolds == ViewSpec => OverwritesAnnounced
<1>1. ViewInit => SaveInv
  BY SaveInvInit DEF ViewInit
<1>2. SaveInv /\ [ViewNext]_viewVars => SaveInv'
  BY ViewStepIsSaveStep, SaveStep
<1>3. ASSUME SaveInv, [ViewNext]_viewVars
      PROVE  [\A f \in DOMAIN folder :
                folder[f] = Old /\ folder'[f] # Old /\ f[2] # "inp" =>
                  f \in overwrites]_vars
  <2>1. CASE SaveNext
    <3> SUFFICES ASSUME NEW f \in DOMAIN folder, folder[f] = Old,
                        folder'[f] # Old, f[2] # "inp"
                 PROVE  f \in overwrites
      OBVIOUS
    <3>1. f \in Save(todo)
      BY <2>1, SaveNextEffect DEF SaveEffect
    <3>2. PICK x \in Spooled(savenames[todo].row) : f = Target(todo, x)
      BY <3>1 DEF Save
    <3>3. x # "inp"
      BY <3>2 DEF Target
    <3>4. todo \in DOMAIN savenames
      <4>1. /\ todo \in Nat \ {0} /\ todo <= Len(savenames) /\ Len(savenames) \in Nat
            /\ DOMAIN savenames = 1 .. Len(savenames)
        BY <1>3, <2>1 DEF SaveInv, SaveNext
      <4> QED
        BY <4>1
    <3>5. Asked
      BY <1>3, <2>1 DEF SaveInv, SaveNext
    <3> QED
      BY <3>2, <3>3, <3>4, <3>5 DEF Asked
  <2>2. CASE UNCHANGED folder
    BY <2>2
  <2> QED
    BY <1>3, <2>1, <2>2, ViewStepIsSaveStep
       DEF Opened, Next, NameAll, Ask, Confirm, End, Removed, vars
<1> QED
  BY <1>1, <1>2, <1>3, PTL DEF ViewSpec, OverwritesAnnounced

(* When the loop over the rows is through, every selected job that was     *)
(* done has a name of its own in the folder, if no name has a dot or ends  *)
(* in a number: all its files are there, whole, unless its own SAVE failed *)
(* or was never answered, and there is nothing there of the other jobs,    *)
(* whichever of the SAVEs failed (gamessq_frame.cpp:1217-1265,             *)
(* gamessqd.cpp:176-249).                                                  *)
THEOREM SavedWholeHolds ==
  ASSUME Plain
  PROVE  ViewSpec => []SavedWhole
<1>1. ViewInit => SaveInv /\ WholeInv
  BY SaveInvInit DEF ViewInit
<1>2. SaveInv /\ WholeInv /\ [ViewNext]_viewVars => (SaveInv /\ WholeInv)'
  BY Plain, ViewStepIsSaveStep, SaveStep
<1>3. SaveInv /\ WholeInv => SavedWhole
  <2> SUFFICES ASSUME SaveInv, WholeInv, pc = "end", todo > Len(savenames),
                      NEW r \in done
               PROVE  \E k \in DOMAIN savenames :
                        /\ savenames[k].row = r
                        /\ \A x \in IF r \in failed THEN {} ELSE FilesOf(r) :
                             /\ Target(k, x) \in DOMAIN folder
                             /\ folder[Target(k, x)] = Whole(r)
                        /\ \A x \in Exts : Target(k, x) \in DOMAIN folder =>
                             folder[Target(k, x)] \in {Whole(r), Part(r), Old}
    BY DEF SavedWhole
  <2>1. PICK k \in DOMAIN savenames : savenames[k].row = r
    BY DEF SaveInv
  <2>2. k < todo
    <3>1. /\ todo \in Nat /\ Len(savenames) \in Nat
          /\ DOMAIN savenames = 1 .. Len(savenames)
      BY DEF SaveInv
    <3> QED
      BY <3>1
  <2> QED
    BY <2>1, <2>2 DEF WholeInv, Saved, OwnOrOld
<1> QED
  BY <1>1, <1>2, <1>3, PTL DEF ViewSpec

=============================================================================
