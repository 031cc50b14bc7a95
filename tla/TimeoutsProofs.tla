---------------------------- MODULE TimeoutsProofs ----------------------------
(***************************************************************************)
(* Proofs about ServerTimeouts and ClientTimeouts for any number of        *)
(* frames, timeouts and output functions: the invariants the runs check    *)
(* are inductive together, and the server's list with its iterator         *)
(* implements the timeouts that Timeouts describes.                        *)
(***************************************************************************)
EXTENDS ServerTimeouts, ClientTimeouts, SequenceTheorems, FiniteSetTheorems, TLAPS

(***************************************************************************)
(* Lists of timeouts of any kind and length.                               *)
(***************************************************************************)

(* A list with one more record at a position, or without the one there. *)
Inserted(new, list, p, r) ==
  /\ Len(new) = Len(list) + 1
  /\ \A j \in 1 .. p - 1 : new[j] = list[j]
  /\ new[p] = r
  /\ \A j \in p + 1 .. Len(list) + 1 : new[j] = list[j - 1]

Removed(new, list, p) ==
  /\ Len(new) = Len(list) - 1
  /\ \A j \in 1 .. p - 1 : new[j] = list[j]
  /\ \A j \in p .. Len(list) - 1 : new[j] = list[j + 1]

(* list::insert: what is behind the position moves one on. *)
LEMMA InsertAtElements ==
  ASSUME NEW S, NEW list \in Seq(S), NEW r \in S, NEW p \in 1 .. Len(list) + 1
  PROVE  InsertAt(list, p, r) \in Seq(S) /\ Inserted(InsertAt(list, p, r), list, p, r)
<1> DEFINE front == SubSeq(list, 1, p - 1)
           back  == SubSeq(list, p, Len(list))
<1>1. Len(list) \in Nat /\ \A j \in 1 .. Len(list) : list[j] \in S
  BY LenProperties, ElementOfSeq
<1>2. /\ front \in Seq(S) /\ Len(front) = p - 1
      /\ \A j \in 1 .. p - 1 : front[j] = list[j]
  <2>1. \A j \in 1 .. p - 1 : list[j] \in S
    BY <1>1
  <2> QED BY <1>1, <2>1, SubSeqProperties
<1>3. /\ back \in Seq(S) /\ Len(back) = Len(list) - p + 1
      /\ \A j \in 1 .. Len(list) - p + 1 : back[j] = list[p + j - 1]
  <2>1. \A j \in p .. Len(list) : list[j] \in S
    BY <1>1
  <2> QED BY <1>1, <2>1, SubSeqProperties
<1>4. <<r>> \in Seq(S) /\ Len(<<r>>) = 1 /\ <<r>>[1] = r
  OBVIOUS
<1> DEFINE head == front \o <<r>>
<1> HIDE DEF front, back
<1>5. /\ head \in Seq(S) /\ Len(head) = p
      /\ \A j \in 1 .. p : head[j] = IF j < p THEN list[j] ELSE r
  BY <1>1, <1>2, <1>4, ConcatProperties
<1> HIDE DEF head
<1>6. /\ head \o back \in Seq(S)
      /\ Len(head \o back) = Len(list) + 1
      /\ \A j \in 1 .. Len(list) + 1 :
           (head \o back)[j] = IF j <= p THEN head[j] ELSE back[j - p]
  <2>1. /\ head \o back \in Seq(S)
        /\ Len(head \o back) = Len(head) + Len(back)
        /\ \A j \in 1 .. Len(head) + Len(back) :
             (head \o back)[j] = IF j <= Len(head) THEN head[j] ELSE back[j - Len(head)]
    BY <1>3, <1>5, ConcatProperties, Zenon
  <2>2. Len(head) = p /\ Len(head) + Len(back) = Len(list) + 1
    BY <1>1, <1>3, <1>5
  <2> QED BY <2>1, <2>2
<1>7. InsertAt(list, p, r) = head \o back
  BY DEF InsertAt, head, front, back
<1> DEFINE new == head \o back
<1> HIDE DEF new
<1>8. Len(new) = Len(list) + 1 /\ new[p] = r
  BY <1>1, <1>5, <1>6 DEF new
<1>9. ASSUME NEW j \in 1 .. p - 1 PROVE new[j] = list[j]
  BY <1>1, <1>5, <1>6 DEF new
<1>10. ASSUME NEW j \in p + 1 .. Len(list) + 1 PROVE new[j] = list[j - 1]
  <2>1. new[j] = back[j - p] /\ j - p \in 1 .. Len(list) - p + 1 /\ p + (j - p) - 1 = j - 1
    BY <1>1, <1>6 DEF new
  <2> QED BY <1>3, <2>1
<1>11. Inserted(new, list, p, r)
  BY <1>8, <1>9, <1>10 DEF Inserted
<1> QED BY <1>6, <1>7, <1>11 DEF new

(* list::erase: what is behind the position moves one back. *)
LEMMA RemoveAtElements ==
  ASSUME NEW S, NEW list \in Seq(S), NEW p \in 1 .. Len(list)
  PROVE  RemoveAt(list, p) \in Seq(S) /\ Removed(RemoveAt(list, p), list, p)
<1> DEFINE front == SubSeq(list, 1, p - 1)
           back  == SubSeq(list, p + 1, Len(list))
<1>1. Len(list) \in Nat /\ \A j \in 1 .. Len(list) : list[j] \in S
  BY LenProperties, ElementOfSeq
<1>2. /\ front \in Seq(S) /\ Len(front) = p - 1
      /\ \A j \in 1 .. p - 1 : front[j] = list[j]
  <2>1. \A j \in 1 .. p - 1 : list[j] \in S
    BY <1>1
  <2> QED BY <1>1, <2>1, SubSeqProperties
<1>3. /\ back \in Seq(S) /\ Len(back) = Len(list) - p
      /\ \A j \in 1 .. Len(list) - p : back[j] = list[p + j]
  <2>1. \A j \in p + 1 .. Len(list) : list[j] \in S
    BY <1>1
  <2> QED BY <1>1, <2>1, SubSeqProperties
<1> HIDE DEF front, back
<1>4. /\ front \o back \in Seq(S)
      /\ Len(front \o back) = Len(list) - 1
      /\ \A j \in 1 .. Len(list) - 1 :
           (front \o back)[j] = IF j <= p - 1 THEN front[j] ELSE back[j - (p - 1)]
  <2>1. /\ front \o back \in Seq(S)
        /\ Len(front \o back) = Len(front) + Len(back)
        /\ \A j \in 1 .. Len(front) + Len(back) :
             (front \o back)[j] = IF j <= Len(front) THEN front[j] ELSE back[j - Len(front)]
    BY <1>2, <1>3, ConcatProperties, Zenon
  <2>2. Len(front) = p - 1 /\ Len(front) + Len(back) = Len(list) - 1
    BY <1>1, <1>2, <1>3
  <2> QED BY <2>1, <2>2
<1>5. RemoveAt(list, p) = front \o back
  BY DEF RemoveAt, front, back
<1>6. \A j \in 1 .. p - 1 : (front \o back)[j] = list[j]
  BY <1>1, <1>2, <1>4
<1>7. ASSUME NEW j \in p .. Len(list) - 1 PROVE (front \o back)[j] = list[j + 1]
  <2>1. (front \o back)[j] = back[j - (p - 1)]
    BY <1>1, <1>4
  <2>2. j - (p - 1) \in 1 .. Len(list) - p /\ p + (j - (p - 1)) = j + 1
    BY <1>1
  <2> QED BY <1>3, <2>1, <2>2
<1>8. Removed(front \o back, list, p)
  BY <1>4, <1>6, <1>7 DEF Removed
<1> QED BY <1>4, <1>5, <1>8

(* The elements of a sequence by their positions. *)
LEMMA ToSetByPosition ==
  ASSUME NEW S, NEW list \in Seq(S)
  PROVE  ToSet(list) = {list[j] : j \in 1 .. Len(list)} /\ ToSet(list) \subseteq S
<1>1. DOMAIN list = 1 .. Len(list) /\ \A j \in 1 .. Len(list) : list[j] \in S
  BY LenProperties, ElementOfSeq
<1> QED BY <1>1 DEF ToSet

-----------------------------------------------------------------------------
(* Lists of records. *)

Numbered(R) == \A r \in R : r.Id \in Int /\ r.Frame \in Int

(***************************************************************************)
(* A record with a new Id, inserted where the loop stops, leaves the list  *)
(* in order, with its elements, the new one and no Id twice.               *)
(***************************************************************************)
LEMMA InsertRecord ==
  ASSUME NEW R, Numbered(R), NEW list \in Seq(R), NEW r \in R,
         NEW p \in 1 .. Len(list) + 1,
         StopsAt(list, p, r.Frame), InOrder(list), NoIdTwice(list),
         \A id \in Ids(list) : id < r.Id
  PROVE  /\ InOrder(InsertAt(list, p, r))
         /\ NoIdTwice(InsertAt(list, p, r))
         /\ ToSet(InsertAt(list, p, r)) = ToSet(list) \cup {r}
         /\ Ids(InsertAt(list, p, r)) = Ids(list) \cup {r.Id}
<1> DEFINE new == InsertAt(list, p, r)
<1>1. Len(list) \in Nat /\ \A j \in 1 .. Len(list) : list[j] \in R
  BY LenProperties, ElementOfSeq
<1>2. /\ new \in Seq(R) /\ Len(new) = Len(list) + 1
      /\ \A j \in 1 .. p - 1 : new[j] = list[j]
      /\ new[p] = r
      /\ \A j \in p + 1 .. Len(list) + 1 : new[j] = list[j - 1]
  <2>1. new \in Seq(R) /\ Inserted(new, list, p, r)
    BY InsertAtElements
  <2> HIDE DEF new
  <2> QED BY <2>1 DEF Inserted
<1> HIDE DEF new
<1>3. \A j \in 1 .. Len(list) :
        list[j].Id \in Int /\ list[j].Frame \in Int /\ list[j].Id < r.Id
  BY <1>1, ToSetByPosition DEF Numbered, Ids
<1>4. r.Id \in Int /\ r.Frame \in Int
  BY DEF Numbered
<1>5. \A j \in p .. Len(list) : list[j].Frame > r.Frame
  <2> SUFFICES ASSUME NEW j \in p .. Len(list) PROVE list[j].Frame > r.Frame
    OBVIOUS
  <2>1. p \in 1 .. Len(list) /\ list[p].Frame > r.Frame
    BY <1>1 DEF StopsAt
  <2>2. j = p \/ list[p].Frame <= list[j].Frame
    BY <1>1, <1>3, <2>1 DEF InOrder
  <2> QED BY <1>1, <1>3, <1>4, <2>1, <2>2
<1>6. InOrder(new)
  <2> SUFFICES ASSUME NEW i \in 1 .. Len(new), NEW j \in 1 .. Len(new), i < j
               PROVE  \/ new[i].Frame < new[j].Frame
                      \/ new[i].Frame = new[j].Frame /\ new[i].Id < new[j].Id
    BY DEF InOrder
  <2>1. CASE j < p
    <3>1. /\ new[i] = list[i] /\ new[j] = list[j]
          /\ i \in 1 .. Len(list) /\ j \in 1 .. Len(list)
      BY <1>1, <1>2, <2>1
    <3> QED BY <3>1 DEF InOrder
  <2>2. CASE j = p
    <3>1. new[i] = list[i] /\ new[j] = r /\ i \in 1 .. Len(list) /\ i < p
      BY <1>1, <1>2, <2>2
    <3> QED BY <1>3, <1>4, <3>1 DEF StopsAt
  <2>3. CASE i = p
    <3>1. new[i] = r /\ new[j] = list[j - 1] /\ j - 1 \in p .. Len(list)
      BY <1>1, <1>2, <2>3
    <3> QED BY <1>5, <3>1
  <2>4. CASE i < p /\ j > p
    <3>1. /\ i \in 1 .. p - 1 /\ j \in p + 1 .. Len(list) + 1 /\ i < j - 1
          /\ i \in 1 .. Len(list) /\ j - 1 \in 1 .. Len(list)
      BY <1>1, <1>2, <2>4
    <3>2. new[i] = list[i] /\ new[j] = list[j - 1]
      BY <1>2, <3>1
    <3>3. \/ list[i].Frame < list[j - 1].Frame
          \/ list[i].Frame = list[j - 1].Frame /\ list[i].Id < list[j - 1].Id
      BY <3>1 DEF InOrder
    <3> QED BY <3>2, <3>3
  <2>5. CASE i > p
    <3>1. /\ i \in p + 1 .. Len(list) + 1 /\ j \in p + 1 .. Len(list) + 1 /\ i - 1 < j - 1
          /\ i - 1 \in 1 .. Len(list) /\ j - 1 \in 1 .. Len(list)
      BY <1>1, <1>2, <2>5
    <3>2. new[i] = list[i - 1] /\ new[j] = list[j - 1]
      BY <1>2, <3>1
    <3>3. \/ list[i - 1].Frame < list[j - 1].Frame
          \/ list[i - 1].Frame = list[j - 1].Frame /\ list[i - 1].Id < list[j - 1].Id
      BY <3>1 DEF InOrder
    <3> QED BY <3>2, <3>3
  <2> QED BY <1>1, <1>2, <2>1, <2>2, <2>3, <2>4, <2>5
<1>7. NoIdTwice(new)
  <2> SUFFICES ASSUME NEW i \in 1 .. Len(new), NEW j \in 1 .. Len(new),
                      new[i].Id = new[j].Id, i < j
               PROVE  FALSE
    BY <1>1, <1>2 DEF NoIdTwice
  <2>1. CASE i = p
    <3>1. j \in p + 1 .. Len(list) + 1
      BY <1>1, <1>2, <2>1
    <3>2. new[i] = r /\ new[j] = list[j - 1] /\ j - 1 \in 1 .. Len(list)
      BY <1>1, <1>2, <2>1, <3>1
    <3> QED BY <1>3, <1>4, <3>2
  <2>2. CASE j = p
    BY <1>1, <1>2, <1>3, <1>4, <2>2
  <2>3. CASE i # p /\ j # p
    <3> DEFINE at(k) == IF k < p THEN k ELSE k - 1
    <3>1. /\ new[i] = list[at(i)] /\ new[j] = list[at(j)]
          /\ at(i) \in 1 .. Len(list) /\ at(j) \in 1 .. Len(list) /\ at(i) # at(j)
      BY <1>1, <1>2, <2>3
    <3> HIDE DEF at
    <3>2. list[at(i)].Id # list[at(j)].Id
      BY <3>1 DEF NoIdTwice
    <3> QED BY <3>1, <3>2
  <2> QED BY <2>1, <2>2, <2>3
<1>8. ToSet(new) = ToSet(list) \cup {r}
  <2>1. ToSet(new) = {new[j] : j \in 1 .. Len(new)}
    BY <1>2, ToSetByPosition
  <2>2. ToSet(list) = {list[j] : j \in 1 .. Len(list)}
    BY ToSetByPosition
  <2>3. \A j \in 1 .. Len(new) : new[j] \in ToSet(list) \cup {r}
    <3> SUFFICES ASSUME NEW j \in 1 .. Len(new)
                 PROVE  new[j] \in ToSet(list) \cup {r}
      OBVIOUS
    <3> QED BY <1>1, <1>2, <2>2
  <2>4. \A j \in 1 .. Len(list) : list[j] \in ToSet(new)
    <3> SUFFICES ASSUME NEW j \in 1 .. Len(list) PROVE list[j] \in ToSet(new)
      OBVIOUS
    <3>1. CASE j < p
      <4>1. new[j] = list[j] /\ j \in 1 .. Len(new)
        BY <1>1, <1>2, <3>1
      <4> QED BY <2>1, <4>1
    <3>2. CASE j >= p
      <4> DEFINE k == j + 1
      <4>1. k \in p + 1 .. Len(list) + 1 /\ k - 1 = j
        BY <1>1, <3>2
      <4> HIDE DEF k
      <4>2. new[k] = list[k - 1]
        BY <1>2, <4>1
      <4>3. k \in 1 .. Len(new)
        BY <1>1, <1>2, <4>1
      <4> QED BY <2>1, <4>1, <4>2, <4>3
    <3> QED BY <1>1, <3>1, <3>2
  <2>5. r \in ToSet(new)
    <3>1. new[p] = r /\ p \in 1 .. Len(new)
      BY <1>1, <1>2
    <3> QED BY <2>1, <3>1
  <2> QED BY <2>1, <2>2, <2>3, <2>4, <2>5
<1>9. Ids(new) = Ids(list) \cup {r.Id}
  BY <1>8 DEF Ids
<1> QED BY <1>6, <1>7, <1>8, <1>9 DEF new
(***************************************************************************)
(* Erasing a record leaves the others, in order.                           *)
(***************************************************************************)
LEMMA EraseRecord ==
  ASSUME NEW R, NEW list \in Seq(R), NEW p \in 1 .. Len(list),
         InOrder(list), NoIdTwice(list)
  PROVE  /\ InOrder(RemoveAt(list, p))
         /\ NoIdTwice(RemoveAt(list, p))
         /\ ToSet(RemoveAt(list, p)) = ToSet(list) \ {list[p]}
         /\ Ids(RemoveAt(list, p)) = Ids(list) \ {list[p].Id}
<1> DEFINE new == RemoveAt(list, p)
<1>1. Len(list) \in Nat
  BY LenProperties
<1>2. /\ new \in Seq(R) /\ Len(new) = Len(list) - 1
      /\ \A j \in 1 .. p - 1 : new[j] = list[j]
      /\ \A j \in p .. Len(list) - 1 : new[j] = list[j + 1]
  <2>1. new \in Seq(R) /\ Removed(new, list, p)
    BY RemoveAtElements
  <2> HIDE DEF new
  <2> QED BY <2>1 DEF Removed
<1> HIDE DEF new
<1> DEFINE from(j) == IF j < p THEN j ELSE j + 1
<1>3. ASSUME NEW j \in 1 .. Len(new)
      PROVE  new[j] = list[from(j)] /\ from(j) \in 1 .. Len(list) /\ from(j) # p
  BY <1>1, <1>2
<1>4. ASSUME NEW i \in 1 .. Len(new), NEW j \in 1 .. Len(new), i < j
      PROVE  from(i) < from(j)
  BY <1>1, <1>2, <1>4
<1>5. ASSUME NEW j \in 1 .. Len(list), j # p
      PROVE  \E k \in 1 .. Len(new) : new[k] = list[j]
  <2>1. CASE j < p
    <3>1. j \in 1 .. Len(new) /\ new[j] = list[j]
      BY <1>1, <1>2, <2>1
    <3> QED BY <3>1
  <2>2. CASE j > p
    <3>1. PICK k \in p .. Len(list) - 1 : k + 1 = j
      BY <1>1, <2>2
    <3>2. k \in 1 .. Len(new)
      BY <1>1, <1>2
    <3>3. new[k] = list[k + 1]
      BY <1>2
    <3> QED BY <3>1, <3>2, <3>3
  <2> QED BY <1>1, <1>5, <2>1, <2>2
<1> HIDE DEF from
<1>6. InOrder(new)
  BY <1>3, <1>4 DEF InOrder
<1>7. NoIdTwice(new)
  <2> SUFFICES ASSUME NEW i \in 1 .. Len(new), NEW j \in 1 .. Len(new),
                      new[i].Id = new[j].Id, i < j
               PROVE  FALSE
    BY <1>1, <1>2 DEF NoIdTwice
  <2>1. from(i) \in Int /\ from(j) \in Int /\ from(i) < from(j)
    BY <1>1, <1>3, <1>4
  <2> QED BY <1>3, <2>1 DEF NoIdTwice
<1>8. /\ ToSet(new) = {new[j] : j \in 1 .. Len(new)}
      /\ ToSet(list) = {list[j] : j \in 1 .. Len(list)}
  BY <1>2, ToSetByPosition
<1>9. \A j \in 1 .. Len(list) : list[j].Id = list[p].Id => j = p
  BY DEF NoIdTwice
<1>10. ToSet(new) = ToSet(list) \ {list[p]}
  <2>1. ASSUME NEW j \in 1 .. Len(new) PROVE new[j] \in ToSet(list) \ {list[p]}
    BY <1>3, <1>8, <1>9
  <2>2. ASSUME NEW j \in 1 .. Len(list), list[j] # list[p] PROVE list[j] \in ToSet(new)
    BY <1>5, <1>8, <2>2
  <2> QED BY <1>8, <2>1, <2>2
<1>11. Ids(new) = Ids(list) \ {list[p].Id}
  <2>1. \A r \in ToSet(list) : r.Id = list[p].Id => r = list[p]
    BY <1>8, <1>9
  <2> QED BY <1>10, <2>1 DEF Ids
<1> QED BY <1>6, <1>7, <1>10, <1>11 DEF new

(***************************************************************************)
(* mapUnloadUtil leaves the records that persist, in order.                *)
(***************************************************************************)
LEMMA KeepRecords ==
  ASSUME NEW R, NEW list \in Seq(R), InOrder(list), NoIdTwice(list),
         NEW kept \in Positions(list), IsKept(kept, list),
         NEW new, new = [j \in DOMAIN kept |-> list[kept[j]]]
  PROVE  /\ new \in Seq(R)
         /\ InOrder(new)
         /\ NoIdTwice(new)
         /\ ToSet(new) = {r \in ToSet(list) : r.Persist}
<1> DEFINE n == Cardinality(Survivors(list))
<1>1. Len(list) \in Nat /\ \A j \in 1 .. Len(list) : list[j] \in R
  BY LenProperties, ElementOfSeq
<1>2. n \in Nat
  <2>1. IsFiniteSet(1 .. Len(list))
    BY <1>1, FS_Interval
  <2>2. IsFiniteSet(Survivors(list))
    BY <2>1, FS_Subset DEF Survivors
  <2> QED BY <2>2, FS_CardinalityType
<1> HIDE DEF n
<1>3. /\ kept \in [1 .. n -> Survivors(list)]
      /\ DOMAIN kept = 1 .. n
  BY DEF Positions, n
<1>4. \A j \in 1 .. n :
        kept[j] \in 1 .. Len(list) /\ list[kept[j]].Persist /\ new[j] = list[kept[j]]
  BY <1>3 DEF Survivors
<1>5. new \in [1 .. n -> R]
  BY <1>1, <1>3, <1>4
<1>6. new \in Seq(R)
  BY <1>2, <1>5, SeqDef
<1>7. Len(new) = n
  BY <1>2, <1>5, <1>6, LenProperties
<1>8. InOrder(new)
  <2> SUFFICES ASSUME NEW i \in 1 .. n, NEW j \in 1 .. n, i < j
               PROVE  \/ new[i].Frame < new[j].Frame
                      \/ new[i].Frame = new[j].Frame /\ new[i].Id < new[j].Id
    BY <1>7 DEF InOrder
  <2>1. kept[i] < kept[j]
    BY <1>3 DEF IsKept
  <2>2. new[i] = list[kept[i]] /\ new[j] = list[kept[j]]
    BY <1>4
  <2>3. kept[i] \in 1 .. Len(list) /\ kept[j] \in 1 .. Len(list)
    BY <1>4
  <2> QED BY <2>1, <2>2, <2>3 DEF InOrder
<1>9. NoIdTwice(new)
  <2> SUFFICES ASSUME NEW i \in 1 .. n, NEW j \in 1 .. n, new[i].Id = new[j].Id, i < j
               PROVE  FALSE
    BY <1>2, <1>7 DEF NoIdTwice
  <2>1. kept[i] < kept[j]
    BY <1>3 DEF IsKept
  <2>2. new[i] = list[kept[i]] /\ new[j] = list[kept[j]]
    BY <1>4
  <2>3. kept[i] \in 1 .. Len(list) /\ kept[j] \in 1 .. Len(list)
    BY <1>4
  <2>4. kept[i] = kept[j]
    BY <2>2, <2>3 DEF NoIdTwice
  <2> QED BY <2>1, <2>3, <2>4
<1>10. /\ ToSet(new) = {new[j] : j \in 1 .. n}
       /\ ToSet(list) = {list[j] : j \in 1 .. Len(list)}
  BY <1>6, <1>7, ToSetByPosition
<1>11. ASSUME NEW j \in 1 .. Len(list), list[j].Persist PROVE list[j] \in ToSet(new)
  <2>1. PICK i \in 1 .. n : kept[i] = j
    BY <1>3, <1>11 DEF IsKept, Survivors
  <2> QED BY <1>4, <1>10, <2>1
<1>12. ToSet(new) = {r \in ToSet(list) : r.Persist}
  BY <1>4, <1>10, <1>11
<1> QED BY <1>6, <1>8, <1>9, <1>12

-----------------------------------------------------------------------------
(* What lies behind an iterator, whatever moves under it. *)

Beyond(list, i) == {list[j] : j \in i + 1 .. Len(list)}

(***************************************************************************)
(* A record inserted in its place: the iterator, which moves on if the     *)
(* place is not behind it, stays at its record, and the new one lies       *)
(* behind it exactly when its frame is not the earlier one.                *)
(***************************************************************************)
LEMMA InsertAround ==
  ASSUME NEW R, Numbered(R), NEW list \in Seq(R), NEW r \in R,
         NEW p \in 1 .. Len(list) + 1,
         StopsAt(list, p, r.Frame), InOrder(list), NEW i \in 1 .. Len(list),
         NEW n, p <= i => n = i + 1, ~(p <= i) => n = i
  PROVE  /\ n \in 1 .. Len(InsertAt(list, p, r))
         /\ InsertAt(list, p, r)[n] = list[i]
         /\ Beyond(InsertAt(list, p, r), n) =
              IF list[i].Frame <= r.Frame THEN Beyond(list, i) \cup {r} ELSE Beyond(list, i)
<1> DEFINE new == InsertAt(list, p, r)
<1>1. Len(list) \in Nat /\ \A j \in 1 .. Len(list) : list[j].Frame \in Int
  BY LenProperties, ElementOfSeq DEF Numbered
<1>2. /\ Len(new) = Len(list) + 1
      /\ \A j \in 1 .. p - 1 : new[j] = list[j]
      /\ new[p] = r
      /\ \A j \in p + 1 .. Len(list) + 1 : new[j] = list[j - 1]
  <2>1. new \in Seq(R) /\ Inserted(new, list, p, r)
    BY InsertAtElements
  <2> HIDE DEF new
  <2> QED BY <2>1 DEF Inserted
<1>3. r.Frame \in Int
  BY DEF Numbered
<1> HIDE DEF new
<1>4. ASSUME NEW j \in p .. Len(list) PROVE new[j + 1] = list[j]
  <2>1. PICK k \in p + 1 .. Len(list) + 1 : k = j + 1 /\ k - 1 = j
    BY <1>1
  <2>2. new[k] = list[k - 1]
    BY <1>2
  <2> QED BY <2>1, <2>2
<1>5. CASE p <= i
  <2>1. n = i + 1 /\ n \in 1 .. Len(new) /\ new[n] = list[i]
    BY <1>1, <1>2, <1>4, <1>5
  <2>2. r.Frame < list[i].Frame
    <3>1. p \in 1 .. Len(list) /\ list[p].Frame > r.Frame
      BY <1>1, <1>5 DEF StopsAt
    <3>2. p = i \/ list[p].Frame <= list[i].Frame
      BY <1>1, <1>5, <3>1 DEF InOrder
    <3> QED BY <1>1, <1>3, <3>1, <3>2
  <2>3. ASSUME NEW j \in i + 1 .. Len(list) PROVE list[j] \in Beyond(new, n)
    <3>1. new[j + 1] = list[j] /\ j + 1 \in n + 1 .. Len(new)
      BY <1>1, <1>2, <1>4, <1>5, <2>1
    <3> QED BY <3>1 DEF Beyond
  <2>4. ASSUME NEW k \in n + 1 .. Len(new) PROVE new[k] \in Beyond(list, i)
    <3>1. PICK j \in i + 1 .. Len(list) : k = j + 1
      BY <1>1, <1>2, <2>1
    <3>2. new[j + 1] = list[j]
      BY <1>1, <1>4, <1>5
    <3> QED BY <3>1, <3>2 DEF Beyond
  <2>5. Beyond(new, n) = Beyond(list, i)
    BY <2>3, <2>4 DEF Beyond
  <2>6. ~(list[i].Frame <= r.Frame)
    BY <1>1, <1>3, <2>2
  <2> QED BY <2>1, <2>5, <2>6 DEF new
<1>6. CASE p > i
  <2>1. n = i /\ n \in 1 .. Len(new) /\ new[n] = list[i]
    BY <1>1, <1>2, <1>6
  <2>2. list[i].Frame <= r.Frame
    BY <1>1, <1>6 DEF StopsAt
  <2>3. ASSUME NEW j \in i + 1 .. Len(list) PROVE list[j] \in Beyond(new, n)
    <3>1. CASE j < p
      <4>1. new[j] = list[j] /\ j \in n + 1 .. Len(new)
        BY <1>1, <1>2, <2>1, <3>1
      <4> QED BY <4>1 DEF Beyond
    <3>2. CASE j >= p
      <4>1. new[j + 1] = list[j] /\ j + 1 \in n + 1 .. Len(new)
        BY <1>1, <1>2, <1>4, <2>1, <3>2
      <4> QED BY <4>1 DEF Beyond
    <3> QED BY <1>1, <3>1, <3>2
  <2>4. r \in Beyond(new, n)
    <3>1. p \in n + 1 .. Len(new)
      BY <1>1, <1>2, <1>6, <2>1
    <3> QED BY <1>2, <3>1 DEF Beyond
  <2>5. ASSUME NEW k \in n + 1 .. Len(new) PROVE new[k] \in Beyond(list, i) \cup {r}
    <3>1. CASE k < p
      <4>1. new[k] = list[k] /\ k \in i + 1 .. Len(list)
        BY <1>1, <1>2, <2>1, <3>1
      <4> QED BY <4>1 DEF Beyond
    <3>2. CASE k = p
      BY <1>2, <3>2
    <3>3. CASE k > p
      <4>1. PICK j \in i + 1 .. Len(list) : k = j + 1 /\ j >= p
        BY <1>1, <1>2, <1>6, <2>1, <3>3
      <4>2. new[j + 1] = list[j]
        BY <1>1, <1>4, <4>1
      <4> QED BY <4>1, <4>2 DEF Beyond
    <3> QED BY <1>1, <3>1, <3>2, <3>3
  <2>6. Beyond(new, n) = Beyond(list, i) \cup {r}
    BY <2>3, <2>4, <2>5 DEF Beyond
  <2> QED BY <2>1, <2>2, <2>6 DEF new
<1> QED BY <1>1, <1>5, <1>6

(* Erasing the record at an iterator brings what lay behind it to it. *)
LEMMA RemoveAround ==
  ASSUME NEW R, NEW list \in Seq(R), NEW p \in 1 .. Len(list)
  PROVE  Beyond(RemoveAt(list, p), p - 1) = Beyond(list, p)
<1> DEFINE new == RemoveAt(list, p)
<1>1. Len(list) \in Nat
  BY LenProperties
<1>2. /\ Len(new) = Len(list) - 1
      /\ \A j \in p .. Len(list) - 1 : new[j] = list[j + 1]
  <2>1. new \in Seq(R) /\ Removed(new, list, p)
    BY RemoveAtElements
  <2> HIDE DEF new
  <2> QED BY <2>1 DEF Removed
<1> HIDE DEF new
<1>3. ASSUME NEW j \in p + 1 .. Len(list) PROVE list[j] \in Beyond(new, p - 1)
  <2>1. PICK k \in p .. Len(list) - 1 : k + 1 = j
    BY <1>1
  <2>2. new[k] = list[k + 1] /\ k \in (p - 1) + 1 .. Len(new)
    BY <1>1, <1>2
  <2> QED BY <2>1, <2>2 DEF Beyond
<1>4. ASSUME NEW k \in (p - 1) + 1 .. Len(new) PROVE new[k] \in Beyond(list, p)
  <2>1. k \in p .. Len(list) - 1 /\ k + 1 \in p + 1 .. Len(list)
    BY <1>1, <1>2
  <2>2. new[k] = list[k + 1]
    BY <1>2, <2>1
  <2> QED BY <2>1, <2>2 DEF Beyond
<1>5. Beyond(new, p - 1) = Beyond(list, p)
  BY <1>3, <1>4 DEF Beyond
<1> QED BY <1>5 DEF new

(* The record at an iterator comes before all that lies behind it. *)
LEMMA FirstBeforeBeyond ==
  ASSUME NEW R, Numbered(R), NEW list \in Seq(R), InOrder(list), NoIdTwice(list),
         NEW i \in 1 .. Len(list)
  PROVE  /\ Beyond(list, i - 1) = Beyond(list, i) \cup {list[i]}
         /\ \A s \in Beyond(list, i) :
              /\ s \in R /\ s # list[i]
              /\ \/ list[i].Frame < s.Frame
                 \/ list[i].Frame = s.Frame /\ list[i].Id < s.Id
<1>1. Len(list) \in Nat /\ \A j \in 1 .. Len(list) : list[j] \in R
  BY LenProperties, ElementOfSeq
<1>2. Beyond(list, i - 1) = Beyond(list, i) \cup {list[i]}
  <2>1. \A j : j \in (i - 1) + 1 .. Len(list) <=> j = i \/ j \in i + 1 .. Len(list)
    BY <1>1
  <2> QED BY <2>1 DEF Beyond
<1>3. ASSUME NEW j \in i + 1 .. Len(list)
      PROVE  /\ list[j] \in R /\ list[j] # list[i]
             /\ \/ list[i].Frame < list[j].Frame
                \/ list[i].Frame = list[j].Frame /\ list[i].Id < list[j].Id
  <2>1. j \in 1 .. Len(list) /\ i < j /\ i # j
    BY <1>1
  <2> QED BY <1>1, <2>1 DEF InOrder, NoIdTwice
<1> QED BY <1>2, <1>3 DEF Beyond

-----------------------------------------------------------------------------
(* The records and the actions of ServerTimeouts. *)

(* Ids and frames are numbers, and NoTimeout is no record. *)
LEMMA RecordFacts ==
  /\ Numbered(TimeoutListRec)
  /\ NoTimeout \notin TimeoutListRec
<1>1. Numbered(TimeoutListRec)
  BY ListAssumption DEF ListAssumption, TimeoutListRec, Numbered
<1>2. NoTimeout \notin TimeoutListRec
  BY ListAssumption DEF ListAssumption, TimeoutListRec
<1> QED BY <1>1, <1>2

(* The record setTimeoutL makes, and where it goes. *)
LEMMA SetFacts ==
  ASSUME TimeoutsInv, NEW delay \in 0 .. FrameMod - 1, NEW persist \in BOOLEAN,
         setTimeout(delay, persist)
  PROVE  \E r \in TimeoutListRec, p \in 1 .. Len(timeoutList) + 1 :
           /\ r = [Id |-> timeoutNextId, Frame |-> (frameCounter + delay) % FrameMod,
                   Persist |-> persist]
           /\ StopsAt(timeoutList, p, r.Frame)
           /\ timeoutList' = InsertAt(timeoutList, p, r)
           /\ it' = IF pc = "call" /\ p <= it THEN it + 1 ELSE it
           /\ \A id \in Ids(timeoutList) : id < r.Id
<1> DEFINE f == (frameCounter + delay) % FrameMod
           r == [Id |-> timeoutNextId, Frame |-> f, Persist |-> persist]
<1>1. f \in 0 .. FrameMod - 1
  BY ListAssumption DEF ListAssumption, TimeoutsInv, TimeoutsTypeOK
<1>2. timeoutNextId \in 1 .. MaxId
  BY ListAssumption DEF ListAssumption, TimeoutsInv, TimeoutsTypeOK, setTimeout
<1> HIDE DEF f
<1>3. r \in TimeoutListRec /\ r.Frame = f /\ r.Id = timeoutNextId
  BY <1>1, <1>2 DEF TimeoutListRec
<1>4. \A id \in Ids(timeoutList) : id < r.Id
  BY <1>3 DEF TimeoutsInv, FunctionOfEachRecord
<1>5. \E p \in 1 .. Len(timeoutList) + 1 :
        /\ StopsAt(timeoutList, p, f)
        /\ timeoutList' = InsertAt(timeoutList, p, r)
        /\ it' = IF pc = "call" /\ p <= it THEN it + 1 ELSE it
  BY DEF setTimeout, f
<1> QED BY <1>3, <1>4, <1>5 DEF f

-----------------------------------------------------------------------------
(* Each action keeps the invariants. *)

(* A function may be set between passes or by the function being called. *)
LEMMA SetKeeps ==
  ASSUME TimeoutsInv, NEW delay \in 0 .. FrameMod - 1, NEW persist \in BOOLEAN,
         setTimeout(delay, persist)
  PROVE  TimeoutsInv'
<1>1. PICK r \in TimeoutListRec, p \in 1 .. Len(timeoutList) + 1 :
        /\ r = [Id |-> timeoutNextId, Frame |-> (frameCounter + delay) % FrameMod,
                Persist |-> persist]
        /\ StopsAt(timeoutList, p, r.Frame)
        /\ timeoutList' = InsertAt(timeoutList, p, r)
        /\ it' = IF pc = "call" /\ p <= it THEN it + 1 ELSE it
        /\ \A id \in Ids(timeoutList) : id < r.Id
  BY SetFacts
<1>2. timeoutList \in Seq(TimeoutListRec) /\ Len(timeoutList) \in Nat
  BY LenProperties DEF TimeoutsInv, TimeoutsTypeOK
<1>3. r.Id = timeoutNextId /\ timeoutNextId \in 1 .. MaxId
  BY <1>1, ListAssumption
     DEF ListAssumption, TimeoutsInv, TimeoutsTypeOK, setTimeout
<1>4. /\ timeoutList' \in Seq(TimeoutListRec)
      /\ Len(timeoutList') = Len(timeoutList) + 1
      /\ \A j \in 1 .. p - 1 : timeoutList'[j] = timeoutList[j]
      /\ timeoutList'[p] = r
      /\ \A j \in p + 1 .. Len(timeoutList) + 1 : timeoutList'[j] = timeoutList[j - 1]
  <2> DEFINE new == InsertAt(timeoutList, p, r)
  <2>1. /\ new \in Seq(TimeoutListRec)
        /\ Len(new) = Len(timeoutList) + 1
        /\ \A j \in 1 .. p - 1 : new[j] = timeoutList[j]
        /\ new[p] = r
        /\ \A j \in p + 1 .. Len(timeoutList) + 1 : new[j] = timeoutList[j - 1]
    <3>1. new \in Seq(TimeoutListRec) /\ Inserted(new, timeoutList, p, r)
      BY <1>1, <1>2, InsertAtElements
    <3> HIDE DEF new
    <3> QED BY <3>1 DEF Inserted
  <2>2. timeoutList' = new
    BY <1>1
  <2> HIDE DEF new
  <2> QED BY <2>1, <2>2
<1>5. /\ InOrder(timeoutList')
      /\ NoIdTwice(timeoutList')
      /\ Ids(timeoutList') = Ids(timeoutList) \cup {timeoutNextId}
  <2>1. InOrder(timeoutList) /\ NoIdTwice(timeoutList)
    BY DEF TimeoutsInv, ListInOrder
  <2> QED BY <1>1, <1>2, <1>3, <2>1, RecordFacts, InsertRecord
<1>6. it \in 1 .. Len(timeoutList) + 1 /\ it' \in 1 .. Len(timeoutList') + 1
  BY <1>1, <1>2, <1>4 DEF TimeoutsInv, TimeoutsTypeOK
<1>7. TimeoutsTypeOK'
  <2>1. timeoutNextId' \in 1 .. MaxId + 1 /\ functions' \in SUBSET (1 .. MaxId)
    BY <1>3, ListAssumption
       DEF ListAssumption, TimeoutsInv, TimeoutsTypeOK, setTimeout
  <2> QED
    BY <1>4, <1>6, <2>1
       DEF TimeoutsInv, TimeoutsTypeOK, setTimeout, timeVars, outVars
<1>8. ListInOrder'
  BY <1>5 DEF ListInOrder
<1>9. NoneMissed'
  <2>1. pc \in {"idle", "call"} /\ UNCHANGED <<pc, passFrom, frameCounter>>
        /\ timeoutNextId' = timeoutNextId + 1
    BY DEF setTimeout, timeVars
  <2>2. passFrom <= timeoutNextId /\ passFrom \in Int /\ timeoutNextId \in Int
    BY DEF TimeoutsInv, TimeoutsTypeOK, NoneMissed
  <2>3. CASE pc = "idle"
    <3>1. it = 1 /\ it' = 1
      BY <1>1, <2>3 DEF TimeoutsInv, NoneMissed
    <3> QED BY <2>1, <2>2, <2>3, <3>1 DEF NoneMissed
  <2>4. CASE pc = "call"
    <3>1. it \in 1 .. Len(timeoutList) /\ timeoutList[it].Frame <= frameCounter
      BY <1>2, <1>6, <2>4 DEF TimeoutsInv, NoneMissed
    <3>2. it' \in 1 .. Len(timeoutList') /\ timeoutList'[it'] = timeoutList[it]
      <4>1. CASE p <= it
        <5>1. it' = it + 1 /\ it' \in p + 1 .. Len(timeoutList) + 1 /\ it' - 1 = it
          BY <1>1, <1>2, <2>4, <3>1, <4>1
        <5>2. timeoutList'[it'] = timeoutList[it' - 1]
          BY <1>4, <5>1
        <5> QED BY <1>2, <1>4, <5>1, <5>2
      <4>2. CASE p > it
        <5>1. it' = it /\ it \in 1 .. p - 1
          BY <1>1, <2>4, <3>1, <4>2
        <5> QED BY <1>2, <1>4, <5>1, <3>1
      <4> QED BY <1>2, <3>1, <4>1, <4>2
    <3>3. ASSUME NEW j \in 1 .. it' - 1, timeoutList'[j].Frame <= frameCounter
          PROVE  timeoutList'[j].Id >= passFrom
      <4>1. CASE j = p
        BY <1>3, <1>4, <2>2, <4>1
      <4>2. CASE j < p
        <5>1. j \in 1 .. p - 1 /\ j \in 1 .. it - 1
          BY <1>1, <1>2, <3>1, <4>2, <2>4
        <5>2. timeoutList'[j] = timeoutList[j]
          BY <1>4, <5>1
        <5> QED BY <3>3, <5>1, <5>2 DEF TimeoutsInv, NoneMissed
      <4>3. CASE j > p
        <5>1. it' = it + 1
          BY <1>1, <1>2, <2>4, <3>1, <4>3
        <5>2. PICK k \in 1 .. it - 1 : k = j - 1
          BY <1>2, <3>1, <4>3, <5>1
        <5>3. j \in p + 1 .. Len(timeoutList) + 1
          BY <1>2, <3>1, <4>3, <5>1
        <5>4. timeoutList'[j] = timeoutList[k]
          BY <1>4, <5>2, <5>3
        <5> QED BY <3>3, <5>2, <5>4 DEF TimeoutsInv, NoneMissed
      <4> QED BY <1>2, <1>6, <4>1, <4>2, <4>3
    <3> QED BY <2>1, <2>2, <2>4, <3>1, <3>2, <3>3 DEF NoneMissed
  <2> QED BY <2>1, <2>3, <2>4
<1>10. FunctionOfEachRecord'
  <2>1. /\ functions' = functions \cup {timeoutNextId}
        /\ timeoutNextId' = timeoutNextId + 1
        /\ dropped' = dropped
    BY DEF setTimeout
  <2>2. timeoutNextId \notin dropped
    BY <1>3 DEF TimeoutsInv, FunctionOfEachRecord
  <2>3. functions \subseteq Int
    BY DEF TimeoutsInv, TimeoutsTypeOK
  <2> QED BY <1>3, <1>5, <2>1, <2>2, <2>3 DEF TimeoutsInv, FunctionOfEachRecord
<1>11. OutputRestored'
  BY DEF TimeoutsInv, OutputRestored, setTimeout, outVars
<1> QED BY <1>7, <1>8, <1>9, <1>10, <1>11 DEF TimeoutsInv

(* print goes elsewhere: only conOutput and what remembers it change. *)
LEMMA OutputKeeps ==
  ASSUME TimeoutsInv, NEW e \in SetIn, NEW o \in AnyOutput,
         SetOutput(e, o) \/ CallbackSetsOutput(e, o)
  PROVE  TimeoutsInv'
<1>1. UNCHANGED <<timeVars, listVars, passVars, env, saved>>
  BY DEF SetOutput, CallbackSetsOutput
<1>2. /\ e \in Envs
      /\ conOutput \in [Envs -> AnyOutput] /\ outputSet \in [Envs -> AnyOutput]
      /\ bared \in SUBSET Envs
      /\ pc = "call" => env \in Envs
  BY OutputsAssumption DEF OutputsAssumption, TimeoutsInv, TimeoutsTypeOK
<1>3. conOutput' = [conOutput EXCEPT ![e] = o]
  BY DEF SetOutput, CallbackSetsOutput
<1>4. ASSUME SetOutput(e, o)
      PROVE  outputSet' \in [Envs -> AnyOutput] /\ bared' \in SUBSET Envs /\ OutputRestored'
  <2>1. /\ pc = "idle" /\ pc' = "idle"
        /\ outputSet' = [outputSet EXCEPT ![e] = o]
        /\ bared' = bared \ {e}
    BY <1>1, <1>4 DEF SetOutput, passVars
  <2>2. OutputRestored'
    BY <1>2, <1>3, <2>1 DEF TimeoutsInv, OutputRestored
  <2> QED BY <1>2, <2>1, <2>2
<1>5. ASSUME CallbackSetsOutput(e, o)
      PROVE  outputSet' \in [Envs -> AnyOutput] /\ bared' \in SUBSET Envs /\ OutputRestored'
  <2>1. pc = "call" /\ pc' = "call" /\ env' = env /\ saved' = saved
    BY <1>1, <1>5 DEF CallbackSetsOutput, passVars
  <2>2. env \notin Above(env)
    BY DEF Above
  <2>3. CASE e = env
    <3>1. UNCHANGED <<outputSet, bared>>
      BY <1>5, <2>3 DEF CallbackSetsOutput
    <3>2. \A a \in Above(env) : a \in Envs /\ conOutput'[a] = conOutput[a]
      BY <1>2, <1>3, <2>2, <2>3 DEF Above, Envs
    <3>3. OutputRestored'
      BY <1>2, <1>3, <2>1, <2>3, <3>1, <3>2 DEF TimeoutsInv, OutputRestored
    <3> QED BY <1>2, <3>1, <3>3
  <2>4. CASE e # env
    <3>1. /\ outputSet' = [outputSet EXCEPT ![e] = o]
          /\ bared' = (bared \ {e}) \cup
                        IF o = NoOutput /\ e \in Above(env) THEN {env} ELSE {}
      BY <1>5, <2>4 DEF CallbackSetsOutput
    <3>2. Above(env) \subseteq Envs
      BY DEF Above, Envs
    <3>3. ASSUME NEW x \in Envs \ bared', x # env
          PROVE  conOutput'[x] = outputSet'[x]
      BY <1>2, <1>3, <2>1, <3>1, <3>3 DEF TimeoutsInv, OutputRestored
    <3>4. ASSUME env \notin bared'
          PROVE  \/ saved = outputSet'[env]
                 \/ outputSet'[env] = NoOutput /\ \E a \in Above(env) : conOutput'[a] # NoOutput
      <4>1. env \in Envs \ bared /\ ~(o = NoOutput /\ e \in Above(env))
        BY <1>2, <2>1, <2>4, <3>1, <3>4
      <4>2. outputSet'[env] = outputSet[env]
        BY <1>2, <2>4, <3>1
      <4>3. \/ saved = outputSet[env]
            \/ outputSet[env] = NoOutput /\ \E a \in Above(env) : conOutput[a] # NoOutput
        BY <2>1, <4>1 DEF TimeoutsInv, OutputRestored
      <4>4. \A a \in Above(env) : conOutput[a] # NoOutput => conOutput'[a] # NoOutput
        BY <1>2, <1>3, <3>2, <4>1
      <4> QED BY <4>2, <4>3, <4>4
    <3>5. OutputRestored'
      BY <2>1, <3>3, <3>4 DEF OutputRestored
    <3> QED BY <1>2, <2>1, <3>1, <3>5
  <2> QED BY <2>3, <2>4
<1>6. outputSet' \in [Envs -> AnyOutput] /\ bared' \in SUBSET Envs /\ OutputRestored'
  BY <1>4, <1>5
<1>7. TimeoutsTypeOK'
  BY <1>1, <1>2, <1>3, <1>6
     DEF TimeoutsInv, TimeoutsTypeOK, timeVars, listVars, passVars
<1>8. ListInOrder' /\ NoneMissed' /\ FunctionOfEachRecord'
  BY <1>1 DEF TimeoutsInv, ListInOrder, NoneMissed, FunctionOfEachRecord,
              timeVars, listVars, passVars
<1> QED BY <1>6, <1>7, <1>8 DEF TimeoutsInv

(* A pass begins: no Id in use is as high as timeoutNextId. *)
LEMMA BeginPassKeeps ==
  ASSUME TimeoutsInv, BeginPass
  PROVE  TimeoutsInv'
<1>1. Len(timeoutList) \in Nat
  BY LenProperties DEF TimeoutsInv, TimeoutsTypeOK
<1>2. TimeoutsTypeOK'
  BY <1>1 DEF TimeoutsInv, TimeoutsTypeOK, BeginPass, listVars, outVars
<1>3. ListInOrder' /\ FunctionOfEachRecord' /\ OutputRestored'
  BY DEF TimeoutsInv, ListInOrder, FunctionOfEachRecord, OutputRestored, BeginPass,
         listVars, outVars
<1>4. NoneMissed'
  BY DEF TimeoutsInv, TimeoutsTypeOK, NoneMissed, BeginPass, listVars
<1> QED BY <1>2, <1>3, <1>4 DEF TimeoutsInv

(* What is passed over is not due. *)
LEMMA SkipKeeps ==
  ASSUME TimeoutsInv, SkipRecord
  PROVE  TimeoutsInv'
<1>1. Len(timeoutList) \in Nat /\ it \in 1 .. Len(timeoutList)
  BY LenProperties DEF TimeoutsInv, TimeoutsTypeOK, SkipRecord
<1>2. TimeoutsTypeOK'
  BY <1>1 DEF TimeoutsInv, TimeoutsTypeOK, SkipRecord, timeVars, listVars, outVars
<1>3. ListInOrder' /\ FunctionOfEachRecord' /\ OutputRestored'
  BY DEF TimeoutsInv, ListInOrder, FunctionOfEachRecord, OutputRestored, SkipRecord,
         listVars, outVars
<1>4. NoneMissed'
  <2>1. /\ pc' = "scan" /\ it' = it + 1
        /\ UNCHANGED <<passFrom, timeoutNextId, timeoutList, frameCounter>>
    BY DEF SkipRecord, listVars, timeVars
  <2>2. ASSUME NEW j \in 1 .. it' - 1, timeoutList[j].Frame <= frameCounter
        PROVE  timeoutList[j].Id >= passFrom
    <3>1. ~(timeoutList[it].Frame <= frameCounter)
      <4>1. timeoutList[it].Frame \in Int /\ frameCounter \in Int
        BY <1>1, ElementOfSeq, RecordFacts DEF TimeoutsInv, TimeoutsTypeOK, Numbered
      <4> QED BY <4>1 DEF SkipRecord
    <3>2. j \in 1 .. it - 1
      BY <1>1, <2>1, <2>2, <3>1
    <3> QED BY <2>2, <3>2 DEF TimeoutsInv, NoneMissed
  <2> QED BY <2>1, <2>2 DEF TimeoutsInv, NoneMissed
<1> QED BY <1>2, <1>3, <1>4 DEF TimeoutsInv

(* What an environment has, if not what it inherits. *)
LEMMA FoundFacts ==
  ASSUME TimeoutsInv, NEW e \in Envs
  PROVE  /\ FoundOutput(e) \in AnyOutput
         /\ \/ FoundOutput(e) = conOutput[e]
            \/ conOutput[e] = NoOutput /\ \E a \in Above(e) : conOutput[a] = FoundOutput(e)
         /\ FoundOutput(e) = NoOutput =>
              conOutput[e] = NoOutput /\ \A a \in Above(e) : conOutput[a] = NoOutput
<1>1. conOutput \in [Envs -> AnyOutput]
  BY DEF TimeoutsInv, TimeoutsTypeOK
<1> QED BY <1>1 DEF FoundOutput, Above, Envs

(* A function is called: conOutput, inherited or not, goes onto the stack. *)
LEMMA CallKeeps ==
  ASSUME TimeoutsInv, CallRecord
  PROVE  TimeoutsInv'
<1>1. Len(timeoutList) \in Nat /\ it \in 1 .. Len(timeoutList)
  BY LenProperties DEF TimeoutsInv, TimeoutsTypeOK, CallRecord
<1>2. PICK e \in Envs :
        /\ env' = e
        /\ saved' = FoundOutput(e)
        /\ conOutput' = [conOutput EXCEPT ![e] = NoOutput]
  BY DEF CallRecord
<1>3. /\ pc = "scan" /\ pc' = "call"
      /\ UNCHANGED <<timeVars, listVars, it, passFrom, fault, outputSet, bared>>
  BY DEF CallRecord
<1>4. /\ conOutput \in [Envs -> AnyOutput] /\ outputSet \in [Envs -> AnyOutput]
      /\ \A x \in Envs \ bared : conOutput[x] = outputSet[x]
  BY <1>3 DEF TimeoutsInv, TimeoutsTypeOK, OutputRestored
<1>5. TimeoutsTypeOK'
  <2>1. conOutput' \in [Envs -> AnyOutput] /\ saved' \in AnyOutput
    BY <1>2, <1>4, FoundFacts DEF AnyOutput
  <2> QED BY <1>2, <1>3, <2>1 DEF TimeoutsInv, TimeoutsTypeOK, timeVars, listVars
<1>6. ListInOrder' /\ FunctionOfEachRecord'
  BY <1>3 DEF TimeoutsInv, ListInOrder, FunctionOfEachRecord, listVars
<1>7. NoneMissed'
  <2>1. timeoutList[it].Frame \in Int /\ frameCounter \in Int
    BY <1>1, ElementOfSeq, RecordFacts DEF TimeoutsInv, TimeoutsTypeOK, Numbered
  <2>2. /\ UNCHANGED <<it, passFrom, timeoutNextId, timeoutList, frameCounter>>
        /\ frameCounter >= timeoutList[it].Frame
    BY DEF CallRecord, listVars, timeVars
  <2>3. it <= Len(timeoutList) /\ timeoutList[it].Frame <= frameCounter
    BY <1>1, <2>1, <2>2
  <2> QED BY <1>3, <2>2, <2>3 DEF TimeoutsInv, NoneMissed
<1>8. OutputRestored'
  <2>1. \A a \in Above(e) : a \in Envs /\ a # e
    BY DEF Above, Envs
  <2>2. ASSUME e \notin bared
        PROVE  \/ saved' = outputSet[e]
               \/ outputSet[e] = NoOutput /\ \E a \in Above(e) : conOutput'[a] # NoOutput
    <3>1. \A a \in Above(e) : conOutput'[a] = conOutput[a]
      BY <1>2, <1>4, <2>1
    <3> QED BY <1>2, <1>4, <2>2, <3>1, FoundFacts
  <2>3. \A x \in Envs \ bared : x # e => conOutput'[x] = outputSet[x]
    BY <1>2, <1>4
  <2> QED BY <1>2, <1>3, <2>2, <2>3 DEF OutputRestored
<1> QED BY <1>5, <1>6, <1>7, <1>8 DEF TimeoutsInv

(* The function called has come to its end: record and function go. *)
LEMMA ReturnKeeps ==
  ASSUME TimeoutsInv, ReturnFromCall
  PROVE  TimeoutsInv'
<1>1. /\ timeoutList \in Seq(TimeoutListRec) /\ Len(timeoutList) \in Nat
      /\ it \in 1 .. Len(timeoutList)
      /\ pc = "call" /\ env \in Envs
      /\ UNCHANGED timeVars
  BY LenProperties DEF TimeoutsInv, TimeoutsTypeOK, NoneMissed, ReturnFromCall
<1>2. CASE ErrorUntold \/ OutputFound
  <2>1. /\ UNCHANGED <<timeVars, listVars, outVars, pc, it, passFrom>>
        /\ fault' \in {"stack", "error"}
    BY <1>1, <1>2 DEF ErrorUntold, OutputFound, CallFaults
  <2> QED
    BY <2>1 DEF TimeoutsInv, TimeoutsTypeOK, ListInOrder, NoneMissed, FunctionOfEachRecord,
                OutputRestored, timeVars, listVars, outVars
<1>3. CASE FoundOutput(env) = NoOutput /\ RecordDone
  <2> DEFINE new == RemoveAt(timeoutList, it)
  <2>1. /\ new \in Seq(TimeoutListRec)
        /\ Len(new) = Len(timeoutList) - 1
        /\ \A j \in 1 .. it - 1 : new[j] = timeoutList[j]
    <3>1. new \in Seq(TimeoutListRec) /\ Removed(new, timeoutList, it)
      BY <1>1, RemoveAtElements
    <3> HIDE DEF new
    <3> QED BY <3>1 DEF Removed
  <2>2. /\ InOrder(new)
        /\ NoIdTwice(new)
        /\ Ids(new) = Ids(timeoutList) \ {timeoutList[it].Id}
    BY <1>1, EraseRecord DEF TimeoutsInv, ListInOrder
  <2>3. timeoutList' = new
    BY <1>3 DEF RecordDone
  <2> HIDE DEF new
  <2>4. /\ pc' = "scan" /\ it' = it /\ env' = NoEnv /\ saved' = NoOutput
        /\ conOutput' = [conOutput EXCEPT ![env] = saved]
        /\ functions' = functions \ {timeoutList[it].Id}
        /\ UNCHANGED <<timeoutNextId, dropped, passFrom, fault>>
        /\ UNCHANGED <<outputSet, bared>>
    BY <1>3 DEF RecordDone, DoneUnchanged
  <2>5. TimeoutsTypeOK'
    <3>1. timeoutList' \in Seq(TimeoutListRec) /\ it' \in 1 .. Len(timeoutList') + 1
      BY <1>1, <2>1, <2>3, <2>4
    <3>2. functions' \in SUBSET (1 .. MaxId)
      BY <2>4 DEF TimeoutsInv, TimeoutsTypeOK
    <3>3. conOutput' \in [Envs -> AnyOutput] /\ saved' \in AnyOutput
      BY <2>4 DEF TimeoutsInv, TimeoutsTypeOK, AnyOutput
    <3> QED BY <1>1, <2>4, <3>1, <3>2, <3>3 DEF TimeoutsInv, TimeoutsTypeOK, timeVars
  <2>6. ListInOrder'
    BY <2>2, <2>3 DEF ListInOrder
  <2>7. NoneMissed'
    BY <1>1, <2>1, <2>3, <2>4 DEF TimeoutsInv, NoneMissed, timeVars
  <2>8. FunctionOfEachRecord'
    <3>1. timeoutList[it].Id \in Ids(timeoutList)
      BY <1>1, ToSetByPosition DEF Ids
    <3> QED BY <2>2, <2>3, <2>4, <3>1 DEF TimeoutsInv, FunctionOfEachRecord
  <2>9. OutputRestored'
    <3>1. conOutput \in [Envs -> AnyOutput]
      BY DEF TimeoutsInv, TimeoutsTypeOK
    <3>2. env \notin bared => saved = outputSet[env]
      BY <1>1, <1>3, FoundFacts DEF TimeoutsInv, OutputRestored
    <3>3. \A x \in Envs \ bared : x # env => conOutput[x] = outputSet[x]
      BY DEF TimeoutsInv, OutputRestored
    <3>4. \A x \in Envs \ bared : conOutput'[x] = outputSet[x]
      BY <2>4, <3>1, <3>2, <3>3
    <3> QED BY <2>4, <3>4 DEF OutputRestored
  <2> QED BY <2>5, <2>6, <2>7, <2>8, <2>9 DEF TimeoutsInv
<1> QED BY <1>2, <1>3 DEF ReturnFromCall

(* The pass and the frame end. *)
LEMMA EndPassKeeps ==
  ASSUME TimeoutsInv, EndPass \/ NextFrame
  PROVE  TimeoutsInv'
<1>1. Len(timeoutList) \in Nat
  BY LenProperties DEF TimeoutsInv, TimeoutsTypeOK
<1>2. /\ UNCHANGED <<listVars, outVars, passFrom, fault>>
      /\ pc' = "idle" /\ it' = 1 /\ pc # "call"
  BY DEF EndPass, NextFrame, passVars, TimeoutsInv, NoneMissed
<1>3. frameCounter' \in 0 .. FrameMod - 1 /\ passMade' \in BOOLEAN
  <2>1. frameCounter \in 0 .. FrameMod - 1 /\ passMade \in BOOLEAN
    BY DEF TimeoutsInv, TimeoutsTypeOK
  <2>2. CASE EndPass
    BY <2>1, <2>2 DEF EndPass, timeVars
  <2>3. CASE NextFrame
    <3>1. (frameCounter + 1) % FrameMod \in 0 .. FrameMod - 1
      BY <2>1, ListAssumption DEF ListAssumption
    <3> QED BY <2>3, <3>1 DEF NextFrame
  <2> QED BY <2>2, <2>3
<1>4. TimeoutsTypeOK'
  BY <1>1, <1>2, <1>3 DEF TimeoutsInv, TimeoutsTypeOK, listVars, outVars
<1>5. ListInOrder' /\ FunctionOfEachRecord' /\ OutputRestored'
  BY <1>2 DEF TimeoutsInv, ListInOrder, FunctionOfEachRecord, OutputRestored, listVars, outVars
<1>6. NoneMissed'
  BY <1>2 DEF TimeoutsInv, NoneMissed, listVars
<1> QED BY <1>4, <1>5, <1>6 DEF TimeoutsInv

(* What a change of maps leaves: the records that persist. *)
LEMMA UnloadFacts ==
  ASSUME TimeoutsInv, mapUnloadUtil
  PROVE  /\ timeoutList' \in Seq(TimeoutListRec)
         /\ InOrder(timeoutList')
         /\ NoIdTwice(timeoutList')
         /\ ToSet(timeoutList') = {r \in ToSet(timeoutList) : r.Persist}
         /\ Ids(timeoutList') \subseteq Ids(timeoutList)
<1>1. PICK kept \in Positions(timeoutList) :
        /\ IsKept(kept, timeoutList)
        /\ timeoutList' = [j \in DOMAIN kept |-> timeoutList[kept[j]]]
  BY DEF mapUnloadUtil
<1>2. /\ timeoutList \in Seq(TimeoutListRec)
      /\ InOrder(timeoutList) /\ NoIdTwice(timeoutList)
  BY DEF TimeoutsInv, TimeoutsTypeOK, ListInOrder
<1>3. /\ timeoutList' \in Seq(TimeoutListRec)
      /\ InOrder(timeoutList')
      /\ NoIdTwice(timeoutList')
      /\ ToSet(timeoutList') = {r \in ToSet(timeoutList) : r.Persist}
  <2> DEFINE new == [j \in DOMAIN kept |-> timeoutList[kept[j]]]
  <2>1. /\ new \in Seq(TimeoutListRec)
        /\ InOrder(new)
        /\ NoIdTwice(new)
        /\ ToSet(new) = {r \in ToSet(timeoutList) : r.Persist}
    BY <1>1, <1>2, KeepRecords
  <2>2. timeoutList' = new
    BY <1>1
  <2> HIDE DEF new
  <2> QED BY <2>1, <2>2
<1> QED BY <1>3 DEF Ids

(* Their functions stay behind, and are counted with dropped. *)
LEMMA UnloadKeeps ==
  ASSUME TimeoutsInv, mapUnloadUtil
  PROVE  TimeoutsInv'
<1>1. /\ timeoutList' \in Seq(TimeoutListRec)
      /\ InOrder(timeoutList')
      /\ NoIdTwice(timeoutList')
      /\ Ids(timeoutList') \subseteq Ids(timeoutList)
  BY UnloadFacts
<1>2. /\ pc = "idle" /\ it = 1
      /\ UNCHANGED <<timeVars, timeoutNextId, functions, passVars, outVars>>
      /\ dropped' = dropped \cup (Ids(timeoutList) \ Ids(timeoutList'))
  BY DEF mapUnloadUtil, TimeoutsInv, NoneMissed
<1>3. TimeoutsTypeOK'
  <2>1. dropped' \in SUBSET (1 .. MaxId)
    BY <1>2 DEF TimeoutsInv, TimeoutsTypeOK, FunctionOfEachRecord
  <2>2. it' \in 1 .. Len(timeoutList') + 1
    BY <1>1, <1>2, LenProperties DEF passVars
  <2> QED
    BY <1>1, <1>2, <2>1, <2>2 DEF TimeoutsInv, TimeoutsTypeOK, timeVars, passVars, outVars
<1>4. ListInOrder'
  BY <1>1 DEF ListInOrder
<1>5. NoneMissed'
  BY <1>2 DEF TimeoutsInv, NoneMissed, passVars
<1>6. FunctionOfEachRecord'
  BY <1>1, <1>2 DEF TimeoutsInv, FunctionOfEachRecord
<1>7. OutputRestored'
  BY <1>2 DEF TimeoutsInv, OutputRestored, passVars, outVars
<1> QED BY <1>3, <1>4, <1>5, <1>6, <1>7 DEF TimeoutsInv

-----------------------------------------------------------------------------
(* The server starts with nothing set. *)
LEMMA InitInv == TimeoutsInit => TimeoutsInv
<1> SUFFICES ASSUME TimeoutsInit PROVE TimeoutsInv
  OBVIOUS
<1>1. timeoutList = <<>> /\ Len(timeoutList) = 0 /\ Ids(timeoutList) = {}
  <2>1. timeoutList = <<>> /\ Len(timeoutList) = 0
    BY DEF TimeoutsInit
  <2> QED BY <2>1 DEF Ids, ToSet
<1>2. TimeoutsTypeOK
  <2>1. timeoutList \in Seq(TimeoutListRec) /\ it \in 1 .. Len(timeoutList) + 1
    <3>1. <<>> \in Seq(TimeoutListRec)
      OBVIOUS
    <3>2. it = 1
      BY DEF TimeoutsInit
    <3> QED BY <1>1, <3>1, <3>2
  <2>2. 1 \in 1 .. MaxId + 1
    BY ListAssumption DEF ListAssumption
  <2> QED BY <2>1, <2>2 DEF TimeoutsInit, TimeoutsTypeOK, AnyOutput
<1>3. ListInOrder
  BY <1>1 DEF ListInOrder, InOrder, NoIdTwice
<1>4. NoneMissed /\ FunctionOfEachRecord /\ OutputRestored
  BY <1>1 DEF TimeoutsInit, NoneMissed, FunctionOfEachRecord, OutputRestored
<1> QED BY <1>2, <1>3, <1>4 DEF TimeoutsInv

(* Every step of the server keeps the invariants. *)
LEMMA StepInv == TimeoutsInv /\ [TimeoutsNext]_serverVars => TimeoutsInv'
<1> SUFFICES ASSUME TimeoutsInv, [TimeoutsNext]_serverVars PROVE TimeoutsInv'
  OBVIOUS
<1>1. CASE \E delay \in 0 .. FrameMod - 1, persist \in BOOLEAN : setTimeout(delay, persist)
  BY <1>1, SetKeeps
<1>2. CASE \E e \in SetIn, o \in AnyOutput : SetOutput(e, o) \/ CallbackSetsOutput(e, o)
  BY <1>2, OutputKeeps
<1>3. CASE BeginPass
  BY <1>3, BeginPassKeeps
<1>4. CASE SkipRecord
  BY <1>4, SkipKeeps
<1>5. CASE CallRecord
  BY <1>5, CallKeeps
<1>6. CASE ReturnFromCall
  BY <1>6, ReturnKeeps
<1>7. CASE EndPass \/ NextFrame
  BY <1>7, EndPassKeeps
<1>8. CASE mapUnloadUtil
  BY <1>8, UnloadKeeps
<1>9. CASE UNCHANGED serverVars
  BY <1>9 DEF TimeoutsInv, TimeoutsTypeOK, ListInOrder, NoneMissed, FunctionOfEachRecord,
              OutputRestored, serverVars, timeVars, listVars, passVars, outVars
<1> QED
  BY <1>1, <1>2, <1>3, <1>4, <1>5, <1>6, <1>7, <1>8, <1>9 DEF TimeoutsNext, onEachFrame

(***************************************************************************)
(* The list is in order, nothing due is left behind the iterator, every    *)
(* record has its function and conOutput comes back.                       *)
(***************************************************************************)
THEOREM TimeoutsInvariant == TimeoutsSpec => []TimeoutsInv
<1> QED BY InitInv, StepInv, PTL DEF TimeoutsSpec

(* The list setTimeoutL searches is in order and holds no Id twice. *)
THEOREM AlwaysInOrder == TimeoutsSpec => []ListInOrder
<1>1. TimeoutsInv => ListInOrder
  BY DEF TimeoutsInv
<1> QED BY <1>1, TimeoutsInvariant, PTL

(* A pass leaves nothing behind that was due when it began. *)
THEOREM AlwaysNoneMissed == TimeoutsSpec => []NoneMissed
<1>1. TimeoutsInv => NoneMissed
  BY DEF TimeoutsInv
<1> QED BY <1>1, TimeoutsInvariant, PTL

(* onEachFrame finds a function for every record it takes. *)
THEOREM AlwaysFunctionOfEachRecord == TimeoutsSpec => []FunctionOfEachRecord
<1>1. TimeoutsInv => FunctionOfEachRecord
  BY DEF TimeoutsInv
<1> QED BY <1>1, TimeoutsInvariant, PTL

(* Each conOutput is, between calls, what it was last set to from outside  *)
(* the functions of its environment, but where one of them has cleared     *)
(* what the environment inherits.                                          *)
THEOREM AlwaysOutputRestored == TimeoutsSpec => []OutputRestored
<1>1. TimeoutsInv => OutputRestored
  BY DEF TimeoutsInv
<1> QED BY <1>1, TimeoutsInvariant, PTL

-----------------------------------------------------------------------------
(* The list implements Timeouts. *)

(* The function being called, as Timeouts sees it. *)
Current == IF pc = "call" THEN timeoutList[it] ELSE NoTimeout

(* What is due ahead of the iterator. *)
DueIsBeyond ==
  DueAhead =
    IF pc = "idle" THEN {}
    ELSE {r \in Beyond(timeoutList, IF pc = "call" THEN it ELSE it - 1) :
            r.Frame <= frameCounter}

LEMMA DueBeyond == TimeoutsInv => DueIsBeyond
<1> SUFFICES ASSUME TimeoutsInv PROVE DueIsBeyond
  OBVIOUS
<1>1. Len(timeoutList) \in Nat /\ it \in 1 .. Len(timeoutList) + 1
  BY LenProperties DEF TimeoutsInv, TimeoutsTypeOK
<1>2. Ahead = (IF pc = "call" THEN it ELSE it - 1) + 1 .. Len(timeoutList)
  BY <1>1 DEF Ahead
<1> QED BY <1>2 DEF DueIsBeyond, DueAhead, Beyond

(* The same of the next state. *)
LEMMA DueNextBeyond == TimeoutsInv' => DueIsBeyond'
BY DueBeyond, PTL

(* The record that is called is a record of the list. *)
LEMMA CallFacts ==
  ASSUME TimeoutsInv, pc = "call"
  PROVE  /\ it \in 1 .. Len(timeoutList)
         /\ Current = timeoutList[it]
         /\ Current \in TimeoutListRec
         /\ Current # NoTimeout
         /\ Current.Frame <= frameCounter
<1>1. Len(timeoutList) \in Nat /\ it \in 1 .. Len(timeoutList)
  BY LenProperties DEF TimeoutsInv, TimeoutsTypeOK, NoneMissed
<1>2. timeoutList[it] \in TimeoutListRec
  BY <1>1, ElementOfSeq DEF TimeoutsInv, TimeoutsTypeOK
<1> QED BY <1>1, <1>2, RecordFacts DEF Current, TimeoutsInv, NoneMissed

(* Setting a timeout: it joins this pass unless it lies before its setter. *)
LEMMA SetRefines ==
  ASSUME TimeoutsInv, TimeoutsInv',
         NEW delay \in 0 .. FrameMod - 1, NEW persist \in BOOLEAN,
         setTimeout(delay, persist)
  PROVE  T!TNext
<1>1. PICK r \in TimeoutListRec, p \in 1 .. Len(timeoutList) + 1 :
        /\ r = [Id |-> timeoutNextId, Frame |-> (frameCounter + delay) % FrameMod,
                Persist |-> persist]
        /\ StopsAt(timeoutList, p, r.Frame)
        /\ timeoutList' = InsertAt(timeoutList, p, r)
        /\ it' = IF pc = "call" /\ p <= it THEN it + 1 ELSE it
        /\ \A id \in Ids(timeoutList) : id < r.Id
  BY SetFacts
<1>2. /\ timeoutList \in Seq(TimeoutListRec) /\ Numbered(TimeoutListRec)
      /\ InOrder(timeoutList) /\ NoIdTwice(timeoutList)
  BY RecordFacts DEF TimeoutsInv, TimeoutsTypeOK, ListInOrder
<1>3. r.Frame \in 0 .. FrameMod - 1
      /\ r = [Id |-> timeoutNextId, Frame |-> r.Frame, Persist |-> persist]
  BY <1>1 DEF TimeoutListRec
<1>4. ToSet(timeoutList') = ToSet(timeoutList) \cup {r}
  <2> DEFINE new == InsertAt(timeoutList, p, r)
  <2>1. ToSet(new) = ToSet(timeoutList) \cup {r}
    BY <1>1, <1>2, InsertRecord
  <2>2. timeoutList' = new
    BY <1>1
  <2> HIDE DEF new
  <2> QED BY <2>1, <2>2
<1>5. /\ pc \in {"idle", "call"} /\ timeoutNextId <= MaxId
      /\ timeoutNextId' = timeoutNextId + 1
      /\ UNCHANGED <<frameCounter, pc>>
  BY DEF setTimeout, timeVars
<1>6. CASE pc = "idle"
  <2>1. DueAhead = {} /\ DueAhead' = {} /\ Current' = NoTimeout /\ Current = NoTimeout
    BY <1>5, <1>6 DEF DueAhead, Current
  <2>2. T!Set(r.Frame, persist)
    BY <1>3, <1>4, <1>5, <1>6, <2>1 DEF T!Set, Current
  <2> QED BY <1>3, <2>2 DEF T!TNext
<1>7. CASE pc = "call"
  <2>1. it \in 1 .. Len(timeoutList) /\ Current = timeoutList[it] /\ Current # NoTimeout
    BY <1>7, CallFacts
  <2>2. /\ timeoutList'[it'] = timeoutList[it]
        /\ Beyond(timeoutList', it') =
             IF timeoutList[it].Frame <= r.Frame THEN Beyond(timeoutList, it) \cup {r}
               ELSE Beyond(timeoutList, it)
    <3>1. PICK n : (p <= it => n = it + 1) /\ (~(p <= it) => n = it)
      OBVIOUS
    <3> DEFINE new == InsertAt(timeoutList, p, r)
    <3>2. /\ n \in 1 .. Len(new)
          /\ new[n] = timeoutList[it]
          /\ Beyond(new, n) =
               IF timeoutList[it].Frame <= r.Frame THEN Beyond(timeoutList, it) \cup {r}
                 ELSE Beyond(timeoutList, it)
      <4>1. StopsAt(timeoutList, p, r.Frame)
        BY <1>1
      <4> QED BY <1>2, <2>1, <3>1, <4>1, InsertAround
    <3>3. timeoutList' = new /\ it' = n
      BY <1>1, <1>7, <3>1
    <3> HIDE DEF new
    <3> QED BY <3>2, <3>3
  <2>3. Current' = Current
    BY <1>5, <1>7, <2>2 DEF Current
  <2>4. /\ DueAhead = {s \in Beyond(timeoutList, it) : s.Frame <= frameCounter}
        /\ DueAhead' = {s \in Beyond(timeoutList', it') : s.Frame <= frameCounter}
    BY <1>5, <1>7, DueBeyond, DueNextBeyond DEF DueIsBeyond
  <2>5. DueAhead' = IF Current.Frame <= r.Frame /\ r.Frame <= frameCounter
                      THEN DueAhead \cup {r} ELSE DueAhead
    BY <2>1, <2>2, <2>4
  <2>6. T!Set(r.Frame, persist)
    BY <1>3, <1>4, <1>5, <1>7, <2>1, <2>3, <2>5 DEF T!Set, Current
  <2> QED BY <1>3, <2>6 DEF T!TNext
<1> QED BY <1>5, <1>6, <1>7

(* The pass begins with all that is due. *)
LEMMA BeginPassRefines ==
  ASSUME TimeoutsInv, TimeoutsInv', BeginPass
  PROVE  T!TNext
<1>1. /\ pc = "idle" /\ pc' = "scan" /\ it' = 1
      /\ UNCHANGED <<frameCounter, timeoutList, timeoutNextId>>
  BY DEF BeginPass, listVars
<1>2. ToSet(timeoutList) = Beyond(timeoutList, 0)
  <2>1. timeoutList \in Seq(TimeoutListRec)
    BY DEF TimeoutsInv, TimeoutsTypeOK
  <2> QED BY <2>1, ToSetByPosition DEF Beyond
<1>3. DueAhead' = {r \in ToSet(timeoutList) : r.Frame <= frameCounter}
  BY <1>1, <1>2, DueNextBeyond DEF DueIsBeyond
<1>4. T!BeginPass
  BY <1>1, <1>3 DEF T!BeginPass
<1> QED BY <1>4 DEF T!TNext

(* What the loop passes over was not due. *)
LEMMA SkipRefines ==
  ASSUME TimeoutsInv, TimeoutsInv', SkipRecord
  PROVE  UNCHANGED T!tVars
<1>1. /\ pc = "scan" /\ pc' = "scan" /\ it' = it + 1
      /\ UNCHANGED <<frameCounter, timeoutList, timeoutNextId>>
  BY DEF SkipRecord, timeVars, listVars
<1>2. /\ timeoutList \in Seq(TimeoutListRec) /\ Numbered(TimeoutListRec)
      /\ InOrder(timeoutList) /\ NoIdTwice(timeoutList)
      /\ it \in 1 .. Len(timeoutList)
  BY RecordFacts, LenProperties DEF TimeoutsInv, TimeoutsTypeOK, ListInOrder, SkipRecord
<1>3. ~(timeoutList[it].Frame <= frameCounter)
  <2>1. timeoutList[it].Frame \in Int /\ frameCounter \in Int
    BY <1>2, ElementOfSeq DEF TimeoutsInv, TimeoutsTypeOK, Numbered
  <2> QED BY <2>1 DEF SkipRecord
<1>4. Beyond(timeoutList, it - 1) = Beyond(timeoutList, it) \cup {timeoutList[it]}
  BY <1>2, FirstBeforeBeyond
<1>5. DueAhead' = DueAhead
  <2>1. /\ DueAhead = {s \in Beyond(timeoutList, it - 1) : s.Frame <= frameCounter}
        /\ DueAhead' = {s \in Beyond(timeoutList, it) : s.Frame <= frameCounter}
    <3>1. it' - 1 = it
      BY <1>1, <1>2
    <3> QED BY <1>1, <3>1, DueBeyond, DueNextBeyond DEF DueIsBeyond
  <2> QED BY <1>3, <1>4, <2>1
<1> QED BY <1>1, <1>5 DEF T!tVars

(* The record called is the first that is due. *)
LEMMA CallRefines ==
  ASSUME TimeoutsInv, TimeoutsInv', CallRecord
  PROVE  T!TNext
<1> DEFINE r == timeoutList[it]
<1>1. /\ pc = "scan" /\ pc' = "call"
      /\ UNCHANGED <<it, frameCounter, timeoutList, timeoutNextId>>
  BY DEF CallRecord, timeVars, listVars
<1>2. /\ timeoutList \in Seq(TimeoutListRec) /\ Numbered(TimeoutListRec)
      /\ InOrder(timeoutList) /\ NoIdTwice(timeoutList)
      /\ it \in 1 .. Len(timeoutList)
  BY RecordFacts, LenProperties DEF TimeoutsInv, TimeoutsTypeOK, ListInOrder, CallRecord
<1>3. r.Frame <= frameCounter
  BY <1>1 DEF TimeoutsInv, NoneMissed
<1>4. /\ Beyond(timeoutList, it - 1) = Beyond(timeoutList, it) \cup {r}
      /\ \A s \in Beyond(timeoutList, it) : s # r /\ T!Before(r, s)
  BY <1>2, FirstBeforeBeyond DEF T!Before
<1>5. /\ DueAhead = {s \in Beyond(timeoutList, it - 1) : s.Frame <= frameCounter}
      /\ DueAhead' = {s \in Beyond(timeoutList, it) : s.Frame <= frameCounter}
  BY <1>1, DueBeyond, DueNextBeyond DEF DueIsBeyond
<1> HIDE DEF r
<1>6. r \in DueAhead /\ DueAhead' = DueAhead \ {r}
  BY <1>3, <1>4, <1>5
<1>7. \A s \in DueAhead \ {r} : T!Before(r, s)
  BY <1>4, <1>5
<1>8. T!Call(r)
  BY <1>1, <1>6, <1>7 DEF T!Call, r
<1> QED BY <1>6, <1>8 DEF T!TNext

(* Erasing the record moves the iterator to what follows it. *)
LEMMA ReturnRefines ==
  ASSUME TimeoutsInv, TimeoutsInv', ReturnFromCall
  PROVE  T!TNext \/ UNCHANGED T!tVars
<1>1. timeoutList \in Seq(TimeoutListRec) /\ UNCHANGED frameCounter /\ pc = "call"
  BY DEF TimeoutsInv, TimeoutsTypeOK, ReturnFromCall, timeVars
<1>2. it \in 1 .. Len(timeoutList) /\ Current = timeoutList[it] /\ Current # NoTimeout
  BY <1>1, CallFacts
<1>3. CASE ErrorUntold \/ OutputFound
  BY <1>1, <1>3 DEF ErrorUntold, OutputFound, CallFaults, listVars, T!tVars, DueAhead, Ahead
<1>4. CASE RecordDone
  <2>1. /\ pc' = "scan" /\ it' = it /\ UNCHANGED timeoutNextId
        /\ timeoutList' = RemoveAt(timeoutList, it)
    BY <1>4 DEF RecordDone, DoneUnchanged
  <2>2. ToSet(timeoutList') = ToSet(timeoutList) \ {timeoutList[it]}
    BY <1>1, <1>2, <2>1, EraseRecord, Zenon DEF TimeoutsInv, ListInOrder
  <2>3. Beyond(timeoutList', it - 1) = Beyond(timeoutList, it)
    BY <1>1, <1>2, <2>1, RemoveAround, Zenon
  <2>4. DueAhead' = DueAhead
    BY <1>1, <2>1, <2>3, DueBeyond, DueNextBeyond DEF DueIsBeyond
  <2>5. T!Return
    BY <1>1, <1>2, <2>1, <2>2, <2>4 DEF T!Return, Current
  <2> QED BY <2>5 DEF T!TNext
<1> QED BY <1>3, <1>4 DEF ReturnFromCall

(* At the end of the list nothing is due; a frame is a tick. *)
LEMMA EndPassRefines ==
  ASSUME TimeoutsInv, TimeoutsInv', EndPass \/ NextFrame
  PROVE  T!TNext
<1>1. Len(timeoutList) \in Nat /\ it \in Nat
  BY LenProperties DEF TimeoutsInv, TimeoutsTypeOK
<1>2. pc' = "idle" /\ UNCHANGED <<timeoutList, timeoutNextId>> /\ DueAhead' = {}
  <2>1. pc' = "idle" /\ UNCHANGED <<timeoutList, timeoutNextId>>
    BY DEF EndPass, NextFrame, listVars, passVars
  <2> QED BY <2>1 DEF DueAhead
<1>3. CASE EndPass
  <2>1. pc = "scan" /\ it > Len(timeoutList) /\ UNCHANGED frameCounter
    BY <1>3 DEF EndPass, timeVars
  <2>2. DueAhead = {}
    <3>1. (it - 1) + 1 .. Len(timeoutList) = {}
      BY <1>1, <2>1
    <3> QED BY <2>1, <3>1, DueBeyond DEF DueIsBeyond, Beyond
  <2>3. T!EndPass
    BY <1>2, <2>1, <2>2 DEF T!EndPass
  <2> QED BY <2>3 DEF T!TNext
<1>4. CASE NextFrame
  <2>1. pc = "idle" /\ frameCounter' = (frameCounter + 1) % FrameMod
    BY <1>4 DEF NextFrame
  <2>2. DueAhead = {}
    BY <2>1 DEF DueAhead
  <2>3. T!Tick
    BY <1>2, <2>1, <2>2 DEF T!Tick
  <2> QED BY <2>3 DEF T!TNext
<1> QED BY <1>3, <1>4

(* The map takes with it what does not persist. *)
LEMMA UnloadRefines ==
  ASSUME TimeoutsInv, mapUnloadUtil
  PROVE  T!TNext
<1>1. /\ pc = "idle" /\ pc' = "idle"
      /\ UNCHANGED <<frameCounter, timeoutNextId>>
  BY DEF mapUnloadUtil, timeVars, passVars
<1>2. DueAhead = {} /\ DueAhead' = {}
  BY <1>1 DEF DueAhead
<1>3. ToSet(timeoutList') = {r \in ToSet(timeoutList) : r.Persist}
  BY UnloadFacts
<1>4. T!Unload
  BY <1>1, <1>2, <1>3 DEF T!Unload
<1> QED BY <1>4 DEF T!TNext

(* Where print goes is no part of the promise. *)
LEMMA OutputRefines ==
  ASSUME NEW e \in SetIn, NEW o \in AnyOutput, SetOutput(e, o) \/ CallbackSetsOutput(e, o)
  PROVE  UNCHANGED T!tVars
<1>1. UNCHANGED <<frameCounter, timeoutNextId, timeoutList, pc, it>>
  BY DEF SetOutput, CallbackSetsOutput, timeVars, listVars, passVars
<1> QED BY <1>1 DEF T!tVars, DueAhead, Ahead

(***************************************************************************)
(* The sorted list, walked with an iterator under which functions insert,  *)
(* implements the promise of Timeouts: each function due is called once in *)
(* a pass, earlier frames first, and one set during the pass takes part in *)
(* it exactly when it does not lie before its setter.                      *)
(***************************************************************************)
THEOREM ListImplementsTimeouts == TimeoutsSpec => ImplementsTimeouts
<1>1. TimeoutsInit => T!TInit
  BY DEF TimeoutsInit, T!TInit, DueAhead, ToSet
<1>2. TimeoutsInv /\ TimeoutsInv' /\ [TimeoutsNext]_serverVars => [T!TNext]_T!tVars
  <2> SUFFICES ASSUME TimeoutsInv, TimeoutsInv', [TimeoutsNext]_serverVars
               PROVE  T!TNext \/ UNCHANGED T!tVars
    OBVIOUS
  <2>1. CASE \E delay \in 0 .. FrameMod - 1, persist \in BOOLEAN : setTimeout(delay, persist)
    BY <2>1, SetRefines
  <2>2. CASE \E e \in SetIn, o \in AnyOutput :
               SetOutput(e, o) \/ CallbackSetsOutput(e, o)
    BY <2>2, OutputRefines
  <2>3. CASE BeginPass
    BY <2>3, BeginPassRefines
  <2>4. CASE SkipRecord
    BY <2>4, SkipRefines
  <2>5. CASE CallRecord
    BY <2>5, CallRefines
  <2>6. CASE ReturnFromCall
    BY <2>6, ReturnRefines
  <2>7. CASE EndPass \/ NextFrame
    BY <2>7, EndPassRefines
  <2>8. CASE mapUnloadUtil
    BY <2>8, UnloadRefines
  <2>9. CASE UNCHANGED serverVars
    BY <2>9 DEF serverVars, timeVars, listVars, passVars, T!tVars, DueAhead, Ahead
  <2> QED
    BY <2>1, <2>2, <2>3, <2>4, <2>5, <2>6, <2>7, <2>8, <2>9 DEF TimeoutsNext, onEachFrame
<1> QED
  BY <1>1, <1>2, TimeoutsInvariant, PTL DEF TimeoutsSpec, ImplementsTimeouts, T!TSpec

-----------------------------------------------------------------------------
(* The client's list. *)

(* What every invariant of the client says of the list. *)
LEMMA ClientListFacts ==
  ASSUME ClientInv
  PROVE  /\ cliTimeoutList \in Seq(cliTimeoutListRec)
         /\ Len(cliTimeoutList) \in Nat
         /\ cliIt \in 1 .. Len(cliTimeoutList) + 1
         /\ InOrder(cliTimeoutList)
         /\ NoIdTwice(cliTimeoutList)
         /\ Numbered(cliTimeoutListRec)
<1>1. Numbered(cliTimeoutListRec)
  BY ListAssumption DEF ListAssumption, cliTimeoutListRec, Numbered
<1> QED
  BY <1>1, LenProperties
     DEF ClientInv, ClientTypeOK, ClientListInOrder, ClientFunctions

(* A new function has its place in the order and an Id of its own. *)
LEMMA ClientSetKeeps ==
  ASSUME ClientInv, NEW delay \in 0 .. FrameMod - 1, cliSetTimeout(delay)
  PROVE  ClientInv'
<1> DEFINE f == (cliFrameCounter + delay) % FrameMod
           r == [Id |-> cliTimeoutNextId, Frame |-> f]
<1>1. f \in 0 .. FrameMod - 1
  BY ListAssumption DEF ListAssumption, ClientInv, ClientTypeOK
<1>2. cliTimeoutNextId \in 1 .. MaxId /\ MaxId \in Nat
  BY ListAssumption DEF ListAssumption, ClientInv, ClientTypeOK, cliSetTimeout
<1>3. PICK p \in 1 .. Len(cliTimeoutList) + 1 :
        /\ StopsAt(cliTimeoutList, p, f)
        /\ cliTimeoutList' = InsertAt(cliTimeoutList, p, r)
        /\ cliIt' = IF cliPc = "call" /\ p <= cliIt THEN cliIt + 1 ELSE cliIt
  BY DEF cliSetTimeout
<1> HIDE DEF f
<1>4. r \in cliTimeoutListRec /\ r.Frame = f /\ r.Id = cliTimeoutNextId
  BY <1>1, <1>2 DEF cliTimeoutListRec
<1>5. \A id \in Ids(cliTimeoutList) : id < r.Id
  BY <1>4 DEF ClientInv, ClientListInOrder
<1>6. /\ InOrder(cliTimeoutList')
      /\ NoIdTwice(cliTimeoutList')
      /\ Ids(cliTimeoutList') = Ids(cliTimeoutList) \cup {cliTimeoutNextId}
  BY <1>3, <1>4, <1>5, ClientListFacts, InsertRecord
<1>7. cliTimeoutList' \in Seq(cliTimeoutListRec) /\ Len(cliTimeoutList') = Len(cliTimeoutList) + 1
  <2> DEFINE new == InsertAt(cliTimeoutList, p, r)
  <2>1. new \in Seq(cliTimeoutListRec) /\ Inserted(new, cliTimeoutList, p, r)
    BY <1>3, <1>4, ClientListFacts, InsertAtElements
  <2>2. cliTimeoutList' = new
    BY <1>3
  <2> HIDE DEF new
  <2> QED BY <2>1, <2>2 DEF Inserted
<1>8. cliIt' \in 1 .. Len(cliTimeoutList') + 1
      /\ (cliPc' = "call" => cliIt' <= Len(cliTimeoutList'))
  BY <1>3, <1>7, ClientListFacts DEF ClientInv, ClientFunctions, cliSetTimeout
<1>9. cliTimeoutNextId' = cliTimeoutNextId + 1
      /\ cliFunctions' = cliFunctions \cup {cliTimeoutNextId}
      /\ UNCHANGED <<cliFrameCounter, cliPassMade, cliPc, cliCrashed>>
  BY DEF cliSetTimeout
<1>10. ClientTypeOK'
  <2>1. cliTimeoutNextId' \in 1 .. MaxId + 1 /\ cliFunctions' \in SUBSET (1 .. MaxId)
    BY <1>2, <1>9 DEF ClientInv, ClientTypeOK
  <2> QED BY <1>7, <1>8, <1>9, <2>1 DEF ClientInv, ClientTypeOK
<1>11. ClientListInOrder'
  <2>1. Ids(cliTimeoutList) \subseteq Int
    BY <1>2 DEF ClientInv, ClientTypeOK, ClientFunctions
  <2> QED BY <1>2, <1>4, <1>5, <1>6, <1>9, <2>1 DEF ClientListInOrder
<1>12. ClientFunctions'
  BY <1>6, <1>8, <1>9 DEF ClientInv, ClientFunctions
<1> QED BY <1>10, <1>11, <1>12 DEF ClientInv

(* The function called has come to its end: record and function go. *)
LEMMA ClientReturnKeeps ==
  ASSUME ClientInv, cliPc = "call", ClientRecordDone
  PROVE  ClientInv'
<1>1. cliIt \in 1 .. Len(cliTimeoutList)
  BY ClientListFacts DEF ClientInv, ClientFunctions
<1> DEFINE new == RemoveAt(cliTimeoutList, cliIt)
<1>2. new \in Seq(cliTimeoutListRec) /\ Len(new) = Len(cliTimeoutList) - 1
  <2>1. new \in Seq(cliTimeoutListRec) /\ Removed(new, cliTimeoutList, cliIt)
    BY <1>1, ClientListFacts, RemoveAtElements
  <2> HIDE DEF new
  <2> QED BY <2>1 DEF Removed
<1>3. /\ InOrder(new)
      /\ NoIdTwice(new)
      /\ Ids(new) = Ids(cliTimeoutList) \ {cliTimeoutList[cliIt].Id}
  BY <1>1, ClientListFacts, EraseRecord
<1>4. cliTimeoutList' = new
  BY DEF ClientRecordDone
<1> HIDE DEF new
<1>5. /\ cliFunctions' = cliFunctions \ {cliTimeoutList[cliIt].Id}
      /\ cliPc' = "scan"
      /\ UNCHANGED <<cliFrameCounter, cliPassMade, cliTimeoutNextId, cliIt, cliCrashed>>
  BY DEF ClientRecordDone
<1>6. ClientTypeOK'
  <2>1. cliFunctions' \in SUBSET (1 .. MaxId)
    BY <1>5 DEF ClientInv, ClientTypeOK
  <2>2. cliIt' \in 1 .. Len(cliTimeoutList') + 1
    BY <1>1, <1>2, <1>4, <1>5, ClientListFacts
  <2> QED BY <1>2, <1>4, <1>5, <2>1, <2>2 DEF ClientInv, ClientTypeOK
<1>7. ClientListInOrder' /\ ClientFunctions'
  BY <1>3, <1>4, <1>5 DEF ClientInv, ClientListInOrder, ClientFunctions
<1> QED BY <1>6, <1>7 DEF ClientInv

(* The pass begins, calls, ends, and the next frame comes: the list stays. *)
LEMMA ClientPassKeeps ==
  ASSUME ClientInv,
         ClientBeginPass \/ ClientCallRecord \/ ClientEndPass \/ ClientNextFrame
  PROVE  ClientInv'
<1>1. UNCHANGED <<cliTimeoutNextId, cliTimeoutList, cliFunctions, cliCrashed>>
  BY DEF ClientBeginPass, ClientCallRecord, ClientEndPass, ClientNextFrame
<1>2. cliFrameCounter' \in 0 .. FrameMod - 1
  <2>1. cliFrameCounter \in 0 .. FrameMod - 1
    BY DEF ClientInv, ClientTypeOK
  <2>2. (cliFrameCounter + 1) % FrameMod \in 0 .. FrameMod - 1
    BY <2>1, ListAssumption DEF ListAssumption
  <2> QED
    BY <2>1, <2>2 DEF ClientBeginPass, ClientCallRecord, ClientEndPass, ClientNextFrame
<1>3. /\ cliPassMade' \in BOOLEAN /\ cliPc' \in {"idle", "scan", "call"}
      /\ cliIt' \in 1 .. Len(cliTimeoutList) + 1
      /\ (cliPc' = "call" => cliIt' <= Len(cliTimeoutList))
  <2> DEFINE goal == /\ cliPassMade' \in BOOLEAN /\ cliPc' \in {"idle", "scan", "call"}
                     /\ cliIt' \in 1 .. Len(cliTimeoutList) + 1
                     /\ (cliPc' = "call" => cliIt' <= Len(cliTimeoutList))
  <2>1. /\ cliPassMade \in BOOLEAN
        /\ cliPc = "call" => cliIt <= Len(cliTimeoutList)
        /\ cliIt \in 1 .. Len(cliTimeoutList) + 1 /\ Len(cliTimeoutList) \in Nat
    BY ClientListFacts DEF ClientInv, ClientTypeOK, ClientFunctions
  <2>2. CASE ClientBeginPass
    BY <2>1, <2>2 DEF ClientBeginPass
  <2>3. CASE ClientCallRecord
    BY <2>1, <2>3 DEF ClientCallRecord, ClientDueAt
  <2>4. CASE ClientEndPass
    BY <2>1, <2>4 DEF ClientEndPass
  <2>5. CASE ClientNextFrame
    BY <2>1, <2>5 DEF ClientNextFrame
  <2> QED BY <2>2, <2>3, <2>4, <2>5
<1>4. ClientTypeOK'
  BY <1>1, <1>2, <1>3 DEF ClientInv, ClientTypeOK
<1>5. ClientListInOrder' /\ ClientFunctions'
  BY <1>1, <1>3 DEF ClientInv, ClientListInOrder, ClientFunctions
<1> QED BY <1>4, <1>5 DEF ClientInv

(***************************************************************************)
(* The client's list is in order, so that the pass may stop at the first   *)
(* record that is not due, and holds the records of all functions.         *)
(***************************************************************************)
THEOREM ClientInvariant == ClientSpec => []ClientInv
<1>1. ClientInit => ClientInv
  <2> SUFFICES ASSUME ClientInit PROVE ClientInv
    OBVIOUS
  <2>1. cliTimeoutList = <<>> /\ Len(cliTimeoutList) = 0 /\ Ids(cliTimeoutList) = {}
    <3>1. cliTimeoutList = <<>> /\ Len(cliTimeoutList) = 0
      BY DEF ClientInit
    <3> QED BY <3>1 DEF Ids, ToSet
  <2>2. ClientTypeOK
    <3>1. cliTimeoutList \in Seq(cliTimeoutListRec) /\ cliIt \in 1 .. Len(cliTimeoutList) + 1
      <4>1. <<>> \in Seq(cliTimeoutListRec)
        OBVIOUS
      <4>2. cliIt = 1
        BY DEF ClientInit
      <4> QED BY <2>1, <4>1, <4>2
    <3>2. 1 \in 1 .. MaxId + 1
      BY ListAssumption DEF ListAssumption
    <3> QED BY <3>1, <3>2 DEF ClientInit, ClientTypeOK
  <2>3. ClientListInOrder /\ ClientFunctions
    BY <2>1 DEF ClientInit, ClientListInOrder, ClientFunctions, InOrder, NoIdTwice
  <2> QED BY <2>2, <2>3 DEF ClientInv
<1>2. ClientInv /\ [ClientNext]_clientVars => ClientInv'
  <2> SUFFICES ASSUME ClientInv, [ClientNext]_clientVars PROVE ClientInv'
    OBVIOUS
  <2>1. CASE \E delay \in 0 .. FrameMod - 1 : cliSetTimeout(delay)
    BY <2>1, ClientSetKeeps
  <2>2. CASE ClientReturnFromCall
    <3>1. CASE ClientErrorUntold
      BY <3>1 DEF ClientErrorUntold, ClientInv, ClientTypeOK, ClientListInOrder,
                  ClientFunctions
    <3> QED BY <2>2, <3>1, ClientReturnKeeps DEF ClientReturnFromCall
  <2>3. CASE ClientBeginPass \/ ClientCallRecord \/ ClientEndPass \/ ClientNextFrame
    BY <2>3, ClientPassKeeps
  <2>4. CASE UNCHANGED clientVars
    BY <2>4 DEF ClientInv, ClientTypeOK, ClientListInOrder, ClientFunctions, clientVars
  <2> QED BY <2>1, <2>2, <2>3, <2>4 DEF ClientNext, cliOnEachFrame
<1> QED BY <1>1, <1>2, PTL DEF ClientSpec

(* No function of the client is lost before its call, none kept after it. *)
THEOREM AlwaysClientFunctions == ClientSpec => []ClientFunctions
<1>1. ClientInv => ClientFunctions
  BY DEF ClientInv
<1> QED BY <1>1, ClientInvariant, PTL
-----------------------------------------------------------------------------
(* The client's list implements Timeouts. *)

(* Between passes the iterator is at the first record. *)
ClientAtStart == cliPc = "idle" => cliIt = 1

LEMMA AlwaysClientAtStart == ClientSpec => []ClientAtStart
<1>1. ClientInit => ClientAtStart
  BY DEF ClientInit, ClientAtStart
<1>2. ClientAtStart /\ [ClientNext]_clientVars => ClientAtStart'
  BY DEF ClientAtStart, ClientNext, cliOnEachFrame, clientVars, cliSetTimeout,
         ClientBeginPass, ClientCallRecord, ClientReturnFromCall, ClientErrorUntold,
         ClientRecordDone, ClientEndPass, ClientNextFrame
<1> QED BY <1>1, <1>2, PTL DEF ClientSpec

(* The function being called. *)
ClientCurrent == IF cliPc = "call" THEN Persisting(cliTimeoutList[cliIt]) ELSE NoTimeout

(* What is due ahead of the iterator. *)
ClientBeyond ==
  {Persisting(r) : r \in Beyond(cliTimeoutList, IF cliPc = "call" THEN cliIt ELSE cliIt - 1)}

ClientDueIsBeyond ==
  ClientDueAhead =
    IF cliPc = "idle" THEN {} ELSE {s \in ClientBeyond : s.Frame <= cliFrameCounter}

LEMMA ClientDueBeyond == ClientInv => ClientDueIsBeyond
<1> SUFFICES ASSUME ClientInv PROVE ClientDueIsBeyond
  OBVIOUS
<1> DEFINE i == IF cliPc = "call" THEN cliIt ELSE cliIt - 1
<1>1. ClientAhead = i + 1 .. Len(cliTimeoutList)
  BY ClientListFacts DEF ClientAhead
<1> HIDE DEF i
<1>2. {Persisting(cliTimeoutList[j]) : j \in ClientAhead} =
        {Persisting(r) : r \in Beyond(cliTimeoutList, i)}
  BY <1>1 DEF Beyond
<1> QED BY <1>2 DEF ClientDueIsBeyond, ClientDueAhead, ClientBeyond, i

(* The same of the next state. *)
LEMMA ClientDueNextBeyond == ClientInv' => ClientDueIsBeyond'
BY ClientDueBeyond, PTL

(* A record and what Timeouts sees of it. *)
LEMMA PersistingFacts ==
  /\ \A r : Persisting(r).Id = r.Id /\ Persisting(r).Frame = r.Frame
  /\ \A r \in cliTimeoutListRec : Persisting(r) # NoTimeout
  /\ \A r, s \in cliTimeoutListRec : Persisting(r) = Persisting(s) => r = s
<1>1. \A r : Persisting(r).Id = r.Id /\ Persisting(r).Frame = r.Frame
  BY DEF Persisting
<1>2. ASSUME NEW r \in cliTimeoutListRec PROVE Persisting(r) # NoTimeout
  <2>1. Persisting(r) \in [Id : 1 .. MaxId, Frame : 0 .. FrameMod - 1, Persist : BOOLEAN]
    BY DEF Persisting, cliTimeoutListRec
  <2> QED BY <2>1, ListAssumption DEF ListAssumption
<1>3. ASSUME NEW r \in cliTimeoutListRec, NEW s \in cliTimeoutListRec,
             Persisting(r) = Persisting(s)
      PROVE  r = s
  <2>1. r.Id = s.Id /\ r.Frame = s.Frame
    BY <1>1, <1>3
  <2> QED BY <2>1 DEF cliTimeoutListRec
<1> QED BY <1>1, <1>2, <1>3

(* The records, as Timeouts sees them. *)
ClientPending == {Persisting(r) : r \in ToSet(cliTimeoutList)}

(* A function joins this pass unless it lies before its setter. *)
LEMMA ClientSetRefines ==
  ASSUME ClientInv, ClientInv', NEW delay \in 0 .. FrameMod - 1, cliSetTimeout(delay)
  PROVE  ClientT!TNext
<1> DEFINE f == (cliFrameCounter + delay) % FrameMod
           r == [Id |-> cliTimeoutNextId, Frame |-> f]
<1>1. f \in 0 .. FrameMod - 1
  BY ListAssumption DEF ListAssumption, ClientInv, ClientTypeOK
<1>2. cliTimeoutNextId \in 1 .. MaxId
  BY ListAssumption DEF ListAssumption, ClientInv, ClientTypeOK, cliSetTimeout
<1>3. PICK p \in 1 .. Len(cliTimeoutList) + 1 :
        /\ StopsAt(cliTimeoutList, p, f)
        /\ cliTimeoutList' = InsertAt(cliTimeoutList, p, r)
        /\ cliIt' = IF cliPc = "call" /\ p <= cliIt THEN cliIt + 1 ELSE cliIt
  BY DEF cliSetTimeout
<1>4. /\ cliPc \in {"idle", "call"} /\ cliTimeoutNextId <= MaxId
      /\ cliTimeoutNextId' = cliTimeoutNextId + 1
      /\ UNCHANGED <<cliFrameCounter, cliPc>>
  BY DEF cliSetTimeout
<1> HIDE DEF f
<1>5. r \in cliTimeoutListRec /\ r.Frame = f /\ r.Id = cliTimeoutNextId
  BY <1>1, <1>2 DEF cliTimeoutListRec
<1>6. \A id \in Ids(cliTimeoutList) : id < r.Id
  BY <1>5 DEF ClientInv, ClientListInOrder
<1>7. Persisting(r) = [Id |-> cliTimeoutNextId, Frame |-> f, Persist |-> TRUE]
  BY DEF Persisting
<1> HIDE DEF r
<1>8. ClientPending' = ClientPending \cup {Persisting(r)}
  <2> DEFINE new == InsertAt(cliTimeoutList, p, r)
  <2>1. ToSet(new) = ToSet(cliTimeoutList) \cup {r}
    BY <1>3, <1>5, <1>6, ClientListFacts, InsertRecord
  <2>2. cliTimeoutList' = new
    BY <1>3
  <2> HIDE DEF new
  <2> QED BY <2>1, <2>2 DEF ClientPending
<1>9. CASE cliPc = "idle"
  <2>1. /\ ClientDueAhead = {} /\ ClientDueAhead' = {}
        /\ ClientCurrent' = NoTimeout /\ ClientCurrent = NoTimeout
    BY <1>4, <1>9 DEF ClientDueAhead, ClientCurrent
  <2>2. ClientT!Set(f, TRUE)
    BY <1>4, <1>7, <1>8, <1>9, <2>1 DEF ClientT!Set, ClientCurrent, ClientPending
  <2> QED BY <1>1, <2>2 DEF ClientT!TNext
<1>10. CASE cliPc = "call"
  <2>1. cliIt \in 1 .. Len(cliTimeoutList)
    BY <1>10, ClientListFacts DEF ClientInv, ClientFunctions
  <2>2. cliTimeoutList[cliIt] \in cliTimeoutListRec
    BY <2>1, ClientListFacts, ElementOfSeq
  <2> DEFINE c == cliTimeoutList[cliIt]
  <2>3. /\ cliTimeoutList'[cliIt'] = c
        /\ Beyond(cliTimeoutList', cliIt') =
             IF c.Frame <= r.Frame THEN Beyond(cliTimeoutList, cliIt) \cup {r}
               ELSE Beyond(cliTimeoutList, cliIt)
    <3>1. PICK n : (p <= cliIt => n = cliIt + 1) /\ (~(p <= cliIt) => n = cliIt)
      OBVIOUS
    <3> DEFINE new == InsertAt(cliTimeoutList, p, r)
    <3>2. /\ n \in 1 .. Len(new)
          /\ new[n] = c
          /\ Beyond(new, n) =
               IF c.Frame <= r.Frame THEN Beyond(cliTimeoutList, cliIt) \cup {r}
                 ELSE Beyond(cliTimeoutList, cliIt)
      <4>1. StopsAt(cliTimeoutList, p, r.Frame)
        BY <1>3, <1>5
      <4> QED BY <1>5, <2>1, <3>1, <4>1, ClientListFacts, InsertAround
    <3>3. cliTimeoutList' = new /\ cliIt' = n
      BY <1>3, <1>10, <3>1
    <3> HIDE DEF new, c
    <3> QED BY <3>2, <3>3
  <2> HIDE DEF c
  <2>4. ClientCurrent' = ClientCurrent /\ ClientCurrent = Persisting(c)
    BY <1>4, <1>10, <2>3 DEF ClientCurrent, c
  <2>5. ClientCurrent # NoTimeout /\ ClientCurrent.Frame = c.Frame
    BY <2>2, <2>4, PersistingFacts DEF c
  <2>6. /\ ClientDueAhead = {s \in ClientBeyond : s.Frame <= cliFrameCounter}
        /\ ClientDueAhead' = {s \in ClientBeyond' : s.Frame <= cliFrameCounter}
    BY <1>4, <1>10, ClientDueBeyond, ClientDueNextBeyond DEF ClientDueIsBeyond
  <2>7. ClientBeyond' = IF c.Frame <= f THEN ClientBeyond \cup {Persisting(r)}
                          ELSE ClientBeyond
    BY <1>4, <1>5, <1>10, <2>3 DEF ClientBeyond
  <2>8. ClientDueAhead' =
          IF ClientCurrent.Frame <= f /\ f <= cliFrameCounter
            THEN ClientDueAhead \cup {Persisting(r)} ELSE ClientDueAhead
    BY <1>5, <2>5, <2>6, <2>7, PersistingFacts
  <2>9. ClientT!Set(f, TRUE)
    BY <1>4, <1>7, <1>8, <1>10, <2>4, <2>5, <2>8
       DEF ClientT!Set, ClientCurrent, ClientPending
  <2> QED BY <1>1, <2>9 DEF ClientT!TNext
<1> QED BY <1>4, <1>9, <1>10

(* The pass begins with all that is due. *)
LEMMA ClientBeginPassRefines ==
  ASSUME ClientInv, ClientInv', ClientAtStart, ClientBeginPass
  PROVE  ClientT!TNext
<1>1. /\ cliPc = "idle" /\ cliPc' = "scan" /\ cliIt' = 1
      /\ UNCHANGED <<cliFrameCounter, cliTimeoutList, cliTimeoutNextId>>
  BY DEF ClientBeginPass, ClientAtStart
<1>2. ToSet(cliTimeoutList) = Beyond(cliTimeoutList, 0)
  BY ClientListFacts, ToSetByPosition DEF Beyond
<1>3. ClientBeyond' = ClientPending
  BY <1>1, <1>2 DEF ClientBeyond, ClientPending
<1>4. ClientDueAhead' = {s \in ClientPending : s.Frame <= cliFrameCounter}
  BY <1>1, <1>3, ClientDueNextBeyond DEF ClientDueIsBeyond
<1>5. ClientT!BeginPass
  BY <1>1, <1>4 DEF ClientT!BeginPass, ClientPending
<1> QED BY <1>5 DEF ClientT!TNext

(* The record called is the first that is due. *)
LEMMA ClientCallRefines ==
  ASSUME ClientInv, ClientInv', ClientCallRecord
  PROVE  ClientT!TNext
<1> DEFINE r == cliTimeoutList[cliIt]
           c == Persisting(r)
<1>1. /\ cliPc = "scan" /\ cliPc' = "call"
      /\ UNCHANGED <<cliIt, cliFrameCounter, cliTimeoutList, cliTimeoutNextId>>
  BY DEF ClientCallRecord
<1>2. cliIt \in 1 .. Len(cliTimeoutList) /\ r.Frame <= cliFrameCounter
  BY ClientListFacts DEF ClientCallRecord, ClientDueAt
<1>3. r \in cliTimeoutListRec
  BY <1>2, ClientListFacts, ElementOfSeq
<1>4. /\ Beyond(cliTimeoutList, cliIt - 1) = Beyond(cliTimeoutList, cliIt) \cup {r}
      /\ \A s \in Beyond(cliTimeoutList, cliIt) :
           /\ s \in cliTimeoutListRec /\ s # r
           /\ r.Frame < s.Frame \/ (r.Frame = s.Frame /\ r.Id < s.Id)
  BY <1>2, ClientListFacts, FirstBeforeBeyond
<1>5. c = Persisting(r)
  OBVIOUS
<1>6. ClientCurrent' = c /\ ClientCurrent = NoTimeout
  BY <1>1 DEF ClientCurrent
<1>7. /\ ClientDueAhead = {s \in ClientBeyond : s.Frame <= cliFrameCounter}
      /\ ClientDueAhead' = {s \in ClientBeyond' : s.Frame <= cliFrameCounter}
  BY <1>1, ClientDueBeyond, ClientDueNextBeyond DEF ClientDueIsBeyond
<1> HIDE DEF r, c
<1>8. /\ ClientBeyond = ClientBeyond' \cup {c}
      /\ \A s \in ClientBeyond' : s # c /\ ClientT!Before(c, s)
  <2>1. /\ ClientBeyond = {Persisting(s) : s \in Beyond(cliTimeoutList, cliIt - 1)}
        /\ ClientBeyond' = {Persisting(s) : s \in Beyond(cliTimeoutList, cliIt)}
    BY <1>1 DEF ClientBeyond
  <2>2. ClientBeyond = ClientBeyond' \cup {c}
    BY <1>4, <1>5, <2>1
  <2>3. ASSUME NEW s \in Beyond(cliTimeoutList, cliIt)
        PROVE  Persisting(s) # c /\ ClientT!Before(c, Persisting(s))
    BY <1>3, <1>4, <1>5, PersistingFacts DEF ClientT!Before
  <2> QED BY <2>1, <2>2, <2>3
<1>9. c.Frame <= cliFrameCounter
  BY <1>2, <1>5, PersistingFacts
<1>10. c \in ClientDueAhead /\ ClientDueAhead' = ClientDueAhead \ {c}
  BY <1>7, <1>8, <1>9
<1>11. \A s \in ClientDueAhead \ {c} : ClientT!Before(c, s)
  BY <1>7, <1>8
<1>12. ClientT!Call(c)
  BY <1>1, <1>6, <1>10, <1>11 DEF ClientT!Call, ClientCurrent
<1> QED BY <1>10, <1>12 DEF ClientT!TNext

(* Erasing the record moves the iterator to what follows it. *)
LEMMA ClientReturnRefines ==
  ASSUME ClientInv, ClientInv', cliPc = "call", ClientRecordDone
  PROVE  ClientT!TNext
<1> DEFINE r == cliTimeoutList[cliIt]
<1>1. /\ cliPc = "call" /\ cliPc' = "scan"
      /\ cliTimeoutList' = RemoveAt(cliTimeoutList, cliIt)
      /\ UNCHANGED <<cliIt, cliFrameCounter, cliTimeoutNextId>>
  BY DEF ClientRecordDone
<1>2. cliIt \in 1 .. Len(cliTimeoutList)
  BY <1>1, ClientListFacts DEF ClientInv, ClientFunctions
<1>3. r \in cliTimeoutListRec /\ \A s \in ToSet(cliTimeoutList) : s \in cliTimeoutListRec
  BY <1>2, ClientListFacts, ElementOfSeq, ToSetByPosition
<1>4. ToSet(cliTimeoutList') = ToSet(cliTimeoutList) \ {r}
  BY <1>1, <1>2, ClientListFacts, EraseRecord, Zenon
<1>5. Beyond(cliTimeoutList', cliIt - 1) = Beyond(cliTimeoutList, cliIt)
  BY <1>1, <1>2, ClientListFacts, RemoveAround, Zenon
<1>6. ClientCurrent = Persisting(r) /\ ClientCurrent' = NoTimeout
  BY <1>1 DEF ClientCurrent
<1> HIDE DEF r
<1>7. ClientPending' = ClientPending \ {ClientCurrent}
  BY <1>3, <1>4, <1>6, PersistingFacts DEF ClientPending
<1>8. ClientDueAhead' = ClientDueAhead
  <2>1. ClientBeyond' = ClientBeyond
    BY <1>1, <1>5 DEF ClientBeyond
  <2> QED BY <1>1, <2>1, ClientDueBeyond, ClientDueNextBeyond DEF ClientDueIsBeyond
<1>9. ClientCurrent # NoTimeout
  BY <1>3, <1>6, PersistingFacts
<1>10. ClientT!Return
  BY <1>1, <1>6, <1>7, <1>8, <1>9 DEF ClientT!Return, ClientCurrent, ClientPending
<1> QED BY <1>10 DEF ClientT!TNext

(* Where the loop stops nothing more is due, the list being in order. *)
LEMMA ClientEndPassRefines ==
  ASSUME ClientInv, ClientInv', ClientEndPass
  PROVE  ClientT!TNext
<1>1. /\ cliPc = "scan" /\ cliPc' = "idle" /\ ~ClientDueAt(cliIt)
      /\ UNCHANGED <<cliFrameCounter, cliTimeoutList, cliTimeoutNextId>>
  BY DEF ClientEndPass
<1>2. ClientDueAhead = {} /\ ClientDueAhead' = {}
  <2>1. ASSUME NEW j \in cliIt .. Len(cliTimeoutList)
        PROVE  ~(cliTimeoutList[j].Frame <= cliFrameCounter)
    <3>1. /\ cliIt \in 1 .. Len(cliTimeoutList) /\ j \in 1 .. Len(cliTimeoutList)
          /\ cliFrameCounter \in Int
          /\ ~(cliTimeoutList[cliIt].Frame <= cliFrameCounter)
      BY <1>1, ClientListFacts DEF ClientDueAt, ClientInv, ClientTypeOK
    <3>2. cliTimeoutList[cliIt].Frame \in Int /\ cliTimeoutList[j].Frame \in Int
      BY <3>1, ClientListFacts, ElementOfSeq DEF Numbered
    <3>3. j = cliIt \/ cliTimeoutList[cliIt].Frame <= cliTimeoutList[j].Frame
      BY <3>1, <3>2, ClientListFacts DEF InOrder
    <3> QED BY <3>1, <3>2, <3>3
  <2>2. ClientAhead = cliIt .. Len(cliTimeoutList)
    BY <1>1 DEF ClientAhead
  <2> QED BY <1>1, <2>1, <2>2, PersistingFacts DEF ClientDueAhead
<1>3. ClientCurrent = NoTimeout /\ ClientCurrent' = NoTimeout
  BY <1>1 DEF ClientCurrent
<1>4. ClientT!EndPass
  BY <1>1, <1>2, <1>3 DEF ClientT!EndPass, ClientCurrent
<1> QED BY <1>4 DEF ClientT!TNext

(* A frame is a tick. *)
LEMMA ClientNextFrameRefines ==
  ASSUME ClientNextFrame
  PROVE  ClientT!TNext
<1>1. ClientDueAhead = {} /\ ClientDueAhead' = {}
  BY DEF ClientNextFrame, ClientDueAhead
<1>2. ClientT!Tick
  BY <1>1 DEF ClientNextFrame, ClientT!Tick
<1> QED BY <1>2 DEF ClientT!TNext

(***************************************************************************)
(* The client's pass, which stops at the first record that is not due,     *)
(* keeps the promise of Timeouts all the same.                             *)
(***************************************************************************)
THEOREM ClientListImplementsTimeouts == ClientSpec => ClientImplementsTimeouts
<1>1. ClientInit => ClientT!TInit
  BY DEF ClientInit, ClientT!TInit, ClientDueAhead, ToSet
<1>2. ClientInv /\ ClientInv' /\ ClientAtStart /\ [ClientNext]_clientVars
        => [ClientT!TNext]_ClientT!tVars
  <2> SUFFICES ASSUME ClientInv, ClientInv', ClientAtStart, [ClientNext]_clientVars
               PROVE  ClientT!TNext \/ UNCHANGED ClientT!tVars
    OBVIOUS
  <2>1. CASE \E delay \in 0 .. FrameMod - 1 : cliSetTimeout(delay)
    BY <2>1, ClientSetRefines
  <2>2. CASE ClientBeginPass
    BY <2>2, ClientBeginPassRefines
  <2>3. CASE ClientCallRecord
    BY <2>3, ClientCallRefines
  <2>4. CASE ClientReturnFromCall
    <3>1. CASE ClientErrorUntold
      BY <3>1 DEF ClientErrorUntold, ClientT!tVars, ClientDueAhead, ClientAhead
    <3> QED BY <2>4, <3>1, ClientReturnRefines DEF ClientReturnFromCall
  <2>5. CASE ClientEndPass
    BY <2>5, ClientEndPassRefines
  <2>6. CASE ClientNextFrame
    BY <2>6, ClientNextFrameRefines
  <2>7. CASE UNCHANGED clientVars
    BY <2>7 DEF clientVars, ClientT!tVars, ClientDueAhead, ClientAhead
  <2> QED
    BY <2>1, <2>2, <2>3, <2>4, <2>5, <2>6, <2>7 DEF ClientNext, cliOnEachFrame
<1> QED
  BY <1>1, <1>2, ClientInvariant, AlwaysClientAtStart, PTL
     DEF ClientSpec, ClientImplementsTimeouts, ClientT!TSpec

-----------------------------------------------------------------------------
(***************************************************************************)
(* How far a function is from its call: the frames to come before it is    *)
(* due, one more if this frame's pass has left it behind, and then what    *)
(* the pass has still to do, with room for all that may yet be set.        *)
(***************************************************************************)
FramesFrom(c, f) == IF f <= c THEN 0 ELSE f - c

FramesAfter(c, f) == 1 + FramesFrom((c + 1) % FrameMod, f)

PassLeft(nextId, len, i, at, made) ==
  LET spare == 2 * (MaxId + 1 - nextId)
  IN  IF at = "idle" THEN IF made THEN 0 ELSE 2 * (spare + 2 * len) + 3
      ELSE 2 * (spare + len + (len + 1 - i)) + IF at = "scan" THEN 2 ELSE 1

(* A record that is not due is as far whether it was passed over or not,   *)
(* and the next frame brings nearer what was.                              *)
LEMMA FramesFacts ==
  ASSUME NEW c \in 0 .. FrameMod - 1, NEW f \in 0 .. FrameMod - 1
  PROVE  /\ f > c => FramesAfter(c, f) = FramesFrom(c, f)
         /\ FramesFrom((c + 1) % FrameMod, f) < FramesAfter(c, f)
<1> DEFINE d == (c + 1) % FrameMod
<1>1. FrameMod \in Nat \ {0}
  BY ListAssumption DEF ListAssumption
<1>2. d \in 0 .. FrameMod - 1
  BY <1>1
<1>3. c + 1 < FrameMod => d = c + 1
  BY <1>1
<1>4. FramesAfter(c, f) = 1 + FramesFrom(d, f)
  BY DEF FramesAfter
<1> HIDE DEF d
<1>5. FramesFrom(d, f) \in Nat
  BY <1>1, <1>2 DEF FramesFrom
<1>6. ASSUME f > c PROVE 1 + FramesFrom(d, f) = FramesFrom(c, f)
  <2>1. d = c + 1
    BY <1>1, <1>3, <1>6
  <2>2. FramesFrom(d, f) = f - (c + 1) \/ (f = c + 1 /\ FramesFrom(d, f) = 0)
    BY <1>1, <1>6, <2>1 DEF FramesFrom
  <2>3. FramesFrom(c, f) = f - c
    BY <1>1, <1>6 DEF FramesFrom
  <2> QED BY <1>1, <2>2, <2>3
<1>7. FramesFrom(d, f) < 1 + FramesFrom(d, f)
  BY <1>5
<1> QED BY <1>4, <1>6, <1>7 DEF d

LEMMA IntervalSize ==
  ASSUME NEW n \in Nat
  PROVE  IsFiniteSet(1 .. n) /\ Cardinality(1 .. n) = n
  BY FS_Interval

(* Both are counted in natural numbers. *)
LEMMA FramesCounted ==
  ASSUME NEW c \in 0 .. FrameMod - 1, NEW f \in 0 .. FrameMod - 1
  PROVE  FramesFrom(c, f) \in Nat /\ FramesAfter(c, f) \in Nat
<1>1. FrameMod \in Nat \ {0}
  BY ListAssumption DEF ListAssumption
<1>2. (c + 1) % FrameMod \in 0 .. FrameMod - 1
  BY <1>1
<1>3. \A d \in 0 .. FrameMod - 1 : FramesFrom(d, f) \in Nat
  BY <1>1 DEF FramesFrom
<1> QED BY <1>2, <1>3 DEF FramesAfter

LEMMA PassCounted ==
  ASSUME NEW nextId \in 1 .. MaxId + 1, NEW len \in Nat, NEW i \in 1 .. len + 1, NEW at, NEW made
  PROVE  PassLeft(nextId, len, i, at, made) \in Nat
<1>1. MaxId \in Nat
  BY ListAssumption DEF ListAssumption
<1>2. 2 * (MaxId + 1 - nextId) \in Nat /\ len + 1 - i \in Nat
  BY <1>1
<1>3. CASE at = "idle"
  BY <1>2, <1>3 DEF PassLeft
<1>4. CASE at = "scan"
  BY <1>2, <1>4 DEF PassLeft
<1>5. CASE at # "idle" /\ at # "scan"
  BY <1>2, <1>5 DEF PassLeft
<1> QED BY <1>3, <1>4, <1>5

(* Where a record stands when another was inserted or removed. *)
LEMMA PlaceInserted ==
  ASSUME NEW new, NEW list, Len(list) \in Nat, NEW x \in 1 .. Len(list) + 1, NEW r,
         Inserted(new, list, x, r), NoIdTwice(new),
         NEW p \in 1 .. Len(list), NEW q \in 1 .. Len(new), new[q].Id = list[p].Id
  PROVE  q = (IF p < x THEN p ELSE p + 1) /\ new[q] = list[p]
<1>1. Len(new) = Len(list) + 1
  BY DEF Inserted
<1>2. CASE p < x
  <2>1. p \in 1 .. x - 1 /\ p \in 1 .. Len(new)
    BY <1>1, <1>2
  <2>2. new[p] = list[p]
    BY <2>1 DEF Inserted
  <2> QED BY <1>2, <2>1, <2>2 DEF NoIdTwice
<1>3. CASE ~(p < x)
  <2>1. p + 1 \in x + 1 .. Len(list) + 1 /\ p + 1 \in 1 .. Len(new) /\ (p + 1) - 1 = p
    BY <1>1, <1>3
  <2>2. new[p + 1] = list[p]
    BY <2>1 DEF Inserted
  <2> QED BY <1>3, <2>1, <2>2 DEF NoIdTwice
<1> QED BY <1>2, <1>3

LEMMA PlaceRemoved ==
  ASSUME NEW new, NEW list, Len(list) \in Nat, NEW x \in 1 .. Len(list),
         Removed(new, list, x), NoIdTwice(list),
         NEW p \in 1 .. Len(list), NEW q \in 1 .. Len(new), new[q].Id = list[p].Id
  PROVE  p = (IF q < x THEN q ELSE q + 1) /\ new[q] = list[p]
<1>1. Len(new) = Len(list) - 1
  BY DEF Removed
<1>2. CASE q < x
  <2>1. q \in 1 .. x - 1 /\ q \in 1 .. Len(list)
    BY <1>1, <1>2
  <2>2. new[q] = list[q]
    BY <2>1 DEF Removed
  <2> QED BY <1>2, <2>1, <2>2 DEF NoIdTwice
<1>3. CASE ~(q < x)
  <2>1. q \in x .. Len(list) - 1 /\ q + 1 \in 1 .. Len(list)
    BY <1>1, <1>3
  <2>2. new[q] = list[q + 1]
    BY <2>1 DEF Removed
  <2> QED BY <1>3, <2>1, <2>2 DEF NoIdTwice
<1> QED BY <1>2, <1>3

-----------------------------------------------------------------------------
(* The server's functions come nearer to their calls. *)

Passed(p) == IF pc = "idle" THEN passMade ELSE p < it
Left(p) ==
  IF Passed(p) THEN FramesAfter(frameCounter, timeoutList[p].Frame)
  ELSE FramesFrom(frameCounter, timeoutList[p].Frame)
Work == PassLeft(timeoutNextId, Len(timeoutList), it, pc, passMade)

SameRecord(p, q) == timeoutList'[q].Id = timeoutList[p].Id

NotFurther(p, q) == Left(q)' < Left(p) \/ (Left(q)' = Left(p) /\ Work' <= Work)
Nearer(p, q) == Left(q)' < Left(p) \/ (Left(q)' = Left(p) /\ Work' < Work)

(* The frames and passes of the game bring every function nearer to its    *)
(* call, and nothing that is set, called or dropped puts one back.         *)
CallGetsNearer ==
  \A p \in 1 .. Len(timeoutList), q \in 1 .. Len(timeoutList') :
    SameRecord(p, q) /\ ~crashed' =>
      /\ NotFurther(p, q)
      /\ onEachFrame \/ NextFrame => Nearer(p, q)

(* What there is to reckon with. *)
Reckoned ==
  /\ frameCounter \in 0 .. FrameMod - 1 /\ passMade \in BOOLEAN
  /\ timeoutNextId \in 1 .. MaxId + 1
  /\ pc \in {"idle", "scan", "call"}
  /\ Len(timeoutList) \in Nat /\ it \in 1 .. Len(timeoutList) + 1
  /\ \A p \in 1 .. Len(timeoutList) : timeoutList[p].Frame \in 0 .. FrameMod - 1
  /\ NoIdTwice(timeoutList)
  /\ pc = "call" => it \in 1 .. Len(timeoutList)

LEMMA ServerReckoned == TimeoutsInv => Reckoned
<1> SUFFICES ASSUME TimeoutsInv PROVE Reckoned
  OBVIOUS
<1>1. timeoutList \in Seq(TimeoutListRec) /\ Len(timeoutList) \in Nat
  BY LenProperties DEF TimeoutsInv, TimeoutsTypeOK
<1>2. \A p \in 1 .. Len(timeoutList) : timeoutList[p].Frame \in 0 .. FrameMod - 1
  <2>1. \A p \in 1 .. Len(timeoutList) : timeoutList[p] \in TimeoutListRec
    BY <1>1, ElementOfSeq
  <2> QED BY <2>1 DEF TimeoutListRec
<1> QED
  BY <1>1, <1>2 DEF Reckoned, TimeoutsInv, TimeoutsTypeOK, ListInOrder, NoneMissed

(* The rank of every call is a pair of natural numbers: it can be lowered  *)
(* finitely often only.                                                    *)
CallsCounted == Work \in Nat /\ \A p \in 1 .. Len(timeoutList) : Left(p) \in Nat

LEMMA ServerCounted == TimeoutsInv => CallsCounted
<1> SUFFICES ASSUME Reckoned PROVE CallsCounted
  BY ServerReckoned
<1>1. Work \in Nat
  BY PassCounted DEF Work, Reckoned
<1>2. \A p \in 1 .. Len(timeoutList) : Left(p) \in Nat
  BY FramesCounted DEF Left, Reckoned
<1> QED BY <1>1, <1>2 DEF CallsCounted

LEMMA ServerCountedNext == TimeoutsInv' => CallsCounted'
BY ServerCounted, PTL

LEMMA ServerReckonedNext == TimeoutsInv' => Reckoned'
BY ServerReckoned, PTL

(* A pass is made once on its frame. *)
MadeInPass == pc # "idle" => passMade

LEMMA MadeStep == MadeInPass /\ [TimeoutsNext]_serverVars => MadeInPass'
  BY DEF MadeInPass, TimeoutsNext, onEachFrame, serverVars, timeVars, passVars, setTimeout,
         SetOutput, CallbackSetsOutput, BeginPass, SkipRecord, CallRecord,
         ReturnFromCall, ErrorUntold, OutputFound, CallFaults, RecordDone, DoneUnchanged,
         EndPass, NextFrame, mapUnloadUtil

(* A record that stays on its side of the iterator, frame and all, is as   *)
(* far as before.                                                          *)
LEMMA LeftSame ==
  ASSUME NEW p, NEW q, UNCHANGED frameCounter, timeoutList'[q] = timeoutList[p],
         Passed(q)' <=> Passed(p)
  PROVE  Left(q)' = Left(p)
  BY DEF Left

(* The list is as it was, and so are the places. *)
LEMMA PlaceSame ==
  ASSUME TimeoutsInv, UNCHANGED timeoutList,
         NEW p \in 1 .. Len(timeoutList), NEW q \in 1 .. Len(timeoutList'), SameRecord(p, q)
  PROVE  q = p /\ timeoutList'[q] = timeoutList[p]
  BY DEF SameRecord, TimeoutsInv, ListInOrder, NoIdTwice

(* A new record costs no more than the room that was kept for it. *)
LEMMA SetNearer ==
  ASSUME TimeoutsInv, TimeoutsInv', NEW delay \in 0 .. FrameMod - 1, NEW persist \in BOOLEAN,
         setTimeout(delay, persist),
         NEW p \in 1 .. Len(timeoutList), NEW q \in 1 .. Len(timeoutList'), SameRecord(p, q)
  PROVE  NotFurther(p, q)
<1>1. PICK r \in TimeoutListRec, x \in 1 .. Len(timeoutList) + 1 :
        /\ timeoutList' = InsertAt(timeoutList, x, r)
        /\ it' = IF pc = "call" /\ x <= it THEN it + 1 ELSE it
  BY SetFacts
<1>2. Reckoned /\ Reckoned'
  BY ServerReckoned, ServerReckonedNext
<1>3. Inserted(timeoutList', timeoutList, x, r)
  BY <1>1, InsertAtElements DEF TimeoutsInv, TimeoutsTypeOK
<1>4. /\ UNCHANGED <<frameCounter, passMade, pc>> /\ pc \in {"idle", "call"}
      /\ timeoutNextId' = timeoutNextId + 1
  BY DEF setTimeout, timeVars
<1>5. q = (IF p < x THEN p ELSE p + 1) /\ timeoutList'[q] = timeoutList[p]
  BY <1>2, <1>3, PlaceInserted DEF Reckoned, SameRecord
<1>6. Passed(q)' <=> Passed(p)
  <2>1. pc = "call" => (q < it' <=> p < it)
    BY <1>1, <1>2, <1>5 DEF Reckoned
  <2> QED BY <1>4, <2>1 DEF Passed
<1>7. Left(q)' = Left(p)
  BY <1>4, <1>5, <1>6, LeftSame
<1>8. Len(timeoutList') = Len(timeoutList) + 1
  BY <1>3 DEF Inserted
<1>9. Work' <= Work
  <2>1. it' >= it
    BY <1>1, <1>2 DEF Reckoned
  <2>2. it \in Int /\ it' \in Int /\ MaxId \in Int
    BY <1>2, ListAssumption DEF Reckoned, ListAssumption
  <2>3. timeoutNextId \in Int /\ Len(timeoutList) \in Int
    BY <1>2 DEF Reckoned
  <2>4. CASE pc = "call"
    <3>1. Work = 2 * (2 * (MaxId + 1 - timeoutNextId) + Len(timeoutList)
                        + (Len(timeoutList) + 1 - it)) + 1
      BY <2>4 DEF Work, PassLeft
    <3>2. Work' = 2 * (2 * (MaxId + 1 - timeoutNextId') + Len(timeoutList')
                        + (Len(timeoutList') + 1 - it')) + 1
      BY <1>4, <2>4 DEF Work, PassLeft
    <3> QED BY <1>4, <1>8, <2>1, <2>2, <2>3, <3>1, <3>2
  <2>5. CASE pc = "idle" /\ passMade
    BY <1>4, <2>5 DEF Work, PassLeft
  <2>6. CASE pc = "idle" /\ ~passMade
    BY <1>4, <1>8, <2>2, <2>3, <2>6 DEF Work, PassLeft
  <2> QED BY <1>4, <2>4, <2>5, <2>6
<1> QED BY <1>7, <1>9 DEF NotFurther

(* A call gone by is one less to make. *)
LEMMA ReturnNearer ==
  ASSUME TimeoutsInv, TimeoutsInv', ReturnFromCall, ~crashed',
         NEW p \in 1 .. Len(timeoutList), NEW q \in 1 .. Len(timeoutList'), SameRecord(p, q)
  PROVE  Nearer(p, q)
<1>1. RecordDone /\ pc = "call" /\ UNCHANGED <<frameCounter, passMade>>
  <2>1. ~ErrorUntold /\ ~OutputFound
    BY DEF ErrorUntold, OutputFound, CallFaults, crashed
  <2> QED BY <2>1 DEF ReturnFromCall, timeVars
<1>2. Reckoned /\ Reckoned'
  BY ServerReckoned, ServerReckonedNext
<1>3. /\ timeoutList' = RemoveAt(timeoutList, it) /\ it \in 1 .. Len(timeoutList)
      /\ it' = it /\ pc' = "scan" /\ UNCHANGED timeoutNextId
  BY <1>1, <1>2 DEF RecordDone, DoneUnchanged, Reckoned
<1>4. Removed(timeoutList', timeoutList, it)
  BY <1>3, RemoveAtElements DEF TimeoutsInv, TimeoutsTypeOK
<1>5. p = (IF q < it THEN q ELSE q + 1) /\ timeoutList'[q] = timeoutList[p]
  BY <1>2, <1>3, <1>4, PlaceRemoved DEF Reckoned, SameRecord
<1>6. Passed(q)' <=> Passed(p)
  <2>1. q < it' <=> p < it
    BY <1>2, <1>3, <1>5 DEF Reckoned
  <2> QED BY <1>1, <1>3, <2>1 DEF Passed
<1>7. Left(q)' = Left(p)
  BY <1>1, <1>5, <1>6, LeftSame
<1>8. Len(timeoutList') = Len(timeoutList) - 1
  BY <1>4 DEF Removed
<1>9. Work' < Work
  <2>1. MaxId \in Int
    BY ListAssumption DEF ListAssumption
  <2> QED BY <1>1, <1>2, <1>3, <1>8, <2>1 DEF Work, PassLeft, Reckoned
<1> QED BY <1>7, <1>9 DEF Nearer

(* The pass goes on over a list that stays as it is. *)
LEMMA PassNearer ==
  ASSUME TimeoutsInv, MadeInPass, BeginPass \/ SkipRecord \/ CallRecord \/ EndPass,
         NEW p \in 1 .. Len(timeoutList), NEW q \in 1 .. Len(timeoutList'), SameRecord(p, q)
  PROVE  Nearer(p, q)
<1>1. UNCHANGED <<timeoutList, timeoutNextId, frameCounter>>
  BY DEF BeginPass, SkipRecord, CallRecord, EndPass, timeVars, listVars
<1>2. q = p /\ timeoutList'[q] = timeoutList[p]
  BY <1>1, PlaceSame
<1>3. Reckoned /\ MaxId \in Int
  BY ServerReckoned, ListAssumption DEF ListAssumption
<1>4. CASE BeginPass
  <2>1. ~Passed(p) /\ ~Passed(q)'
    BY <1>2, <1>4 DEF BeginPass, Passed
  <2>2. Left(q)' = Left(p)
    BY <1>1, <1>2, <2>1, LeftSame
  <2>3. Work' < Work
    BY <1>1, <1>3, <1>4 DEF BeginPass, Work, PassLeft, Reckoned
  <2> QED BY <2>2, <2>3 DEF Nearer
<1>5. CASE SkipRecord
  <2>1. pc = "scan" /\ pc' = "scan" /\ it' = it + 1 /\ it <= Len(timeoutList)
        /\ timeoutList[it].Frame > frameCounter
    BY <1>3, <1>5 DEF SkipRecord, Reckoned
  <2>2. Left(q)' = Left(p)
    <3>1. CASE p = it
      <4>1. Passed(q)' /\ ~Passed(p)
        BY <1>2, <1>3, <2>1, <3>1 DEF Passed, Reckoned
      <4>2. /\ Left(q)' = FramesAfter(frameCounter, timeoutList[p].Frame)
            /\ Left(p) = FramesFrom(frameCounter, timeoutList[p].Frame)
        BY <1>1, <1>2, <4>1 DEF Left
      <4> QED BY <1>3, <2>1, <3>1, <4>2, FramesFacts DEF Reckoned
    <3>2. CASE p # it
      <4>1. p < it + 1 <=> p < it
        BY <1>3, <3>2 DEF Reckoned
      <4>2. Passed(q)' <=> Passed(p)
        BY <1>2, <2>1, <4>1 DEF Passed
      <4> QED BY <1>1, <1>2, <4>2, LeftSame
    <3> QED BY <3>1, <3>2
  <2>3. Work' < Work
    BY <1>1, <1>3, <2>1 DEF Work, PassLeft, Reckoned
  <2> QED BY <2>2, <2>3 DEF Nearer
<1>6. CASE CallRecord
  <2>1. pc = "scan" /\ pc' = "call" /\ it' = it
    BY <1>6 DEF CallRecord
  <2>2. Passed(q)' <=> Passed(p)
    BY <1>2, <2>1 DEF Passed
  <2>3. Work' < Work
    BY <1>1, <1>3, <2>1 DEF Work, PassLeft, Reckoned
  <2> QED BY <1>1, <1>2, <2>2, <2>3, LeftSame DEF Nearer
<1>7. CASE EndPass
  <2>1. pc = "scan" /\ pc' = "idle" /\ it > Len(timeoutList) /\ UNCHANGED passMade
    BY <1>7 DEF EndPass, timeVars
  <2>2. passMade
    BY <2>1 DEF MadeInPass
  <2>3. Passed(q)' <=> Passed(p)
    BY <1>2, <1>3, <2>1, <2>2 DEF Passed, Reckoned
  <2>4. Work' < Work
    BY <1>1, <1>3, <2>1, <2>2 DEF Work, PassLeft, Reckoned
  <2> QED BY <1>1, <1>2, <2>3, <2>4, LeftSame DEF Nearer
<1> QED BY <1>4, <1>5, <1>6, <1>7

(* Another frame. *)
LEMMA FrameNearer ==
  ASSUME TimeoutsInv, NextFrame,
         NEW p \in 1 .. Len(timeoutList), NEW q \in 1 .. Len(timeoutList'), SameRecord(p, q)
  PROVE  Nearer(p, q)
<1>1. /\ pc = "idle" /\ passMade /\ pc' = "idle" /\ passMade' = FALSE
      /\ frameCounter' = (frameCounter + 1) % FrameMod
      /\ UNCHANGED timeoutList
  BY DEF NextFrame, listVars, passVars
<1>2. q = p /\ timeoutList'[q] = timeoutList[p]
  BY <1>1, PlaceSame
<1>3. Passed(p) /\ ~Passed(q)'
  BY <1>1 DEF Passed
<1>4. /\ Left(q)' = FramesFrom((frameCounter + 1) % FrameMod, timeoutList[p].Frame)
      /\ Left(p) = FramesAfter(frameCounter, timeoutList[p].Frame)
  BY <1>1, <1>2, <1>3 DEF Left
<1>5. frameCounter \in 0 .. FrameMod - 1 /\ timeoutList[p].Frame \in 0 .. FrameMod - 1
  BY ServerReckoned DEF Reckoned
<1> QED BY <1>4, <1>5, FramesFacts DEF Nearer

(* What a change of maps drops makes way. *)
LEMMA UnloadNearer ==
  ASSUME TimeoutsInv, mapUnloadUtil,
         NEW p \in 1 .. Len(timeoutList), NEW q \in 1 .. Len(timeoutList'), SameRecord(p, q)
  PROVE  NotFurther(p, q)
<1>1. Reckoned /\ MaxId \in Int
  BY ServerReckoned, ListAssumption DEF ListAssumption
<1>2. pc = "idle" /\ UNCHANGED <<frameCounter, passMade, timeoutNextId, pc, it>>
  BY DEF mapUnloadUtil, timeVars, passVars
<1>3. /\ timeoutList' \in Seq(TimeoutListRec)
      /\ ToSet(timeoutList') \subseteq ToSet(timeoutList)
  BY UnloadFacts
<1>4. timeoutList'[q] = timeoutList[p]
  <2>1. timeoutList'[q] \in ToSet(timeoutList')
    BY <1>3, ToSetByPosition
  <2>2. timeoutList'[q] \in ToSet(timeoutList)
    BY <1>3, <2>1
  <2>3. timeoutList \in Seq(TimeoutListRec)
    BY DEF TimeoutsInv, TimeoutsTypeOK
  <2>4. PICK k \in 1 .. Len(timeoutList) : timeoutList'[q] = timeoutList[k]
    BY <2>2, <2>3, ToSetByPosition
  <2>5. k = p
    BY <1>1, <2>4 DEF SameRecord, Reckoned, NoIdTwice
  <2> QED BY <2>4, <2>5
<1>5. Len(timeoutList') \in Nat /\ Len(timeoutList') <= Len(timeoutList)
  <2> DEFINE kept == Survivors(timeoutList)
  <2>1. IsFiniteSet(1 .. Len(timeoutList)) /\ Cardinality(1 .. Len(timeoutList)) = Len(timeoutList)
    BY <1>1, IntervalSize DEF Reckoned
  <2>2. Cardinality(kept) <= Len(timeoutList) /\ Cardinality(kept) \in Nat
    <3>1. kept \in SUBSET (1 .. Len(timeoutList))
      BY DEF Survivors
    <3> HIDE DEF kept
    <3> QED BY <2>1, <3>1, FS_Subset, FS_CardinalityType
  <2>3. DOMAIN timeoutList' = 1 .. Cardinality(kept)
    BY DEF mapUnloadUtil, Positions
  <2>4. Len(timeoutList') = Cardinality(kept)
    <3> HIDE DEF kept
    <3> QED BY <1>3, <2>2, <2>3, LenProperties
  <2> QED BY <2>2, <2>4
<1>6. Passed(q)' <=> Passed(p)
  BY <1>2 DEF Passed
<1>7. Work' <= Work
  BY <1>1, <1>2, <1>5 DEF Work, PassLeft, Reckoned
<1> QED BY <1>2, <1>4, <1>6, <1>7, LeftSame DEF NotFurther

LEMMA CallNearer ==
  ASSUME TimeoutsInv, TimeoutsInv', MadeInPass, TimeoutsNext
  PROVE  CallGetsNearer
<1> SUFFICES ASSUME NEW p \in 1 .. Len(timeoutList), NEW q \in 1 .. Len(timeoutList'),
                    SameRecord(p, q), ~crashed'
             PROVE  /\ NotFurther(p, q)
                    /\ onEachFrame \/ NextFrame => Nearer(p, q)
  BY DEF CallGetsNearer
<1>1. onEachFrame \/ NextFrame => Nearer(p, q)
  BY PassNearer, ReturnNearer, FrameNearer DEF onEachFrame
<1>2. Nearer(p, q) => NotFurther(p, q)
  <2>1. Work \in Nat /\ Work' \in Nat
    BY ServerCounted, ServerCountedNext DEF CallsCounted
  <2> QED BY <2>1 DEF Nearer, NotFurther
<1>3. ASSUME NEW delay \in 0 .. FrameMod - 1, NEW persist \in BOOLEAN, setTimeout(delay, persist)
      PROVE  NotFurther(p, q)
  BY <1>3, SetNearer
<1>4. ASSUME NEW e \in SetIn, NEW o \in AnyOutput, SetOutput(e, o) \/ CallbackSetsOutput(e, o)
      PROVE  NotFurther(p, q)
  <2>1. UNCHANGED <<frameCounter, passMade, timeoutNextId, timeoutList, pc, it>>
    BY <1>4 DEF SetOutput, CallbackSetsOutput, timeVars, listVars, passVars
  <2>2. q = p /\ timeoutList'[q] = timeoutList[p]
    BY <2>1, PlaceSame
  <2>3. Passed(q)' <=> Passed(p)
    BY <2>1, <2>2 DEF Passed
  <2>4. Work' = Work /\ Work \in Nat
    <3>1. Work \in Nat
      BY ServerCounted DEF CallsCounted
    <3>2. Work' = Work
      BY <2>1 DEF Work
    <3> QED BY <3>1, <3>2
  <2> QED BY <2>1, <2>2, <2>3, <2>4, LeftSame DEF NotFurther
<1>5. ASSUME mapUnloadUtil PROVE NotFurther(p, q)
  BY <1>5, UnloadNearer
<1> QED BY <1>1, <1>2, <1>3, <1>4, <1>5 DEF TimeoutsNext

(***************************************************************************)
(* Every function set comes nearer to its call, finitely many steps away,  *)
(* with each step of a pass and with each frame, and no function that is   *)
(* set meanwhile, no change of maps and no redirection puts it back        *)
(* (onEachFrame and setTimeoutL of src/util.cpp); only the process' end    *)
(* does.                                                                   *)
(***************************************************************************)
THEOREM CallsProgress == TimeoutsSpec => []CallsCounted /\ [][CallGetsNearer]_serverVars
<1>1. TimeoutsInit => MadeInPass
  BY DEF TimeoutsInit, MadeInPass
<1>2. TimeoutsInv /\ MadeInPass /\ [TimeoutsNext]_serverVars => [CallGetsNearer]_serverVars
  BY CallNearer, StepInv
<1> QED BY <1>1, <1>2, MadeStep, InitInv, StepInv, ServerCounted, PTL DEF TimeoutsSpec

-----------------------------------------------------------------------------
(* So do the client's. *)

ClientPassed(p) == IF cliPc = "idle" THEN cliPassMade ELSE p < cliIt
ClientLeft(p) ==
  IF ClientPassed(p) THEN FramesAfter(cliFrameCounter, cliTimeoutList[p].Frame)
  ELSE FramesFrom(cliFrameCounter, cliTimeoutList[p].Frame)
ClientWork == PassLeft(cliTimeoutNextId, Len(cliTimeoutList), cliIt, cliPc, cliPassMade)

ClientSameRecord(p, q) == cliTimeoutList'[q].Id = cliTimeoutList[p].Id

ClientNotFurther(p, q) ==
  ClientLeft(q)' < ClientLeft(p) \/ (ClientLeft(q)' = ClientLeft(p) /\ ClientWork' <= ClientWork)
ClientNearer(p, q) ==
  ClientLeft(q)' < ClientLeft(p) \/ (ClientLeft(q)' = ClientLeft(p) /\ ClientWork' < ClientWork)

(* The same of the client, whose pass stops at the first record not due.   *)
ClientCallGetsNearer ==
  \A p \in 1 .. Len(cliTimeoutList), q \in 1 .. Len(cliTimeoutList') :
    ClientSameRecord(p, q) /\ ~cliCrashed' =>
      /\ ClientNotFurther(p, q)
      /\ ClientFrameGoesOn => ClientNearer(p, q)

ClientReckoned ==
  /\ cliFrameCounter \in 0 .. FrameMod - 1 /\ cliPassMade \in BOOLEAN
  /\ cliTimeoutNextId \in 1 .. MaxId + 1
  /\ cliPc \in {"idle", "scan", "call"}
  /\ Len(cliTimeoutList) \in Nat /\ cliIt \in 1 .. Len(cliTimeoutList) + 1
  /\ \A p \in 1 .. Len(cliTimeoutList) : cliTimeoutList[p].Frame \in 0 .. FrameMod - 1
  /\ NoIdTwice(cliTimeoutList)
  /\ cliPc = "call" => cliIt \in 1 .. Len(cliTimeoutList)

LEMMA ClientIsReckoned == ClientInv => ClientReckoned
<1> SUFFICES ASSUME ClientInv PROVE ClientReckoned
  OBVIOUS
<1>1. \A p \in 1 .. Len(cliTimeoutList) : cliTimeoutList[p] \in cliTimeoutListRec
  BY ClientListFacts, ElementOfSeq
<1>2. \A p \in 1 .. Len(cliTimeoutList) : cliTimeoutList[p].Frame \in 0 .. FrameMod - 1
  BY <1>1 DEF cliTimeoutListRec
<1> QED
  BY <1>2, ClientListFacts DEF ClientReckoned, ClientInv, ClientTypeOK, ClientFunctions

(* The client's ranks are pairs of natural numbers too. *)
ClientCallsCounted ==
  ClientWork \in Nat /\ \A p \in 1 .. Len(cliTimeoutList) : ClientLeft(p) \in Nat

LEMMA ClientIsCounted == ClientInv => ClientCallsCounted
<1> SUFFICES ASSUME ClientReckoned PROVE ClientCallsCounted
  BY ClientIsReckoned
<1>1. ClientWork \in Nat
  BY PassCounted DEF ClientWork, ClientReckoned
<1>2. \A p \in 1 .. Len(cliTimeoutList) : ClientLeft(p) \in Nat
  BY FramesCounted DEF ClientLeft, ClientReckoned
<1> QED BY <1>1, <1>2 DEF ClientCallsCounted

LEMMA ClientIsCountedNext == ClientInv' => ClientCallsCounted'
BY ClientIsCounted, PTL

LEMMA ClientIsReckonedNext == ClientInv' => ClientReckoned'
BY ClientIsReckoned, PTL

(* A pass is made once on its frame, and starts with the first record. *)
ClientMade == (cliPc # "idle" => cliPassMade) /\ ClientAtStart

LEMMA ClientMadeStep == ClientMade /\ [ClientNext]_clientVars => ClientMade'
  BY DEF ClientMade, ClientAtStart, ClientNext, cliOnEachFrame, clientVars, cliSetTimeout,
         ClientBeginPass, ClientCallRecord, ClientReturnFromCall, ClientErrorUntold,
         ClientRecordDone, ClientEndPass, ClientNextFrame

LEMMA ClientLeftSame ==
  ASSUME NEW p, NEW q, UNCHANGED cliFrameCounter, cliTimeoutList'[q] = cliTimeoutList[p],
         ClientPassed(q)' <=> ClientPassed(p)
  PROVE  ClientLeft(q)' = ClientLeft(p)
  BY DEF ClientLeft

LEMMA ClientPlaceSame ==
  ASSUME ClientInv, UNCHANGED cliTimeoutList,
         NEW p \in 1 .. Len(cliTimeoutList), NEW q \in 1 .. Len(cliTimeoutList'),
         ClientSameRecord(p, q)
  PROVE  q = p /\ cliTimeoutList'[q] = cliTimeoutList[p]
  BY DEF ClientSameRecord, ClientInv, ClientFunctions, NoIdTwice

(* cliSetTimeout *)
LEMMA ClientSetNearer ==
  ASSUME ClientInv, ClientInv', NEW delay \in 0 .. FrameMod - 1, cliSetTimeout(delay),
         NEW p \in 1 .. Len(cliTimeoutList), NEW q \in 1 .. Len(cliTimeoutList'),
         ClientSameRecord(p, q)
  PROVE  ClientNotFurther(p, q)
<1> DEFINE f == (cliFrameCounter + delay) % FrameMod
           r == [Id |-> cliTimeoutNextId, Frame |-> f]
<1>1. r \in cliTimeoutListRec
  <2>1. f \in 0 .. FrameMod - 1
    BY ListAssumption DEF ListAssumption, ClientInv, ClientTypeOK
  <2>2. cliTimeoutNextId \in 1 .. MaxId
    BY ListAssumption DEF ListAssumption, ClientInv, ClientTypeOK, cliSetTimeout
  <2> QED BY <2>1, <2>2 DEF cliTimeoutListRec
<1>2. PICK x \in 1 .. Len(cliTimeoutList) + 1 :
        /\ cliTimeoutList' = InsertAt(cliTimeoutList, x, r)
        /\ cliIt' = IF cliPc = "call" /\ x <= cliIt THEN cliIt + 1 ELSE cliIt
  BY DEF cliSetTimeout
<1> HIDE DEF r
<1>3. ClientReckoned /\ ClientReckoned'
  BY ClientIsReckoned, ClientIsReckonedNext
<1>4. Inserted(cliTimeoutList', cliTimeoutList, x, r)
  BY <1>1, <1>2, InsertAtElements, ClientListFacts
<1>5. /\ UNCHANGED <<cliFrameCounter, cliPassMade, cliPc>> /\ cliPc \in {"idle", "call"}
      /\ cliTimeoutNextId' = cliTimeoutNextId + 1
  BY DEF cliSetTimeout
<1>6. q = (IF p < x THEN p ELSE p + 1) /\ cliTimeoutList'[q] = cliTimeoutList[p]
  BY <1>3, <1>4, PlaceInserted DEF ClientReckoned, ClientSameRecord
<1>7. ClientPassed(q)' <=> ClientPassed(p)
  <2>1. cliPc = "call" => (q < cliIt' <=> p < cliIt)
    BY <1>2, <1>3, <1>6 DEF ClientReckoned
  <2> QED BY <1>5, <2>1 DEF ClientPassed
<1>8. ClientLeft(q)' = ClientLeft(p)
  BY <1>5, <1>6, <1>7, ClientLeftSame
<1>9. Len(cliTimeoutList') = Len(cliTimeoutList) + 1
  BY <1>4 DEF Inserted
<1>10. ClientWork' <= ClientWork
  <2>1. cliIt' >= cliIt
    BY <1>2, <1>3 DEF ClientReckoned
  <2>2. /\ cliIt \in Int /\ cliIt' \in Int /\ MaxId \in Int
        /\ cliTimeoutNextId \in Int /\ Len(cliTimeoutList) \in Int
    BY <1>3, ListAssumption DEF ClientReckoned, ListAssumption
  <2>3. CASE cliPc = "call"
    <3>1. ClientWork = 2 * (2 * (MaxId + 1 - cliTimeoutNextId) + Len(cliTimeoutList)
                              + (Len(cliTimeoutList) + 1 - cliIt)) + 1
      BY <2>3 DEF ClientWork, PassLeft
    <3>2. ClientWork' = 2 * (2 * (MaxId + 1 - cliTimeoutNextId') + Len(cliTimeoutList')
                              + (Len(cliTimeoutList') + 1 - cliIt')) + 1
      BY <1>5, <2>3 DEF ClientWork, PassLeft
    <3> QED BY <1>5, <1>9, <2>1, <2>2, <3>1, <3>2
  <2>4. CASE cliPc = "idle" /\ cliPassMade
    BY <1>5, <2>4 DEF ClientWork, PassLeft
  <2>5. CASE cliPc = "idle" /\ ~cliPassMade
    BY <1>5, <1>9, <2>2, <2>5 DEF ClientWork, PassLeft
  <2> QED BY <1>5, <2>3, <2>4, <2>5
<1> QED BY <1>8, <1>10 DEF ClientNotFurther

(* ClientReturnFromCall *)
LEMMA ClientReturnNearer ==
  ASSUME ClientInv, ClientInv', cliPc = "call", ClientRecordDone, ClientMade,
         NEW p \in 1 .. Len(cliTimeoutList), NEW q \in 1 .. Len(cliTimeoutList'),
         ClientSameRecord(p, q)
  PROVE  ClientNearer(p, q)
<1>1. /\ cliPc = "call" /\ cliPc' = "scan"
      /\ UNCHANGED <<cliFrameCounter, cliPassMade, cliTimeoutNextId, cliIt>>
      /\ cliTimeoutList' = RemoveAt(cliTimeoutList, cliIt)
  BY DEF ClientRecordDone
<1>2. ClientReckoned /\ ClientReckoned'
  BY ClientIsReckoned, ClientIsReckonedNext
<1>3. cliIt \in 1 .. Len(cliTimeoutList)
  BY <1>1, <1>2 DEF ClientReckoned
<1>4. Removed(cliTimeoutList', cliTimeoutList, cliIt)
  BY <1>1, <1>3, RemoveAtElements, ClientListFacts
<1>5. p = (IF q < cliIt THEN q ELSE q + 1) /\ cliTimeoutList'[q] = cliTimeoutList[p]
  BY <1>2, <1>3, <1>4, PlaceRemoved DEF ClientReckoned, ClientSameRecord
<1>6. ClientPassed(q)' <=> ClientPassed(p)
  <2>1. q < cliIt' <=> p < cliIt
    BY <1>1, <1>2, <1>5 DEF ClientReckoned
  <2> QED BY <1>1, <2>1 DEF ClientPassed
<1>7. ClientLeft(q)' = ClientLeft(p)
  BY <1>1, <1>5, <1>6, ClientLeftSame
<1>8. Len(cliTimeoutList') = Len(cliTimeoutList) - 1
  BY <1>4 DEF Removed
<1>9. ClientWork' < ClientWork
  <2>1. MaxId \in Int
    BY ListAssumption DEF ListAssumption
  <2> QED BY <1>1, <1>2, <1>8, <2>1 DEF ClientWork, PassLeft, ClientReckoned
<1> QED BY <1>7, <1>9 DEF ClientNearer

(* ClientBeginPass, ClientCallRecord, ClientEndPass *)
LEMMA ClientPassNearer ==
  ASSUME ClientInv, ClientMade, ClientBeginPass \/ ClientCallRecord \/ ClientEndPass,
         NEW p \in 1 .. Len(cliTimeoutList), NEW q \in 1 .. Len(cliTimeoutList'),
         ClientSameRecord(p, q)
  PROVE  ClientNearer(p, q)
<1>1. UNCHANGED <<cliTimeoutList, cliTimeoutNextId, cliFrameCounter>>
  BY DEF ClientBeginPass, ClientCallRecord, ClientEndPass
<1>2. q = p /\ cliTimeoutList'[q] = cliTimeoutList[p]
  BY <1>1, ClientPlaceSame
<1>3. ClientReckoned /\ MaxId \in Int
  BY ClientIsReckoned, ListAssumption DEF ListAssumption
<1>4. CASE ClientBeginPass
  <2>1. cliPc = "idle" /\ ~cliPassMade /\ cliPc' = "scan" /\ cliIt' = 1 /\ cliIt = 1
    BY <1>4 DEF ClientBeginPass, ClientMade, ClientAtStart
  <2>2. ~ClientPassed(p) /\ ~ClientPassed(q)'
    BY <1>2, <2>1 DEF ClientPassed
  <2>3. ClientLeft(q)' = ClientLeft(p)
    BY <1>1, <1>2, <2>2, ClientLeftSame
  <2>4. ClientWork' < ClientWork
    BY <1>1, <1>3, <2>1 DEF ClientWork, PassLeft, ClientReckoned
  <2> QED BY <2>3, <2>4 DEF ClientNearer
<1>5. CASE ClientCallRecord
  <2>1. cliPc = "scan" /\ cliPc' = "call" /\ cliIt' = cliIt
    BY <1>5 DEF ClientCallRecord
  <2>2. ClientPassed(q)' <=> ClientPassed(p)
    BY <1>2, <2>1 DEF ClientPassed
  <2>3. ClientWork' < ClientWork
    BY <1>1, <1>3, <2>1 DEF ClientWork, PassLeft, ClientReckoned
  <2> QED BY <1>1, <1>2, <2>2, <2>3, ClientLeftSame DEF ClientNearer
<1>6. CASE ClientEndPass
  <2>1. cliPc = "scan" /\ cliPc' = "idle" /\ ~ClientDueAt(cliIt) /\ UNCHANGED cliPassMade
    BY <1>6 DEF ClientEndPass
  <2>2. cliPassMade
    BY <2>1 DEF ClientMade
  <2>3. ClientPassed(q)'
    BY <2>1, <2>2 DEF ClientPassed
  <2>4. ClientLeft(q)' = FramesAfter(cliFrameCounter, cliTimeoutList[p].Frame)
    BY <1>1, <1>2, <2>3 DEF ClientLeft
  <2>5. ClientLeft(q)' = ClientLeft(p)
    <3>1. CASE p < cliIt
      BY <1>1, <1>2, <2>1, <2>3, <3>1, ClientLeftSame DEF ClientPassed
    <3>2. CASE ~(p < cliIt)
      <4>1. cliIt \in 1 .. Len(cliTimeoutList) /\ (cliIt = p \/ cliIt < p)
        BY <1>3, <3>2 DEF ClientReckoned
      <4>2. /\ cliTimeoutList[cliIt].Frame \in Int /\ cliTimeoutList[p].Frame \in Int
            /\ cliFrameCounter \in Int
        BY <1>3, <4>1 DEF ClientReckoned
      <4>3. cliTimeoutList[cliIt].Frame > cliFrameCounter
        BY <1>3, <2>1, <4>1, <4>2 DEF ClientDueAt, ClientReckoned
      <4>4. cliTimeoutList[cliIt].Frame <= cliTimeoutList[p].Frame
        BY <4>1, <4>2, ClientListFacts DEF InOrder
      <4>5. cliTimeoutList[p].Frame > cliFrameCounter
        BY <4>2, <4>3, <4>4
      <4>6. ClientLeft(p) = FramesFrom(cliFrameCounter, cliTimeoutList[p].Frame)
        BY <2>1, <3>2 DEF ClientLeft, ClientPassed
      <4> QED BY <1>3, <2>4, <4>5, <4>6, FramesFacts DEF ClientReckoned
    <3> QED BY <3>1, <3>2
  <2>6. ClientWork' < ClientWork
    BY <1>1, <1>3, <2>1, <2>2 DEF ClientWork, PassLeft, ClientReckoned
  <2> QED BY <2>5, <2>6 DEF ClientNearer
<1> QED BY <1>4, <1>5, <1>6

(* ClientNextFrame *)
LEMMA ClientFrameNearer ==
  ASSUME ClientInv, ClientNextFrame,
         NEW p \in 1 .. Len(cliTimeoutList), NEW q \in 1 .. Len(cliTimeoutList'),
         ClientSameRecord(p, q)
  PROVE  ClientNearer(p, q)
<1>1. /\ cliPc = "idle" /\ cliPassMade /\ cliPc' = "idle" /\ cliPassMade' = FALSE
      /\ cliFrameCounter' = (cliFrameCounter + 1) % FrameMod
      /\ UNCHANGED cliTimeoutList
  BY DEF ClientNextFrame
<1>2. q = p /\ cliTimeoutList'[q] = cliTimeoutList[p]
  BY <1>1, ClientPlaceSame
<1>3. ClientPassed(p) /\ ~ClientPassed(q)'
  BY <1>1 DEF ClientPassed
<1>4. /\ ClientLeft(q)' = FramesFrom((cliFrameCounter + 1) % FrameMod, cliTimeoutList[p].Frame)
      /\ ClientLeft(p) = FramesAfter(cliFrameCounter, cliTimeoutList[p].Frame)
  BY <1>1, <1>2, <1>3 DEF ClientLeft
<1>5. cliFrameCounter \in 0 .. FrameMod - 1 /\ cliTimeoutList[p].Frame \in 0 .. FrameMod - 1
  BY ClientIsReckoned DEF ClientReckoned
<1> QED BY <1>4, <1>5, FramesFacts DEF ClientNearer

LEMMA ClientCallNearer ==
  ASSUME ClientInv, ClientInv', ClientMade, ClientNext
  PROVE  ClientCallGetsNearer
<1> SUFFICES ASSUME NEW p \in 1 .. Len(cliTimeoutList), NEW q \in 1 .. Len(cliTimeoutList'),
                    ClientSameRecord(p, q), ~cliCrashed'
             PROVE  /\ ClientNotFurther(p, q)
                    /\ ClientFrameGoesOn => ClientNearer(p, q)
  BY DEF ClientCallGetsNearer
<1>1. ClientFrameGoesOn => ClientNearer(p, q)
  BY ClientPassNearer, ClientReturnNearer, ClientFrameNearer
     DEF ClientFrameGoesOn, cliOnEachFrame, ClientReturnFromCall, ClientErrorUntold
<1>2. ClientNearer(p, q) => ClientNotFurther(p, q)
  <2>1. ClientWork \in Nat
    BY ClientIsCounted DEF ClientCallsCounted
  <2>2. ClientWork' \in Nat
    BY ClientIsCountedNext DEF ClientCallsCounted
  <2> QED BY <2>1, <2>2 DEF ClientNearer, ClientNotFurther
<1>3. ASSUME NEW delay \in 0 .. FrameMod - 1, cliSetTimeout(delay) PROVE ClientNotFurther(p, q)
  BY <1>3, ClientSetNearer
<1>4. ASSUME cliOnEachFrame \/ ClientNextFrame PROVE ClientFrameGoesOn
  BY <1>4 DEF ClientFrameGoesOn, ClientNext
<1>5. ASSUME ClientFrameGoesOn PROVE ClientNotFurther(p, q)
  BY <1>1, <1>2, <1>5
<1>6. ClientNotFurther(p, q)
  BY <1>3, <1>4, <1>5 DEF ClientNext
<1> QED BY <1>1, <1>6

(***************************************************************************)
(* On the client too every function set comes nearer to its call with each *)
(* step of a pass and each frame, although the pass stops at the first     *)
(* record that is not due (cliOnEachFrame of src/cliUtil.cpp): the order   *)
(* of the list and the place of the iterator leave nothing due behind it.  *)
(***************************************************************************)
THEOREM ClientCallsProgress ==
  ClientSpec => []ClientCallsCounted /\ [][ClientCallGetsNearer]_clientVars
<1>1. ClientInit => ClientMade
  BY DEF ClientInit, ClientMade, ClientAtStart
<1>2. ClientInv /\ ClientInv' /\ ClientMade /\ [ClientNext]_clientVars
        => [ClientCallGetsNearer]_clientVars
  BY ClientCallNearer
<1> QED BY <1>1, <1>2, ClientMadeStep, ClientInvariant, ClientIsCounted, PTL DEF ClientSpec
=============================================================================
