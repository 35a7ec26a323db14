--------------------------- MODULE AttestationProofs ---------------------------
(***************************************************************************)
(* What verify_chain accepts, for every log.                               *)
(*                                                                         *)
(* sorted_by_seq is a permutation of the log in the order of its numbers,  *)
(* and verify_chain accepts a log exactly if its records, in that order,   *)
(* are signed and each names the one before by number and digest.          *)
(***************************************************************************)
EXTENDS Attestation, SequencesExt, SequenceTheorems, FiniteSetTheorems, TLAPS

\* A sequence of records that are numbered.
IsLog(s) == s \in Seq(ToSet(s)) /\ \A i \in DOMAIN s : s[i].seq \in Nat

-----------------------------------------------------------------------------
(* Sequences and numbers *)

\* Every set of numbers has a least one: induction, for a set that is named.
LEMMA LeastElement ==
  ASSUME NEW T, T \subseteq Nat, T # {}
  PROVE  \E m \in T : \A k \in T : m <= k
<1> DEFINE R == OpToRel(<, Nat)
<1>1. IsWellFoundedOn(R, Nat)
  BY NatLessThanWellFounded
<1>2. R = {ss \in Nat \X Nat : ss[1] < ss[2]}
  BY DEF OpToRel
<1> HIDE DEF R
<1>3. PICK m \in T : \A k \in T : << k, m >> \notin R
  BY <1>1, WFMin
<1>4. ASSUME NEW k \in T PROVE m <= k
  <2>1. << k, m >> \in Nat \X Nat
    OBVIOUS
  <2>2. ~(k < m)
    BY <1>2, <1>3, <2>1
  <2> QED  BY <2>2
<1> QED  BY <1>4

\* What holds at 1 and goes from each place to the next holds up to n.
LEMMA UpTo ==
  ASSUME NEW n \in Nat, NEW G, 1 <= n => 1 \in G,
         \A k \in 1 .. n : k \in G /\ k + 1 <= n => k + 1 \in G
  PROVE  \A k \in 1 .. n : k \in G
<1> SUFFICES ASSUME (1 .. n) \ G # {} PROVE FALSE
  OBVIOUS
<1> DEFINE T == (1 .. n) \ G
<1>0. T \subseteq Nat /\ T # {}
  OBVIOUS
<1> HIDE DEF T
<1>1. PICK m \in T : \A k \in T : m <= k
  BY <1>0, LeastElement
<1> USE DEF T
<1>2. m # 1 /\ m \in 1 .. n
  BY <1>1
<1>3. m - 1 \in 1 .. n /\ m - 1 + 1 = m
  BY <1>2
<1>4. m - 1 \in G
  BY <1>1, <1>3
<1> QED  BY <1>1, <1>2, <1>3, <1>4

\* A sequence over S is a sequence over its own range.
LEMMA SequenceOf ==
  ASSUME NEW S, NEW s \in Seq(S)
  PROVE  /\ s \in Seq(ToSet(s))
         /\ Len(s) \in Nat
         /\ DOMAIN s = 1 .. Len(s)
<1>1. Len(s) \in Nat /\ DOMAIN s = 1 .. Len(s)
  OBVIOUS
<1>2. s \in [1 .. Len(s) -> ToSet(s)]
  <2>1. s = [i \in 1 .. Len(s) |-> s[i]]
    OBVIOUS
  <2>2. \A i \in 1 .. Len(s) : s[i] \in ToSet(s)
    BY <1>1 DEF ToSet
  <2> QED  BY <2>1, <2>2
<1> QED  BY <1>1, <1>2, SeqDef

\* A sequence given by its members.
LEMMA SequenceFrom ==
  ASSUME NEW n \in Nat, NEW f, DOMAIN f = 1 .. n, f = [i \in 1 .. n |-> f[i]]
  PROVE  f \in Seq(ToSet(f)) /\ Len(f) = n
<1>1. f \in [1 .. n -> ToSet(f)]
  BY DEF ToSet
<1>2. f \in Seq(ToSet(f))
  BY <1>1, SeqDef
<1> QED  BY <1>2

\* Two sequences with the same members are the same.
LEMMA SameSequence ==
  ASSUME NEW s, s \in Seq(ToSet(s)), NEW t, t \in Seq(ToSet(t)),
         Len(s) = Len(t), \A i \in 1 .. Len(s) : s[i] = t[i]
  PROVE  s = t
<1> DEFINE S == ToSet(s) \union ToSet(t)
<1>1. s \in Seq(S) /\ t \in Seq(S)
  OBVIOUS
<1> HIDE DEF S
<1> QED  BY <1>1, SeqEqual

\* One more record at the end, the others kept.
LEMMA AppendLine ==
  ASSUME NEW s, s \in Seq(ToSet(s)), NEW x
  PROVE  /\ Append(s, x) \in Seq(ToSet(Append(s, x)))
         /\ Len(Append(s, x)) = Len(s) + 1
         /\ \A i \in 1 .. Len(s) : Append(s, x)[i] = s[i]
         /\ Append(s, x)[Len(s) + 1] = x
         /\ ToSet(Append(s, x)) = ToSet(s) \union {x}
<1> DEFINE S == ToSet(s) \union {x}
           t == Append(s, x)
<1>1. s \in Seq(S) /\ x \in S
  OBVIOUS
<1>2. t \in Seq(S)
  BY <1>1
<1>3. t \in Seq(ToSet(t))
  <2> HIDE DEF S, t
  <2> QED  BY <1>2, SequenceOf
<1> HIDE DEF S
<1>4. /\ Len(t) = Len(s) + 1 /\ t[Len(s) + 1] = x
      /\ \A i \in 1 .. Len(s) : t[i] = s[i]
  BY <1>1
<1>5. /\ DOMAIN s = 1 .. Len(s) /\ Len(s) \in Nat
      /\ DOMAIN t = 1 .. Len(t)
  BY <1>1, <1>2, SequenceOf
<1> HIDE DEF t
<1>6. ToSet(t) = ToSet(s) \union {x}
  <2>1. \A i \in DOMAIN s : i \in DOMAIN t /\ t[i] = s[i]
    BY <1>4, <1>5
  <2>2. \A i \in DOMAIN t : (i \in DOMAIN s /\ t[i] = s[i]) \/ t[i] = x
    BY <1>4, <1>5
  <2>3. Len(s) + 1 \in DOMAIN t
    BY <1>4, <1>5
  <2> QED  BY <1>4, <2>1, <2>2, <2>3 DEF ToSet
<1> QED  BY <1>3, <1>4, <1>6 DEF t

\* Another last record.
LEMMA ReplaceLastLine ==
  ASSUME NEW s, s \in Seq(ToSet(s)), s # << >>, NEW x
  PROVE  LET t == [s EXCEPT ![Len(s)] = x]
         IN  /\ t \in Seq(ToSet(t))
             /\ Len(t) = Len(s)
             /\ \A i \in 1 .. Len(s) - 1 : t[i] = s[i]
             /\ t[Len(s)] = x
<1> DEFINE S == ToSet(s) \union {x}
           t == [s EXCEPT ![Len(s)] = x]
<1>1. s \in Seq(S) /\ x \in S
  OBVIOUS
<1> HIDE DEF S
<1>2. Len(s) \in 1 .. Len(s)
  BY <1>1, EmptySeq
<1>3. /\ t \in Seq(S) /\ Len(t) = Len(s)
      /\ \A j \in 1 .. Len(s) : t[j] = IF j = Len(s) THEN x ELSE s[j]
  BY <1>1, <1>2, ExceptSeq
<1>4. t \in Seq(ToSet(t))
  BY <1>3, SequenceOf
<1> QED  BY <1>2, <1>3, <1>4

\* The first k records.
LEMMA KeepLines ==
  ASSUME NEW s, s \in Seq(ToSet(s)), NEW k \in 0 .. Len(s)
  PROVE  /\ SubSeq(s, 1, k) \in Seq(ToSet(SubSeq(s, 1, k)))
         /\ Len(SubSeq(s, 1, k)) = k
         /\ \A i \in 1 .. k : SubSeq(s, 1, k)[i] = s[i]
<1>1. SubSeq(s, 1, k) \in Seq(ToSet(s))
  OBVIOUS
<1>2. SubSeq(s, 1, k) \in Seq(ToSet(SubSeq(s, 1, k)))
  BY <1>1, SequenceOf
<1> QED  BY <1>2

-----------------------------------------------------------------------------
(* sorted_by_seq *)

\* Line j does not come after line i.
NotAfter(s, j, i) ==
  \/ s[j].seq < s[i].seq
  \/ s[j].seq = s[i].seq /\ j <= i

UpToLine(s, i) == {j \in DOMAIN s : NotAfter(s, j, i)}

\* Of two lines one comes before the other, and has the lower rank.
LEMMA RankOrders ==
  ASSUME NEW s, IsLog(s), NEW i \in DOMAIN s, NEW j \in DOMAIN s
  PROVE  /\ Rank(s, i) \in 1 .. Len(s)
         /\ NotAfter(s, j, i) => Rank(s, j) <= Rank(s, i)
         /\ Rank(s, i) = Rank(s, j) => i = j
         /\ Rank(s, j) <= Rank(s, i) => NotAfter(s, j, i)
<1>1. /\ DOMAIN s = 1 .. Len(s) /\ Len(s) \in Nat
      /\ \A k \in DOMAIN s : s[k].seq \in Nat /\ k \in Nat
  BY SequenceOf DEF IsLog
<1>2. IsFiniteSet(DOMAIN s) /\ Cardinality(DOMAIN s) = Len(s)
  <2>1. 1 \in Int /\ Len(s) \in Int /\ (1 > Len(s) <=> Len(s) = 0)
    BY <1>1
  <2>2. /\ IsFiniteSet(1 .. Len(s))
        /\ Cardinality(1 .. Len(s)) = IF 1 > Len(s) THEN 0 ELSE Len(s) - 1 + 1
    BY <2>1, FS_Interval
  <2> QED  BY <1>1, <2>1, <2>2
<1>3. ASSUME NEW k \in DOMAIN s
      PROVE  /\ Rank(s, k) = Cardinality(UpToLine(s, k))
             /\ UpToLine(s, k) \in SUBSET (DOMAIN s)
             /\ IsFiniteSet(UpToLine(s, k)) /\ k \in UpToLine(s, k)
             /\ Rank(s, k) \in 1 .. Len(s)
  <2>1. Rank(s, k) = Cardinality(UpToLine(s, k)) /\ UpToLine(s, k) \in SUBSET (DOMAIN s)
    BY Zenon DEF Rank, UpToLine, NotAfter
  <2>2. k \in UpToLine(s, k)
    BY <1>1 DEF UpToLine, NotAfter
  <2>3. /\ IsFiniteSet(UpToLine(s, k))
        /\ Cardinality(UpToLine(s, k)) <= Len(s)
    BY <1>2, <2>1, FS_Subset
  <2>4. Cardinality(UpToLine(s, k)) \in Nat /\ Cardinality(UpToLine(s, k)) # 0
    BY <2>2, <2>3, FS_CardinalityType, FS_EmptySet
  <2> QED  BY <1>1, <2>1, <2>2, <2>3, <2>4
<1>4. ASSUME NEW k \in DOMAIN s, NEW l \in DOMAIN s, NotAfter(s, k, l)
      PROVE  /\ Rank(s, k) <= Rank(s, l)
             /\ Rank(s, k) = Rank(s, l) => k = l
  <2>1. UpToLine(s, k) \in SUBSET UpToLine(s, l)
    BY <1>1, <1>4 DEF UpToLine, NotAfter
  <2>2. /\ Rank(s, k) <= Rank(s, l)
        /\ Rank(s, k) = Rank(s, l) => UpToLine(s, k) = UpToLine(s, l)
    BY <1>3, <2>1, FS_Subset
  <2>3. UpToLine(s, k) = UpToLine(s, l) => NotAfter(s, l, k)
    BY <1>3 DEF UpToLine
  <2>4. NotAfter(s, l, k) => k = l
    BY <1>1, <1>4 DEF NotAfter
  <2> QED  BY <2>2, <2>3, <2>4
<1>5. NotAfter(s, i, j) \/ NotAfter(s, j, i)
  <2>1. s[i].seq \in Nat /\ s[j].seq \in Nat /\ i \in Nat /\ j \in Nat
    BY <1>1
  <2> QED  BY <2>1 DEF NotAfter
<1>6. NotAfter(s, j, j)
  BY <1>1 DEF NotAfter
<1> QED  BY <1>3, <1>4, <1>5, <1>6

\* The line that sorted_by_seq puts at place k.
Place(s, k) == CHOOSE i \in DOMAIN s : Rank(s, i) = k

\* Every place gets one line, and every line one place.
LEMMA PlacesOfLines ==
  ASSUME NEW s, IsLog(s)
  PROVE  /\ \A k \in 1 .. Len(s) : Place(s, k) \in DOMAIN s /\ Rank(s, Place(s, k)) = k
         /\ \A i \in DOMAIN s : Place(s, Rank(s, i)) = i
<1> DEFINE r == [i \in DOMAIN s |-> Rank(s, i)]
<1>1. DOMAIN s = 1 .. Len(s) /\ Len(s) \in Nat
  BY SequenceOf DEF IsLog
<1>2. r \in Injection(1 .. Len(s), 1 .. Len(s))
  BY <1>1, RankOrders DEF Injection, IsInjective
<1>3. r \in Surjection(1 .. Len(s), 1 .. Len(s))
  BY <1>1, <1>2, FS_Interval, FS_Injection
<1>4. ASSUME NEW k \in 1 .. Len(s) PROVE \E i \in DOMAIN s : Rank(s, i) = k
  BY <1>1, <1>3 DEF Surjection
<1>5. \A k \in 1 .. Len(s) : Place(s, k) \in DOMAIN s /\ Rank(s, Place(s, k)) = k
  BY <1>4 DEF Place
<1> QED  BY <1>5, RankOrders

\* The log in the order of its numbers: its lines, each at its place.
LEMMA SortedLog ==
  ASSUME NEW s, IsLog(s), NEW o, o = sorted_by_seq(s)
  PROVE  /\ Len(s) \in Nat /\ DOMAIN s = 1 .. Len(s)
         /\ DOMAIN o = 1 .. Len(s) /\ o \in Seq(ToSet(o)) /\ Len(o) = Len(s)
         /\ \A k \in 1 .. Len(s) : o[k] = s[Place(s, k)] /\ o[k].seq \in Nat
         /\ \A i \in DOMAIN s : Rank(s, i) \in 1 .. Len(s) /\ o[Rank(s, i)] = s[i]
         /\ \A k, l \in 1 .. Len(s) : k <= l => o[k].seq <= o[l].seq
<1>1. /\ Len(s) \in Nat /\ DOMAIN s = 1 .. Len(s)
      /\ \A k \in DOMAIN s : s[k].seq \in Nat
  BY SequenceOf DEF IsLog
<1>2. o = [k \in 1 .. Len(s) |-> s[Place(s, k)]]
  BY <1>1, Zenon DEF sorted_by_seq, Place
<1>3. o \in Seq(ToSet(o)) /\ Len(o) = Len(s) /\ DOMAIN o = 1 .. Len(s)
  <2>1. DOMAIN o = 1 .. Len(s) /\ o = [k \in 1 .. Len(s) |-> o[k]]
    BY <1>2, Zenon
  <2> QED  BY <1>1, <2>1, SequenceFrom
<1>4. \A k \in 1 .. Len(s) : o[k] = s[Place(s, k)]
  BY <1>2
<1>5. /\ \A k \in 1 .. Len(s) : Place(s, k) \in DOMAIN s /\ Rank(s, Place(s, k)) = k
      /\ \A i \in DOMAIN s : Place(s, Rank(s, i)) = i
  BY PlacesOfLines
<1>6. \A i \in DOMAIN s : Rank(s, i) \in 1 .. Len(s)
  BY RankOrders
<1>7. ASSUME NEW k \in 1 .. Len(s), NEW l \in 1 .. Len(s), k <= l
      PROVE  o[k].seq <= o[l].seq
  <2>1. NotAfter(s, Place(s, k), Place(s, l))
    BY <1>5, <1>7, RankOrders
  <2>2. s[Place(s, k)].seq <= s[Place(s, l)].seq
    BY <1>1, <1>5, <2>1 DEF NotAfter
  <2> QED  BY <1>4, <2>2
<1> QED  BY <1>1, <1>3, <1>4, <1>5, <1>6, <1>7

-----------------------------------------------------------------------------
(* verify_chain *)

\* Every record of the ordered log o names the one before it.
Linked(o) ==
  \A i \in 1 .. Len(o) - 1 :
    /\ o[i + 1].seq = o[i].seq + 1
    /\ o[i + 1].prev_hash = record_content_hash(o[i])

Signed(s) == \A i \in DOMAIN s : verify_record(s[i]) = "valid"

\* verify_chain accepts a log that is not empty exactly if its records are
\* signed and, in the order of their numbers, start with no predecessor and
\* each name the one before by number and digest.
THEOREM IntactMeansLinked ==
  ASSUME NEW s, IsLog(s), s # << >>, NEW o, o = sorted_by_seq(s)
  PROVE  verify_chain(s) = "intact"
           <=> /\ Signed(s)
               /\ o[1].prev_hash = Unset
               /\ Linked(o)
<1>1. LinksVerdict(o) = "intact" <=> Linked(o)
  BY DEF LinksVerdict, Linked, SequenceGap, LinkBroken
<1>2. Signed(s) <=> \A k \in DOMAIN o : verify_record(o[k]) = "valid"
  <2>1. /\ DOMAIN o = 1 .. Len(s)
        /\ \A k \in 1 .. Len(s) : o[k] = s[Place(s, k)]
        /\ \A i \in DOMAIN s : Rank(s, i) \in 1 .. Len(s) /\ o[Rank(s, i)] = s[i]
    BY SortedLog
  <2>2. \A k \in 1 .. Len(s) : Place(s, k) \in DOMAIN s
    BY PlacesOfLines
  <2> QED  BY <2>1, <2>2 DEF Signed
<1> QED  BY <1>1, <1>2 DEF verify_chain

\* In a linked log numbers count the places.
LEMMA LinkedCounts ==
  ASSUME NEW o, NEW n \in Nat, Len(o) = n, \A k \in 1 .. n : o[k].seq \in Nat, Linked(o)
  PROVE  \A k \in 1 .. n : o[k].seq = o[1].seq + k - 1
<1> DEFINE G == {k \in 1 .. n : o[k].seq = o[1].seq + k - 1}
<1>1. 1 <= n => 1 \in G
  OBVIOUS
<1>2. ASSUME NEW k \in 1 .. n, k \in G, k + 1 <= n PROVE k + 1 \in G
  <2>1. k \in 1 .. Len(o) - 1 /\ k + 1 \in 1 .. n
    BY <1>2
  <2>2. o[k + 1].seq = o[k].seq + 1
    BY <2>1 DEF Linked
  <2> QED  BY <1>2, <2>1, <2>2
<1> HIDE DEF G
<1>3. \A k \in 1 .. n : k \in G
  BY <1>1, <1>2, UpTo
<1> QED  BY <1>3 DEF G

\* Record i starts the log, or names a record of the log by number and digest.
HasParent(s, i) ==
  \/ s[i].seq = 1 /\ s[i].prev_hash = Unset
  \/ \E j \in DOMAIN s : /\ s[i].seq = s[j].seq + 1
                         /\ s[i].prev_hash = record_content_hash(s[j])

\* verify_chain on a tree of digests: it finds every fork and every record
\* that is not signed, and nothing else.
THEOREM IntactTree ==
  ASSUME NEW s, IsLog(s),
         \A i \in DOMAIN s : s[i].seq # 0 /\ HasParent(s, i)
  PROVE  verify_chain(s) = "intact"
           <=> /\ Signed(s)
               /\ \A i, j \in DOMAIN s : s[i].seq = s[j].seq => i = j
<1> DEFINE o == sorted_by_seq(s)
           n == Len(s)
<1>1. /\ n \in Nat /\ DOMAIN s = 1 .. n /\ Len(o) = n
      /\ \A k \in 1 .. n : o[k] = s[Place(s, k)] /\ o[k].seq \in Nat
      /\ \A i \in DOMAIN s : Rank(s, i) \in 1 .. n /\ o[Rank(s, i)] = s[i]
      /\ \A k, l \in 1 .. n : k <= l => o[k].seq <= o[l].seq
  BY SortedLog
<1>2. /\ \A k \in 1 .. n : Place(s, k) \in DOMAIN s /\ Rank(s, Place(s, k)) = k
      /\ \A i \in DOMAIN s : Place(s, Rank(s, i)) = i
  BY PlacesOfLines
<1>3. CASE s = << >>
  BY <1>3 DEF verify_chain, Signed
<1>4. CASE s # << >>
  <2>1. n >= 1
    BY <1>1, <1>4, EmptySeq DEF IsLog
  <2>2. verify_chain(s) = "intact"
          <=> Signed(s) /\ o[1].prev_hash = Unset /\ Linked(o)
    BY <1>4, IntactMeansLinked
  <2> HIDE DEF o, n
  <2>3. ASSUME Linked(o), NEW i \in DOMAIN s, NEW j \in DOMAIN s, s[i].seq = s[j].seq
        PROVE  i = j
    <3>1. \A k \in 1 .. n : o[k].seq = o[1].seq + k - 1
      BY <1>1, <2>3, LinkedCounts
    <3>2. o[Rank(s, i)].seq = o[Rank(s, j)].seq
      BY <1>1, <2>3
    <3>3. /\ Rank(s, i) \in 1 .. n /\ Rank(s, j) \in 1 .. n
          /\ 1 \in 1 .. n /\ o[1].seq \in Nat
      BY <1>1, <2>1
    <3>4. Rank(s, i) = Rank(s, j)
      BY <3>1, <3>2, <3>3
    <3> QED  BY <1>2, <3>4
  <2>4. ASSUME \A i, j \in DOMAIN s : s[i].seq = s[j].seq => i = j
        PROVE  o[1].prev_hash = Unset /\ Linked(o)
    <3>1. ASSUME NEW k \in 1 .. n, NEW l \in 1 .. n, o[k].seq = o[l].seq PROVE k = l
      <4>1. Place(s, k) \in DOMAIN s /\ Place(s, l) \in DOMAIN s
        BY <1>2
      <4>2. s[Place(s, k)].seq = s[Place(s, l)].seq
        BY <1>1, <3>1
      <4>3. Place(s, k) = Place(s, l)
        BY <2>4, <4>1, <4>2
      <4> QED  BY <1>2, <4>3
    <3>2. ASSUME NEW k \in 1 .. n
          PROVE  \/ o[k].seq = 1 /\ o[k].prev_hash = Unset
                 \/ \E l \in 1 .. n : /\ o[k].seq = o[l].seq + 1
                                      /\ o[k].prev_hash = record_content_hash(o[l])
      <4>1. HasParent(s, Place(s, k)) /\ o[k] = s[Place(s, k)]
        BY <1>1, <1>2
      <4> QED  BY <1>1, <4>1 DEF HasParent
    <3>3. o[1].prev_hash = Unset
      <4>1. \A l \in 1 .. n : o[1].seq <= o[l].seq /\ o[l].seq \in Nat
        BY <1>1, <2>1
      <4>2. ~\E l \in 1 .. n : o[1].seq = o[l].seq + 1
        BY <2>1, <4>1
      <4>3. 1 \in 1 .. n
        BY <1>1, <2>1
      <4> QED  BY <3>2, <4>2, <4>3
    <3>4. ASSUME NEW k \in 1 .. Len(o) - 1
          PROVE  /\ o[k + 1].seq = o[k].seq + 1
                 /\ o[k + 1].prev_hash = record_content_hash(o[k])
      <4>1. k \in 1 .. n /\ k + 1 \in 1 .. n /\ k # k + 1
        BY <1>1
      <4>2. o[k].seq < o[k + 1].seq
        BY <1>1, <3>1, <4>1
      <4>3. o[k].seq # 0
        BY <1>1, <1>2, <4>1
      <4>4. PICK l \in 1 .. n : /\ o[k + 1].seq = o[l].seq + 1
                                /\ o[k + 1].prev_hash = record_content_hash(o[l])
        BY <1>1, <3>2, <4>1, <4>2, <4>3
      <4>5. l <= k
        BY <1>1, <4>1, <4>4
      <4>6. o[l].seq = o[k].seq
        BY <1>1, <4>1, <4>2, <4>4, <4>5
      <4> QED  BY <3>1, <4>1, <4>4, <4>6
    <3> QED  BY <3>3, <3>4 DEF Linked
  <2> QED  BY <2>2, <2>3, <2>4
<1> QED  BY <1>3, <1>4

\* A signed record that names no predecessor is numbered 1.
StartsAtOne(s) ==
  \A i \in DOMAIN s :
    verify_record(s[i]) = "valid" /\ s[i].prev_hash = Unset => s[i].seq = 1

\* Where only number 1 starts a chain, a log that verifies is numbered from 1.
LEMMA IntactCounts ==
  ASSUME NEW s, IsLog(s), s # << >>, StartsAtOne(s), NEW o, o = sorted_by_seq(s),
         verify_chain(s) = "intact"
  PROVE  /\ Signed(s) /\ o[1].prev_hash = Unset /\ Linked(o)
         /\ \A k \in 1 .. Len(s) : o[k].seq = k
<1>1. Signed(s) /\ o[1].prev_hash = Unset /\ Linked(o)
  BY IntactMeansLinked
<1>2. /\ Len(s) \in Nat /\ Len(o) = Len(s) /\ DOMAIN s = 1 .. Len(s)
      /\ \A k \in 1 .. Len(s) : o[k] = s[Place(s, k)] /\ o[k].seq \in Nat
  BY SortedLog
<1>3. 1 \in 1 .. Len(s)
  BY <1>2, EmptySeq DEF IsLog
<1>4. Place(s, 1) \in DOMAIN s
  BY <1>3, PlacesOfLines
<1>5. o[1].seq = 1
  BY <1>1, <1>2, <1>3, <1>4 DEF StartsAtOne, Signed
<1>6. \A k \in 1 .. Len(s) : o[k].seq = o[1].seq + k - 1
  BY <1>1, <1>2, LinkedCounts
<1>7. \A k \in 1 .. Len(s) : o[k].seq = k
  BY <1>2, <1>5, <1>6
<1> QED  BY <1>1, <1>7

\* Such a log verifies exactly if it is signed, has no two records of the same
\* number and lacks no record that one of its records names.
THEOREM IntactIffTree ==
  ASSUME NEW s, IsLog(s), StartsAtOne(s), \A i \in DOMAIN s : s[i].seq # 0
  PROVE  verify_chain(s) = "intact"
           <=> /\ Signed(s)
               /\ \A i \in DOMAIN s : HasParent(s, i)
               /\ \A i, j \in DOMAIN s : s[i].seq = s[j].seq => i = j
<1>1. ASSUME verify_chain(s) = "intact", s # << >>
      PROVE  /\ Signed(s)
             /\ \A i \in DOMAIN s : HasParent(s, i)
             /\ \A i, j \in DOMAIN s : s[i].seq = s[j].seq => i = j
  <2> DEFINE o == sorted_by_seq(s)
             n == Len(s)
  <2>1. /\ Signed(s) /\ o[1].prev_hash = Unset /\ Linked(o)
        /\ \A k \in 1 .. n : o[k].seq = k
    BY <1>1, IntactCounts
  <2>2. /\ n \in Nat /\ Len(o) = n
        /\ \A k \in 1 .. n : o[k] = s[Place(s, k)]
        /\ \A i \in DOMAIN s : Rank(s, i) \in 1 .. n /\ o[Rank(s, i)] = s[i]
    BY SortedLog
  <2>3. /\ \A k \in 1 .. n : Place(s, k) \in DOMAIN s
        /\ \A i \in DOMAIN s : Place(s, Rank(s, i)) = i
    BY PlacesOfLines
  <2> HIDE DEF o, n
  <2>4. \A i \in DOMAIN s : s[i].seq = Rank(s, i)
    BY <2>1, <2>2
  <2>5. \A i, j \in DOMAIN s : s[i].seq = s[j].seq => i = j
    BY <2>3, <2>4
  <2>6. ASSUME NEW i \in DOMAIN s PROVE HasParent(s, i)
    <3>1. CASE Rank(s, i) = 1
      BY <2>1, <2>2, <2>4, <2>6, <3>1 DEF HasParent
    <3>2. CASE Rank(s, i) # 1
      <4>1. PICK k \in 1 .. n - 1 : k + 1 = Rank(s, i)
        <5>1. Rank(s, i) - 1 \in 1 .. n - 1 /\ Rank(s, i) - 1 + 1 = Rank(s, i)
          BY <2>2, <2>6, <3>2
        <5> QED  BY <5>1
      <4>2. k \in 1 .. n
        BY <2>2
      <4>3. s[i].seq = o[k].seq + 1 /\ s[i].prev_hash = record_content_hash(o[k])
        BY <2>1, <2>2, <2>6, <4>1 DEF Linked
      <4>4. Place(s, k) \in DOMAIN s /\ o[k] = s[Place(s, k)]
        BY <2>2, <2>3, <4>2
      <4> QED  BY <4>3, <4>4 DEF HasParent
    <3> QED  BY <3>1, <3>2
  <2> QED  BY <2>1, <2>5, <2>6
<1>2. ASSUME s = << >>
      PROVE  DOMAIN s = {} /\ verify_chain(s) = "intact"
  BY <1>2 DEF verify_chain
<1> QED  BY <1>1, <1>2, IntactTree DEF Signed

\* Its numbers are the places, each once.
LEMMA IntactNumbers ==
  ASSUME NEW s, IsLog(s), s # << >>, StartsAtOne(s), verify_chain(s) = "intact"
  PROVE  /\ \A i \in DOMAIN s : s[i].seq \in 1 .. Len(s)
         /\ \A k \in 1 .. Len(s) : \E i \in DOMAIN s : s[i].seq = k
<1> DEFINE o == sorted_by_seq(s)
<1>1. \A k \in 1 .. Len(s) : o[k].seq = k
  BY IntactCounts
<1>2. /\ \A k \in 1 .. Len(s) : o[k] = s[Place(s, k)]
      /\ \A i \in DOMAIN s : Rank(s, i) \in 1 .. Len(s) /\ o[Rank(s, i)] = s[i]
  BY SortedLog
<1>3. \A k \in 1 .. Len(s) : Place(s, k) \in DOMAIN s
  BY PlacesOfLines
<1> HIDE DEF o
<1> QED  BY <1>1, <1>2, <1>3

\* A record that names the last line of a log, appended to it: the longer log
\* verifies exactly if the log did, the record is signed, and the last line
\* was the newest record.
THEOREM VerdictGrows ==
  ASSUME NEW s, IsLog(s), StartsAtOne(s), \A i \in DOMAIN s : s[i].seq # 0,
         NEW r, r.seq \in Nat \ {0},
         s = << >> => r.seq = 1 /\ r.prev_hash = Unset,
         s # << >> => /\ r.seq = Last(s).seq + 1
                      /\ r.prev_hash = record_content_hash(Last(s)),
         \A i \in DOMAIN s : verify_record(s[i]) = "valid" =>
                               s[i].prev_hash # record_content_hash(r)
  PROVE  verify_chain(Append(s, r)) = "intact"
           <=> /\ verify_chain(s) = "intact"
               /\ verify_record(r) = "valid"
               /\ s # << >> => Last(s).seq = Len(s)
<1> DEFINE t == Append(s, r)
           n == Len(s)
<1>1. /\ n \in Nat /\ DOMAIN s = 1 .. n /\ s \in Seq(ToSet(s))
      /\ \A i \in DOMAIN s : s[i].seq \in Nat \ {0}
      /\ s # << >> => n \in DOMAIN s /\ Last(s) = s[n]
      /\ s = << >> => n = 0
  BY SequenceOf, EmptySeq DEF IsLog, Last
<1>2. /\ t \in Seq(ToSet(t)) /\ Len(t) = n + 1 /\ DOMAIN t = 1 .. n + 1
      /\ \A i \in DOMAIN s : t[i] = s[i]
      /\ t[n + 1] = r
  BY <1>1, AppendLine, SequenceOf
<1> HIDE DEF t, n
<1>3. \A i \in DOMAIN t : i \in DOMAIN s \/ i = n + 1
  BY <1>1, <1>2
<1>4. n + 1 \in DOMAIN t /\ n + 1 \notin DOMAIN s /\ DOMAIN s \subseteq DOMAIN t /\ t # << >>
  BY <1>1, <1>2
<1>5. r.prev_hash = Unset => r.seq = 1
  BY DEF record_content_hash, Unset
<1>6. IsLog(t) /\ StartsAtOne(t) /\ \A i \in DOMAIN t : t[i].seq # 0
  BY <1>1, <1>2, <1>3, <1>5 DEF IsLog, StartsAtOne
<1>7. Signed(t) <=> Signed(s) /\ verify_record(r) = "valid"
  BY <1>2, <1>3, <1>4 DEF Signed
<1>8. /\ verify_chain(s) = "intact"
           <=> /\ Signed(s)
               /\ \A i \in DOMAIN s : HasParent(s, i)
               /\ \A i, j \in DOMAIN s : s[i].seq = s[j].seq => i = j
      /\ verify_chain(t) = "intact"
           <=> /\ Signed(t)
               /\ \A i \in DOMAIN t : HasParent(t, i)
               /\ \A i, j \in DOMAIN t : t[i].seq = t[j].seq => i = j
  BY <1>6, IntactIffTree
<1>9. ASSUME verify_chain(t) = "intact"
      PROVE  /\ verify_chain(s) = "intact"
             /\ verify_record(r) = "valid"
             /\ s # << >> => Last(s).seq = n
  <2>1. Signed(s) /\ verify_record(r) = "valid"
    BY <1>7, <1>8, <1>9
  <2>2. \A i, j \in DOMAIN s : s[i].seq = s[j].seq => i = j
    BY <1>2, <1>4, <1>8, <1>9
  <2>3. ASSUME NEW i \in DOMAIN s PROVE HasParent(s, i)
    <3>1. HasParent(t, i) /\ t[i] = s[i]
      BY <1>2, <1>4, <1>8, <1>9
    <3>2. s[i].prev_hash # record_content_hash(r)
      BY <2>1 DEF Signed
    <3> QED  BY <1>2, <1>3, <3>1, <3>2 DEF HasParent
  <2>4. verify_chain(s) = "intact"
    BY <1>8, <2>1, <2>2, <2>3
  <2>5. ASSUME s # << >> PROVE Last(s).seq = n
    <3>1. r.seq \in 1 .. n + 1
      BY <1>2, <1>4, <1>6, <1>9, IntactNumbers
    <3>2. ASSUME r.seq \in 1 .. n PROVE FALSE
      <4>1. PICK i \in DOMAIN s : s[i].seq = r.seq
        BY <2>4, <2>5, <3>2, IntactNumbers DEF n
      <4> QED  BY <1>2, <1>4, <1>8, <1>9, <4>1
    <3>3. r.seq = Last(s).seq + 1 /\ Last(s).seq \in Nat
      BY <1>1, <2>5
    <3> QED  BY <1>1, <3>1, <3>2, <3>3
  <2> QED  BY <2>1, <2>4, <2>5
<1>10. ASSUME verify_chain(s) = "intact", verify_record(r) = "valid",
              s # << >> => Last(s).seq = n
       PROVE  verify_chain(t) = "intact"
  <2>1. Signed(t)
    BY <1>7, <1>8, <1>10
  <2>2. r.seq = n + 1
    BY <1>1, <1>10
  <2>3. \A i \in DOMAIN s : s[i].seq \in 1 .. n
    <3>1. CASE s = << >>
      BY <3>1
    <3>2. CASE s # << >>
      BY <1>10, <3>2, IntactNumbers DEF n
    <3> QED  BY <3>1, <3>2
  <2>4. ASSUME NEW i \in DOMAIN t, NEW j \in DOMAIN t, t[i].seq = t[j].seq
        PROVE  i = j
    <3>1. \A k \in DOMAIN s : s[k].seq # n + 1
      BY <1>1, <2>3
    <3> QED  BY <1>2, <1>3, <1>8, <1>10, <2>2, <2>4, <3>1
  <2>5. ASSUME NEW i \in DOMAIN t PROVE HasParent(t, i)
    <3>1. CASE i \in DOMAIN s
      <4>1. HasParent(s, i)
        BY <1>8, <1>10, <3>1
      <4> QED  BY <1>2, <1>4, <3>1, <4>1 DEF HasParent
    <3>2. CASE i = n + 1
      <4>1. CASE s = << >>
        BY <1>2, <3>2, <4>1 DEF HasParent
      <4>2. CASE s # << >>
        BY <1>1, <1>2, <1>4, <3>2, <4>2 DEF HasParent
      <4> QED  BY <4>1, <4>2
    <3> QED  BY <1>3, <3>1, <3>2
  <2> QED  BY <1>8, <2>1, <2>4, <2>5
<1> QED  BY <1>9, <1>10 DEF t, n
=============================================================================
