--------------------------- MODULE ChainAuditProofs ---------------------------
(***************************************************************************)
(* Proofs about ChainAudit, for any number of logs, halts and changes made *)
(* to the files between halts.                                             *)
(*                                                                         *)
(* AuditInv is the inductive invariant:                                    *)
(*   FilesInv    what is known of a record in a file, whoever changed it:  *)
(*               its signature, if it has one, is a halt's;                *)
(*   WrittenInv  what is known of a record a halt wrote;                   *)
(*   ParentInv   which record it stands on;                                *)
(*   LineageInv  that its lineage, if all signed, is one chain.            *)
(* That a record in a file which verifies is a halt's own, unaltered, is   *)
(* what the symbolic signature says (ValidIsWritten).                      *)
(***************************************************************************)
EXTENDS ChainAudit, AttestationProofs

IsRecord(x) ==
  x = [id |-> x.id, seq |-> x.seq, content |-> x.content,
       prev_hash |-> x.prev_hash, public_key |-> x.public_key,
       signature |-> x.signature]

\* A halt's record, or what has become of it.
OfLog(x) ==
  /\ IsRecord(x) /\ x.seq \in Nat \ {0}
  /\ \E r \in Written : x.id = r.id
  /\ x.signature # Unset => \E r \in Written : x.signature = r.signature

FilesInv ==
  /\ DOMAIN file = Logs
  /\ \A l \in Logs : /\ file[l] \in Seq(ToSet(file[l]))
                     /\ \A x \in ToSet(file[l]) : OfLog(x)

OwnSignature(r) ==
  r.signature # Unset => /\ r.public_key = << Key >>
                         /\ r.signature = << Key, canonical_bytes(r) >>

WrittenInv ==
  /\ IsFiniteSet(Written) /\ Cardinality(Written) <= MaxHalts
  /\ edits \in 0 .. MaxEdits
  /\ \A r \in Written : /\ IsRecord(r) /\ r.seq \in Nat \ {0}
                        /\ r.id \in 1 .. Cardinality(Written)
                        /\ OwnSignature(r)
  /\ \A q, r \in Written : q.id = r.id => q = r

\* r starts a log, or stands on the record its prev_hash is the digest of.
StandsOn(r) ==
  \/ r.seq = 1 /\ r.prev_hash = Unset /\ lineage[r] = << r >>
  \/ LET p == r.prev_hash[1]
     IN  /\ r.prev_hash = record_content_hash(p) /\ r.seq = p.seq + 1
         /\ OfLog(p)
         /\ lineage[r] = IF p \in Written THEN Append(lineage[p], r) ELSE << p, r >>

ParentInv == \A r \in Written : StandsOn(r)

\* c is one chain from its start.
Rooted(c) == c[1].prev_hash = Unset /\ c[1].seq = 1 /\ Linked(c)

LineageInv ==
  \A r \in Written :
    /\ lineage[r] \in Seq(ToSet(lineage[r])) /\ lineage[r] # << >>
    /\ Last(lineage[r]) = r
    /\ AllSigned(lineage[r]) =>
         Rooted(lineage[r]) /\ ToSet(lineage[r]) \subseteq Written

AuditInv == FilesInv /\ WrittenInv /\ ParentInv /\ LineageInv

-----------------------------------------------------------------------------
(* Signatures *)

\* A record that verifies is one a halt wrote and signed: nothing of it can
\* have been altered.
LEMMA ValidIsWritten ==
  ASSUME WrittenInv, NEW x, OfLog(x), verify_record(x) = "valid"
  PROVE  x \in Written
<1>1. /\ x.signature # Unset
      /\ x.signature = << x.public_key[1], canonical_bytes(x) >>
  BY DEF verify_record
<1>2. PICK r \in Written : x.signature = r.signature
  BY <1>1 DEF OfLog
<1>3. r.signature = << Key, canonical_bytes(r) >> /\ IsRecord(r)
  BY <1>1, <1>2 DEF WrittenInv, OwnSignature
<1>4. canonical_bytes(x) = canonical_bytes(r)
  BY <1>1, <1>2, <1>3
<1>5. /\ x.id = r.id /\ x.seq = r.seq /\ x.content = r.content
      /\ x.prev_hash = r.prev_hash /\ x.public_key = r.public_key
  BY <1>4 DEF canonical_bytes
<1>6. x = r
  BY <1>2, <1>3, <1>5 DEF OfLog, IsRecord
<1> QED  BY <1>6

\* A written record is a record of a log.
LEMMA WrittenIsOfLog ==
  ASSUME WrittenInv, NEW r \in Written
  PROVE  OfLog(r)
BY DEF WrittenInv, OfLog

\* Digests of two records are the same only if the records are.
LEMMA DigestsTell ==
  ASSUME NEW p, NEW q, record_content_hash(p) = record_content_hash(q)
  PROVE  p = q
BY DEF record_content_hash

-----------------------------------------------------------------------------
(* Halts *)

\* What a halt puts at the end of log s.
LEMMA NewRecord ==
  ASSUME NEW s, s \in Seq(ToSet(s)), \A x \in ToSet(s) : x.seq \in Nat \ {0},
         NEW id, NEW signed \in BOOLEAN, NEW r, r = NextRecord(s, id, signed)
  PROVE  /\ IsRecord(r) /\ r.id = id /\ r.seq \in Nat \ {0} /\ OwnSignature(r)
         /\ s = << >> => r.seq = 1 /\ r.prev_hash = Unset
         /\ s # << >> => /\ r.seq = Last(s).seq + 1
                         /\ r.prev_hash = record_content_hash(Last(s))
                         /\ r.prev_hash[1] = Last(s)
                         /\ Last(s) \in ToSet(s)
<1> DEFINE head == chain_state(IF s = << >> THEN Unset ELSE << Last(s) >>)
           bare == build_record(id, head.seq, "halt", head.prev_hash)
<1>1. s # << >> => Last(s) \in ToSet(s)
  <2>1. SUFFICES ASSUME s # << >> PROVE Last(s) \in ToSet(s)
    OBVIOUS
  <2>2. Len(s) \in DOMAIN s
    BY <2>1, EmptySeq
  <2> QED  BY <2>2 DEF Last, ToSet
<1>2. /\ head.seq \in Nat \ {0}
      /\ s = << >> => head.seq = 1 /\ head.prev_hash = Unset
      /\ s # << >> => /\ head.seq = Last(s).seq + 1
                      /\ head.prev_hash = record_content_hash(Last(s))
  BY <1>1 DEF chain_state, Unset
<1>3. r = IF signed THEN sign_record(bare, Key) ELSE bare
  BY DEF NextRecord
<1> HIDE DEF head
<1>4. /\ IsRecord(r) /\ r.id = id /\ r.seq = head.seq
      /\ r.prev_hash = head.prev_hash /\ OwnSignature(r)
  <2>1. CASE ~signed
    BY <1>3, <2>1 DEF build_record, IsRecord, OwnSignature
  <2>2. CASE signed
    BY <1>3, <2>2
       DEF build_record, sign_record, canonical_bytes, IsRecord, OwnSignature
  <2> QED  BY <2>1, <2>2
<1> QED  BY <1>1, <1>2, <1>4 DEF record_content_hash

\* What is known of a record stays known.
LEMMA OfLogKept ==
  ASSUME NEW x, OfLog(x), Written \subseteq Written'
  PROVE  OfLog(x)'
BY DEF OfLog

\* A halt adds one record, numbered by its uuid, to one file and to the
\* history.
LEMMA HaltMakes ==
  ASSUME AuditInv, NEW l \in Logs, Halt(l)
  PROVE  \E r : /\ r \notin Written /\ Written' = Written \union {r}
                /\ \A x \in Written : lineage'[x] = lineage[x] /\ x # r
                /\ lineage'[r] = LineageOn(file[l], r)
                /\ file' = [file EXCEPT ![l] = Append(file[l], r)]
                /\ r.id = Cardinality(Written) + 1 /\ Cardinality(Written) < MaxHalts
                /\ IsRecord(r) /\ r.seq \in Nat \ {0} /\ OwnSignature(r)
                /\ file[l] = << >> => r.seq = 1 /\ r.prev_hash = Unset
                /\ file[l] # << >> =>
                     /\ r.seq = Last(file[l]).seq + 1
                     /\ r.prev_hash = record_content_hash(Last(file[l]))
                     /\ r.prev_hash[1] = Last(file[l])
                     /\ Last(file[l]) \in ToSet(file[l])
<1> DEFINE s == file[l]
<1>1. s \in Seq(ToSet(s)) /\ \A x \in ToSet(s) : x.seq \in Nat \ {0}
  BY DEF AuditInv, FilesInv, OfLog
<1>2. PICK signed \in BOOLEAN :
        LET r == NextRecord(file[l], Cardinality(Written) + 1, signed)
        IN  /\ file' = [file EXCEPT ![l] = Append(@, r)]
            /\ lineage' = [x \in Written \union {r} |->
                             IF x = r THEN LineageOn(file[l], r) ELSE lineage[x]]
  BY DEF Halt
<1> DEFINE r == NextRecord(s, Cardinality(Written) + 1, signed)
<1>3. /\ file' = [file EXCEPT ![l] = Append(s, r)]
      /\ lineage' = [x \in Written \union {r} |->
                       IF x = r THEN LineageOn(s, r) ELSE lineage[x]]
  BY <1>2, Zenon
<1>4. /\ IsRecord(r) /\ r.id = Cardinality(Written) + 1
      /\ r.seq \in Nat \ {0} /\ OwnSignature(r)
      /\ s = << >> => r.seq = 1 /\ r.prev_hash = Unset
      /\ s # << >> => /\ r.seq = Last(s).seq + 1
                      /\ r.prev_hash = record_content_hash(Last(s))
                      /\ r.prev_hash[1] = Last(s)
                      /\ Last(s) \in ToSet(s)
  <2> HIDE DEF s
  <2> QED  BY <1>1, NewRecord
<1> HIDE DEF r
<1>5. Cardinality(Written) < MaxHalts /\ Cardinality(Written) \in Nat
  BY FS_CardinalityType DEF Halt, AuditInv, WrittenInv
<1>6. r \notin Written
  BY <1>4, <1>5 DEF AuditInv, WrittenInv
<1>7. /\ Written' = Written \union {r}
      /\ \A x \in Written : lineage'[x] = lineage[x] /\ x # r
      /\ lineage'[r] = LineageOn(s, r)
  BY <1>3, <1>6 DEF Written
<1> QED  BY <1>3, <1>4, <1>5, <1>6, <1>7

\* The records of the files.
LEMMA HaltFiles ==
  ASSUME AuditInv, NEW l \in Logs, Halt(l)
  PROVE  FilesInv'
<1>1. PICK r : /\ Written' = Written \union {r}
               /\ file' = [file EXCEPT ![l] = Append(file[l], r)]
               /\ IsRecord(r) /\ r.seq \in Nat \ {0}
  BY HaltMakes
<1>2. OfLog(r)'
  BY <1>1 DEF OfLog
<1>3. /\ DOMAIN file' = Logs /\ file'[l] = Append(file[l], r)
      /\ \A m \in Logs \ {l} : file'[m] = file[m]
  BY <1>1 DEF AuditInv, FilesInv
<1>4. /\ file'[l] \in Seq(ToSet(file'[l]))
      /\ ToSet(file'[l]) = ToSet(file[l]) \union {r}
  BY <1>3, AppendLine DEF AuditInv, FilesInv
<1>5. \A x \in ToSet(file[l]) : OfLog(x)'
  BY <1>1, OfLogKept DEF AuditInv, FilesInv
<1>6. \A m \in Logs \ {l} : \A x \in ToSet(file[m]) : OfLog(x)'
  BY <1>1, OfLogKept DEF AuditInv, FilesInv
<1> QED  BY <1>2, <1>3, <1>4, <1>5, <1>6 DEF FilesInv, AuditInv

\* The written records.
LEMMA HaltWritten ==
  ASSUME AuditInv, NEW l \in Logs, Halt(l)
  PROVE  WrittenInv'
<1>1. PICK r : /\ r \notin Written /\ Written' = Written \union {r}
               /\ r.id = Cardinality(Written) + 1 /\ Cardinality(Written) < MaxHalts
               /\ IsRecord(r) /\ r.seq \in Nat \ {0} /\ OwnSignature(r)
  BY HaltMakes
<1>2. IsFiniteSet(Written) /\ Cardinality(Written) \in Nat
  BY FS_CardinalityType DEF AuditInv, WrittenInv
<1>3. IsFiniteSet(Written') /\ Cardinality(Written') = Cardinality(Written) + 1
  BY <1>1, <1>2, FS_AddElement
<1>4. Cardinality(Written') <= MaxHalts
  BY <1>1, <1>2, <1>3, AuditAssumption
<1>5. \A q \in Written : q.id \in 1 .. Cardinality(Written)
  BY DEF AuditInv, WrittenInv
<1>6. \A q, t \in Written' : q.id = t.id => q = t
  BY <1>1, <1>2, <1>5 DEF AuditInv, WrittenInv
<1>7. edits' \in 0 .. MaxEdits
  BY DEF AuditInv, WrittenInv, Halt
<1>8. \A q \in Written' : /\ IsRecord(q) /\ q.seq \in Nat \ {0} /\ OwnSignature(q)
                         /\ q.id \in 1 .. Cardinality(Written')
  BY <1>1, <1>2, <1>3, <1>5 DEF AuditInv, WrittenInv
<1> QED  BY <1>3, <1>4, <1>6, <1>7, <1>8 DEF WrittenInv

\* What each record stands on: the new one on the last line of its file.
LEMMA HaltParents ==
  ASSUME AuditInv, NEW l \in Logs, Halt(l)
  PROVE  ParentInv'
<1>1. PICK r : /\ r \notin Written /\ Written' = Written \union {r}
               /\ \A x \in Written : lineage'[x] = lineage[x] /\ x # r
               /\ lineage'[r] = LineageOn(file[l], r)
               /\ r.id = Cardinality(Written) + 1
               /\ file[l] = << >> => r.seq = 1 /\ r.prev_hash = Unset
               /\ file[l] # << >> =>
                    /\ r.seq = Last(file[l]).seq + 1
                    /\ r.prev_hash = record_content_hash(Last(file[l]))
                    /\ r.prev_hash[1] = Last(file[l])
                    /\ Last(file[l]) \in ToSet(file[l])
  BY HaltMakes
<1>2. ASSUME NEW x, OfLog(x) PROVE x # r /\ OfLog(x)'
  <2>1. x.id \in 1 .. Cardinality(Written) /\ Cardinality(Written) \in Nat
    BY <1>2, FS_CardinalityType DEF OfLog, AuditInv, WrittenInv
  <2> QED  BY <1>1, <1>2, <2>1, OfLogKept
<1>3. ASSUME NEW x \in Written PROVE StandsOn(x)'
  <2>1. lineage'[x] = lineage[x] /\ x \in Written'
    BY <1>1, <1>3
  <2>2. StandsOn(x)
    BY <1>3 DEF AuditInv, ParentInv
  <2>3. CASE x.seq = 1 /\ x.prev_hash = Unset /\ lineage[x] = << x >>
    BY <2>1, <2>3 DEF StandsOn
  <2>4. ASSUME NEW p, p = x.prev_hash[1],
               x.prev_hash = record_content_hash(p), x.seq = p.seq + 1, OfLog(p),
               lineage[x] = IF p \in Written THEN Append(lineage[p], x) ELSE << p, x >>
        PROVE  StandsOn(x)'
    <3>1. OfLog(p)' /\ p # r
      BY <1>2, <2>4
    <3>2. /\ p \in Written' <=> p \in Written
          /\ p \in Written => lineage'[p] = lineage[p]
      BY <1>1, <3>1
    <3> QED  BY <2>1, <2>4, <3>1, <3>2 DEF StandsOn
  <2> QED  BY <2>2, <2>3, <2>4 DEF StandsOn
<1>4. StandsOn(r)'
  <2>1. CASE file[l] = << >>
    BY <1>1, <2>1 DEF StandsOn, LineageOn
  <2>2. CASE file[l] # << >>
    <3>0. PICK p : p = Last(file[l])
      OBVIOUS
    <3>1. OfLog(p)' /\ p # r
      BY <1>1, <1>2, <2>2, <3>0 DEF AuditInv, FilesInv
    <3>2. lineage'[r] = IF p \in Written THEN Append(lineage[p], r) ELSE << p, r >>
      BY <1>1, <2>2, <3>0 DEF LineageOn
    <3>3. /\ p \in Written' <=> p \in Written
          /\ p \in Written => lineage'[p] = lineage[p]
      BY <1>1, <3>1
    <3>4. /\ r.seq = p.seq + 1 /\ r.prev_hash = record_content_hash(p)
          /\ r.prev_hash[1] = p
      BY <1>1, <2>2, <3>0
    <3> QED  BY <3>1, <3>2, <3>3, <3>4 DEF StandsOn
  <2> QED  BY <2>1, <2>2
<1> QED  BY <1>1, <1>3, <1>4 DEF ParentInv

\* A chain grows by a record that names its last one.
LEMMA ChainGrows ==
  ASSUME NEW c, c \in Seq(ToSet(c)), c # << >>, NEW x
  PROVE  LET t == Append(c, x)
         IN  /\ t \in Seq(ToSet(t)) /\ t # << >> /\ Last(t) = x
             /\ ToSet(t) = ToSet(c) \union {x}
             /\ AllSigned(t) <=> AllSigned(c) /\ verify_record(x) = "valid"
             /\ Rooted(c) /\ x.seq = Last(c).seq + 1
                  /\ x.prev_hash = record_content_hash(Last(c)) => Rooted(t)
<1> DEFINE t == Append(c, x)
           n == Len(c)
<1>1. /\ t \in Seq(ToSet(t)) /\ Len(t) = n + 1 /\ t[n + 1] = x
      /\ \A i \in 1 .. n : t[i] = c[i]
      /\ ToSet(t) = ToSet(c) \union {x}
  BY AppendLine
<1>2. /\ n \in Nat /\ n # 0 /\ DOMAIN c = 1 .. n /\ DOMAIN t = 1 .. n + 1
      /\ Last(c) = c[n]
  BY <1>1, SequenceOf, EmptySeq DEF Last
<1> HIDE DEF t, n
<1>3. t # << >> /\ Last(t) = x
  <2>1. Len(t) # 0
    BY <1>1, <1>2
  <2> QED  BY <1>1, <2>1, EmptySeq DEF Last
<1>4. AllSigned(t) <=> AllSigned(c) /\ verify_record(x) = "valid"
  <2>1. DOMAIN t = DOMAIN c \union {n + 1}
    BY <1>2
  <2> QED  BY <1>1, <1>2, <2>1 DEF AllSigned
<1>5. ASSUME Rooted(c), x.seq = Last(c).seq + 1,
             x.prev_hash = record_content_hash(Last(c))
      PROVE  Rooted(t)
  <2>1. t[1] = c[1]
    BY <1>1, <1>2
  <2>2. ASSUME NEW i \in 1 .. Len(t) - 1
        PROVE  /\ t[i + 1].seq = t[i].seq + 1
               /\ t[i + 1].prev_hash = record_content_hash(t[i])
    <3>1. CASE i = n
      BY <1>1, <1>2, <1>5, <3>1
    <3>2. CASE i # n
      <4>1. i \in 1 .. n - 1 /\ i \in 1 .. n /\ i + 1 \in 1 .. n
        BY <1>1, <1>2, <3>2
      <4> QED  BY <1>1, <1>5, <4>1 DEF Rooted, Linked, n
    <3> QED  BY <3>1, <3>2
  <2> QED  BY <1>5, <2>1, <2>2 DEF Rooted, Linked
<1> QED  BY <1>1, <1>3, <1>4, <1>5 DEF t

\* A lineage of two records, or of one.
LEMMA ShortChains ==
  ASSUME NEW p, NEW x
  PROVE  /\ << x >> \in Seq(ToSet(<< x >>)) /\ << x >> # << >> /\ Last(<< x >>) = x
         /\ ToSet(<< x >>) = {x}
         /\ x.prev_hash = Unset /\ x.seq = 1 => Rooted(<< x >>)
         /\ << p, x >> \in Seq(ToSet(<< p, x >>)) /\ << p, x >> # << >>
         /\ Last(<< p, x >>) = x
         /\ AllSigned(<< x >>) => verify_record(x) = "valid"
         /\ AllSigned(<< p, x >>) => verify_record(p) = "valid"
<1>1. /\ << x >> \in Seq({x}) /\ Len(<< x >>) = 1
      /\ << p, x >> \in Seq({p, x}) /\ Len(<< p, x >>) = 2
  OBVIOUS
<1>2. << x >> \in Seq(ToSet(<< x >>)) /\ << p, x >> \in Seq(ToSet(<< p, x >>))
  BY <1>1, SequenceOf
<1>3. /\ AllSigned(<< x >>) => verify_record(x) = "valid"
      /\ AllSigned(<< p, x >>) => verify_record(p) = "valid"
  BY DEF AllSigned
<1>4. ToSet(<< x >>) = {x} /\ Last(<< x >>) = x /\ Last(<< p, x >>) = x
  BY DEF ToSet, Last
<1>5. x.prev_hash = Unset /\ x.seq = 1 => Rooted(<< x >>)
  BY <1>1 DEF Rooted, Linked
<1> QED  BY <1>1, <1>2, <1>3, <1>4, <1>5

\* The lineage of a new record, if all signed, is one chain from its start.
LEMMA HaltLineages ==
  ASSUME AuditInv, NEW l \in Logs, Halt(l)
  PROVE  LineageInv'
<1>1. PICK r : /\ r \notin Written /\ Written' = Written \union {r}
               /\ \A x \in Written : lineage'[x] = lineage[x] /\ x # r
               /\ lineage'[r] = LineageOn(file[l], r)
               /\ file[l] = << >> => r.seq = 1 /\ r.prev_hash = Unset
               /\ file[l] # << >> =>
                    /\ r.seq = Last(file[l]).seq + 1
                    /\ r.prev_hash = record_content_hash(Last(file[l]))
                    /\ r.prev_hash[1] = Last(file[l])
                    /\ Last(file[l]) \in ToSet(file[l])
  BY HaltMakes
<1>2. ASSUME NEW x \in Written
      PROVE  /\ lineage'[x] \in Seq(ToSet(lineage'[x])) /\ lineage'[x] # << >>
             /\ Last(lineage'[x]) = x
             /\ AllSigned(lineage'[x]) =>
                  Rooted(lineage'[x]) /\ ToSet(lineage'[x]) \subseteq Written'
  BY <1>1, <1>2 DEF AuditInv, LineageInv
<1>3. PICK c : c = lineage'[r]
  OBVIOUS
<1>4. /\ c \in Seq(ToSet(c)) /\ c # << >> /\ Last(c) = r
      /\ AllSigned(c) => Rooted(c) /\ ToSet(c) \subseteq Written'
  <2>1. CASE file[l] = << >>
    <3>1. c = << r >>
      BY <1>1, <1>3, <2>1 DEF LineageOn
    <3> QED  BY <1>1, <2>1, <3>1, ShortChains
  <2>2. CASE file[l] # << >>
    <3>1. PICK p : p = Last(file[l])
      OBVIOUS
    <3>2. c = IF p \in Written THEN Append(lineage[p], r) ELSE << p, r >>
      BY <1>1, <1>3, <2>2, <3>1 DEF LineageOn
    <3>3. OfLog(p)
      BY <1>1, <2>2, <3>1 DEF AuditInv, FilesInv
    <3>4. CASE p \in Written
      <4>1. PICK d : d = lineage[p]
        OBVIOUS
      <4>2. /\ d \in Seq(ToSet(d)) /\ d # << >> /\ Last(d) = p
            /\ AllSigned(d) => Rooted(d) /\ ToSet(d) \subseteq Written
        BY <3>4, <4>1 DEF AuditInv, LineageInv
      <4>3. c = Append(d, r)
        BY <3>2, <3>4, <4>1
      <4> QED  BY <1>1, <2>2, <3>1, <4>2, <4>3, ChainGrows
    <3>5. CASE p \notin Written
      <4>1. c = << p, r >> /\ verify_record(p) # "valid"
        BY <3>2, <3>3, <3>5, ValidIsWritten DEF AuditInv
      <4> QED  BY <4>1, ShortChains
    <3> QED  BY <3>4, <3>5
  <2> QED  BY <2>1, <2>2
<1> QED  BY <1>1, <1>2, <1>3, <1>4 DEF LineageInv

-----------------------------------------------------------------------------
(* Changes made to the files *)

\* A file may be changed to anything made of the records the files know.
LEMMA EditKeeps ==
  ASSUME AuditInv, NEW l \in Logs, NEW s, NEW S, s \in Seq(S),
         \A x \in S : OfLog(x), Edit([file EXCEPT ![l] = s])
  PROVE  AuditInv'
<1>1. /\ file' = [file EXCEPT ![l] = s] /\ lineage' = lineage
      /\ edits' = edits + 1 /\ edits < MaxEdits /\ Written' = Written
  BY DEF Edit, Written
<1>2. s \in Seq(ToSet(s)) /\ \A x \in ToSet(s) : OfLog(x)
  <2>1. s \in Seq(ToSet(s)) /\ DOMAIN s = 1 .. Len(s)
    BY SequenceOf
  <2>2. \A i \in 1 .. Len(s) : s[i] \in S
    OBVIOUS
  <2> QED  BY <2>1, <2>2 DEF ToSet
<1>3. ASSUME NEW x, OfLog(x) PROVE OfLog(x)'
  BY <1>1, <1>3 DEF OfLog
<1>4. FilesInv'
  <2>1. /\ DOMAIN file' = Logs /\ file'[l] = s
        /\ \A m \in Logs \ {l} : file'[m] = file[m]
    BY <1>1 DEF AuditInv, FilesInv
  <2> QED  BY <1>2, <1>3, <2>1 DEF AuditInv, FilesInv
<1>5. edits' \in 0 .. MaxEdits
  BY <1>1, AuditAssumption DEF AuditInv, WrittenInv
<1>6. WrittenInv'
  BY <1>1, <1>5 DEF AuditInv, WrittenInv
<1>7. ParentInv'
  BY <1>1, <1>3 DEF AuditInv, ParentInv, StandsOn
<1>8. LineageInv'
  BY <1>1 DEF AuditInv, LineageInv
<1> QED  BY <1>4, <1>6, <1>7, <1>8 DEF AuditInv

\* Altering a record leaves its uuid and never makes a signature.
LEMMA AlteredIsOfLog ==
  ASSUME NEW x, OfLog(x), NEW r \in Alterations(x)
  PROVE  OfLog(r)
<1>1. IsRecord(r) /\ r.seq \in Nat \ {0} /\ r.id = x.id
      /\ (r.signature # Unset => r.signature = x.signature)
  <2>1. x = [id |-> x.id, seq |-> x.seq, content |-> x.content,
             prev_hash |-> x.prev_hash, public_key |-> x.public_key,
             signature |-> x.signature] /\ x.seq \in Nat \ {0}
    BY DEF OfLog, IsRecord
  <2>2. CASE r = [x EXCEPT !.content = "edited"]
    BY <2>1, <2>2 DEF IsRecord
  <2>3. CASE r = [x EXCEPT !.seq = @ + 1]
    BY <2>1, <2>3 DEF IsRecord
  <2>4. CASE r = [x EXCEPT !.prev_hash = Unset]
    BY <2>1, <2>4 DEF IsRecord
  <2>5. CASE r = [x EXCEPT !.signature = Unset]
    BY <2>1, <2>5 DEF IsRecord
  <2> QED  BY <2>2, <2>3, <2>4, <2>5 DEF Alterations
<1> QED  BY <1>1 DEF OfLog

\* What the changes make of a file: a sequence of what it held and what it got.
LEMMA ChangedFile ==
  ASSUME NEW S, NEW s \in Seq(S), NEW i \in 1 .. Len(s), NEW e \in S
  PROVE  /\ RemoveAt(s, i) \in Seq(S)
         /\ [s EXCEPT ![i] = e] \in Seq(S)
<1>1. SubSeq(s, 1, i - 1) \in Seq(S) /\ SubSeq(s, i + 1, Len(s)) \in Seq(S)
  OBVIOUS
<1>2. RemoveAt(s, i) \in Seq(S)
  BY <1>1 DEF RemoveAt
<1> QED  BY <1>2, ExceptSeq

LEMMA LongerFile ==
  ASSUME NEW S, NEW s \in Seq(S), NEW i \in 1 .. Len(s) + 1, NEW e \in S
  PROVE  InsertAt(s, i, e) \in Seq(S)
<1>1. SubSeq(s, 1, i - 1) \in Seq(S) /\ SubSeq(s, i, Len(s)) \in Seq(S) /\ << e >> \in Seq(S)
  OBVIOUS
<1> QED  BY <1>1 DEF InsertAt

\* Every step keeps the invariant.
LEMMA AuditStep ==
  ASSUME AuditInv, [Next]_vars
  PROVE  AuditInv'
<1>1. ASSUME NEW l \in Logs, Halt(l) PROVE AuditInv'
  BY <1>1, HaltFiles, HaltWritten, HaltParents, HaltLineages DEF AuditInv
<1>2. ASSUME NEW l \in Logs
      PROVE  /\ DOMAIN file[l] = 1 .. Len(file[l]) /\ file[l] \in Seq(ToSet(file[l]))
             /\ \A x \in ToSet(file[l]) : OfLog(x)
             /\ \A i \in DOMAIN file[l] : file[l][i] \in ToSet(file[l])
  <2>1. file[l] \in Seq(ToSet(file[l])) /\ \A x \in ToSet(file[l]) : OfLog(x)
    BY DEF AuditInv, FilesInv
  <2>2. DOMAIN file[l] = 1 .. Len(file[l])
    BY <2>1, SequenceOf
  <2> QED  BY <2>1, <2>2 DEF ToSet
<1>3. ASSUME NEW l \in Logs, NEW i \in DOMAIN file[l], Delete(l, i) PROVE AuditInv'
  <2>1. RemoveAt(file[l], i) \in Seq(ToSet(file[l]))
    BY <1>2, <1>3, ChangedFile
  <2>2. Edit([file EXCEPT ![l] = RemoveAt(file[l], i)])
    BY <1>3 DEF Delete
  <2> QED  BY <1>2, <2>1, <2>2, EditKeeps
<1>4. ASSUME NEW l \in Logs, NEW i \in DOMAIN file[l], Alter(l, i) PROVE AuditInv'
  <2>1. PICK r \in Alterations(file[l][i]) : Edit([file EXCEPT ![l][i] = r])
    BY <1>4 DEF Alter
  <2>2. OfLog(r)
    BY <1>2, <1>4, AlteredIsOfLog
  <2> DEFINE S == ToSet(file[l]) \union {r}
  <2>3. file[l] \in Seq(S) /\ r \in S /\ \A x \in S : OfLog(x)
    BY <1>2, <2>2
  <2> HIDE DEF S
  <2>4. [file[l] EXCEPT ![i] = r] \in Seq(S)
    BY <1>2, <1>4, <2>3, ChangedFile
  <2>5. Edit([file EXCEPT ![l] = [file[l] EXCEPT ![i] = r]])
    BY <2>1
  <2> QED  BY <2>3, <2>4, <2>5, EditKeeps
<1>5. ASSUME NEW l \in Logs, NEW i \in DOMAIN file[l], NEW m \in Logs,
             NEW j \in 1 .. Len(file[m]) + 1, Copy(l, i, m, j)
      PROVE  AuditInv'
  <2> DEFINE S == ToSet(file[m]) \union {file[l][i]}
  <2>1. file[m] \in Seq(S) /\ file[l][i] \in S /\ \A x \in S : OfLog(x)
    BY <1>2, <1>5
  <2>2. Edit([file EXCEPT ![m] = InsertAt(file[m], j, file[l][i])])
    BY <1>5 DEF Copy
  <2> HIDE DEF S
  <2>3. InsertAt(file[m], j, file[l][i]) \in Seq(S)
    BY <2>1, LongerFile
  <2> QED  BY <2>1, <2>2, <2>3, EditKeeps
<1>6. ASSUME NEW l \in Logs, NEW i \in DOMAIN file[l],
             NEW j \in i + 1 .. Len(file[l]), Exchange(l, i, j)
      PROVE  AuditInv'
  <2> DEFINE s == file[l]
             t == [s EXCEPT ![i] = s[j]]
  <2>1. i \in 1 .. Len(s) /\ j \in 1 .. Len(s) /\ s[i] \in ToSet(s) /\ s[j] \in ToSet(s)
    BY <1>2, <1>6
  <2>2. t \in Seq(ToSet(s)) /\ Len(t) = Len(s)
    BY <1>2, <2>1, ExceptSeq
  <2>3. [t EXCEPT ![j] = s[i]] \in Seq(ToSet(s))
    BY <2>1, <2>2, ChangedFile
  <2>4. Edit([file EXCEPT ![l] = [t EXCEPT ![j] = s[i]]])
    BY <1>6 DEF Exchange
  <2> QED  BY <1>2, <2>3, <2>4, EditKeeps
<1>7. CASE UNCHANGED vars
  BY <1>7 DEF vars, AuditInv, FilesInv, WrittenInv, ParentInv, StandsOn, LineageInv,
              OfLog, Written
<1> QED  BY <1>1, <1>3, <1>4, <1>5, <1>6, <1>7 DEF Next

\* Empty files and no history.
LEMMA InitAudit == Init => AuditInv
<1> SUFFICES ASSUME Init PROVE AuditInv
  OBVIOUS
<1>1. Written = {} /\ edits = 0 /\ file = [l \in Logs |-> << >>]
  BY DEF Init, Written
<1>2. \A l \in Logs : file[l] = << >> /\ DOMAIN file[l] = {}
  BY <1>1
<1>3. FilesInv
  <2>1. << >> \in Seq(ToSet(<< >>)) /\ ToSet(<< >>) = {}
    BY DEF ToSet
  <2> QED  BY <1>1, <2>1 DEF FilesInv
<1>4. WrittenInv
  BY <1>1, FS_EmptySet, AuditAssumption DEF WrittenInv
<1> QED  BY <1>1, <1>3, <1>4 DEF AuditInv, ParentInv, LineageInv

\* The invariant.
THEOREM AuditInvariant == Spec => []AuditInv
BY InitAudit, AuditStep, PTL DEF Spec

\* Halts are numbered, and every record of a file is a halt's or an altered
\* one.
THEOREM TypeCorrect == Spec => []TypeOK
<1>1. ASSUME AuditInv PROVE TypeOK
  <2>1. Cardinality(Written) \in 0 .. MaxHalts /\ MaxHalts \in Nat
    BY <1>1, FS_CardinalityType, AuditAssumption DEF AuditInv, WrittenInv
  <2>2. edits \in 0 .. MaxEdits
    BY <1>1 DEF AuditInv, WrittenInv
  <2>3. \A r \in Written : r.id \in 1 .. MaxHalts /\ r.seq \in Nat \ {0}
    BY <1>1, <2>1 DEF AuditInv, WrittenInv
  <2>4. ASSUME NEW l \in Logs, NEW i \in DOMAIN file[l]
        PROVE  file[l][i].id \in {r.id : r \in Written}
    <3>1. file[l][i] \in ToSet(file[l])
      BY DEF ToSet
    <3> QED  BY <1>1, <3>1 DEF AuditInv, FilesInv, OfLog
  <2> QED  BY <2>1, <2>2, <2>3, <2>4 DEF TypeOK
<1> QED  BY AuditInvariant, <1>1, PTL

-----------------------------------------------------------------------------
(* What verify_chain says of a file *)

\* A file as verify_chain reads it; only number 1 starts a chain.
LEMMA FileIsLog ==
  ASSUME AuditInv, NEW l \in Logs, NEW s, s = file[l]
  PROVE  /\ IsLog(s) /\ StartsAtOne(s) /\ Len(s) \in Nat /\ DOMAIN s = 1 .. Len(s)
         /\ \A i \in DOMAIN s : OfLog(s[i]) /\ s[i].seq # 0
<1>1. s \in Seq(ToSet(s)) /\ \A x \in ToSet(s) : OfLog(x)
  BY DEF AuditInv, FilesInv
<1>2. Len(s) \in Nat /\ DOMAIN s = 1 .. Len(s)
  BY <1>1, SequenceOf
<1>3. \A i \in DOMAIN s : OfLog(s[i]) /\ s[i].seq \in Nat \ {0}
  BY <1>1 DEF ToSet, OfLog
<1>4. ASSUME NEW i \in DOMAIN s, verify_record(s[i]) = "valid", s[i].prev_hash = Unset
      PROVE  s[i].seq = 1
  <2>1. s[i] \in Written
    BY <1>3, <1>4, ValidIsWritten DEF AuditInv
  <2>2. StandsOn(s[i])
    BY <2>1 DEF AuditInv, ParentInv
  <2> QED  BY <1>4, <2>2 DEF StandsOn, record_content_hash, Unset
<1> QED  BY <1>1, <1>2, <1>3, <1>4 DEF IsLog, StartsAtOne

\* Looking up the id or the number of a record finds the only one there is.
LEMMA OnlyHit ==
  ASSUME NEW s, NEW ref, NEW i \in DOMAIN s,
         \A j \in DOMAIN s : s[j].id = ref.id \/ s[j].seq = ref.seq <=> j = i,
         i <= i
  PROVE  find(s, ref) = << s[i] >>
<1> DEFINE hits == {j \in DOMAIN s : s[j].id = ref.id \/ s[j].seq = ref.seq}
<1>1. hits = {i}
  OBVIOUS
<1>2. find(s, ref) = IF hits = {} THEN Unset
                     ELSE << s[CHOOSE j \in hits : \A k \in hits : j <= k] >>
  BY DEF find
<1> HIDE DEF hits
<1>3. (CHOOSE j \in hits : \A k \in hits : j <= k) = i
  BY <1>1
<1> QED  BY <1>1, <1>2, <1>3

\* In a log that verifies, `verify` finds every record by its id and by its
\* number.
THEOREM RecordsFindable == Spec => []IntactFindable
<1>1. ASSUME AuditInv, NEW l \in Logs, Intact(file[l]), NEW i \in DOMAIN file[l]
      PROVE  /\ find(file[l], ById(file[l][i])) = << file[l][i] >>
             /\ find(file[l], BySeq(file[l][i])) = << file[l][i] >>
  <2> DEFINE s == file[l]
  <2>1. /\ IsLog(s) /\ StartsAtOne(s) /\ Len(s) \in Nat /\ DOMAIN s = 1 .. Len(s)
        /\ \A j \in DOMAIN s : OfLog(s[j]) /\ s[j].seq # 0
    BY <1>1, FileIsLog
  <2>2. Signed(s) /\ \A j, k \in DOMAIN s : s[j].seq = s[k].seq => j = k
    BY <1>1, <2>1, IntactIffTree DEF Intact
  <2>3. \A j \in DOMAIN s : s[j] \in Written /\ s[j].id # 0
    <3>1. \A j \in DOMAIN s : s[j] \in Written
      BY <1>1, <2>1, <2>2, ValidIsWritten DEF AuditInv, Signed
    <3>2. Cardinality(Written) \in Nat /\ \A r \in Written : r.id \in 1 .. Cardinality(Written)
      BY <1>1, FS_CardinalityType DEF AuditInv, WrittenInv
    <3> QED  BY <3>1, <3>2
  <2>4. \A j, k \in DOMAIN s : s[j].id = s[k].id => j = k
    <3>1. \A j, k \in DOMAIN s : s[j].id = s[k].id => s[j] = s[k]
      BY <1>1, <2>3 DEF AuditInv, WrittenInv
    <3> QED  BY <2>2, <3>1
  <2>5. i \in DOMAIN s /\ i <= i
    BY <1>1, <2>1
  <2> HIDE DEF s
  <2>6. find(s, ById(s[i])) = << s[i] >>
    <3>1. ById(s[i]).id = s[i].id /\ ById(s[i]).seq = 0
      BY DEF ById
    <3>2. \A j \in DOMAIN s : s[j].id = ById(s[i]).id \/ s[j].seq = ById(s[i]).seq <=> j = i
      BY <2>1, <2>4, <2>5, <3>1
    <3> QED  BY <2>5, <3>2, OnlyHit
  <2>7. find(s, BySeq(s[i])) = << s[i] >>
    <3>1. BySeq(s[i]).id = 0 /\ BySeq(s[i]).seq = s[i].seq
      BY DEF BySeq
    <3>2. \A j \in DOMAIN s : s[j].id = BySeq(s[i]).id \/ s[j].seq = BySeq(s[i]).seq <=> j = i
      BY <2>2, <2>3, <2>5, <3>1
    <3> QED  BY <2>5, <3>2, OnlyHit
  <2> QED  BY <2>6, <2>7 DEF s
<1>2. AuditInv => IntactFindable
  BY <1>1 DEF IntactFindable
<1> QED  BY AuditInvariant, <1>2, PTL

-----------------------------------------------------------------------------
(* What an intact log holds *)

\* Logs without repeated records are permutations exactly if they hold the
\* same ones.
LEMMA SameRecords ==
  ASSUME NEW s, NEW t, \A i, j \in DOMAIN t : t[i] = t[j] => i = j,
         s \in Seq(ToSet(s)), t \in Seq(ToSet(t))
  PROVE  IsPermutation(s, t)
           <=> /\ ToSet(s) = ToSet(t)
               /\ \A i, j \in DOMAIN s : s[i] = s[j] => i = j
<1> DEFINE Lines(u, x) == {i \in DOMAIN u : u[i] = x}
<1>1. \A u : /\ DOMAIN ToBag(u) = ToSet(u)
             /\ \A x \in ToSet(u) : ToBag(u)[x] = Cardinality(Lines(u, x))
             /\ ToBag(u) = [x \in ToSet(u) |-> Cardinality(Lines(u, x))]
  BY Zenon DEF ToBag, Range, ToSet
<1>2. ASSUME NEW u, u \in Seq(ToSet(u)), NEW x \in ToSet(u)
      PROVE  Cardinality(Lines(u, x)) = 1
               <=> \A i, j \in DOMAIN u : u[i] = x /\ u[j] = x => i = j
  <2>1. Len(u) \in Nat /\ DOMAIN u = 1 .. Len(u)
    BY <1>2, SequenceOf
  <2>2. IsFiniteSet(Lines(u, x))
    <3>1. IsFiniteSet(1 .. Len(u))
      BY <2>1, FS_Interval
    <3> QED  BY <2>1, <3>1, FS_Subset
  <2>3. Cardinality(Lines(u, x)) = 1 <=> \E i : Lines(u, x) = {i}
    BY <2>2, FS_Singleton
  <2>4. ASSUME NEW k, Lines(u, x) = {k}, NEW i \in DOMAIN u, NEW j \in DOMAIN u,
               u[i] = x, u[j] = x
        PROVE  i = j
    <3>1. i \in Lines(u, x) /\ j \in Lines(u, x)
      BY <2>4
    <3> HIDE DEF Lines
    <3> QED  BY <2>4, <3>1
  <2>5. ASSUME \A i, j \in DOMAIN u : u[i] = x /\ u[j] = x => i = j
        PROVE  \E i : Lines(u, x) = {i}
    <3>1. PICK i \in DOMAIN u : u[i] = x
      BY DEF ToSet
    <3>2. Lines(u, x) = {i}
      BY <2>5, <3>1
    <3> QED  BY <3>2
  <2> HIDE DEF Lines
  <2> QED  BY <2>3, <2>4, <2>5
<1> HIDE DEF Lines
<1>3. \A x \in ToSet(t) : Cardinality(Lines(t, x)) = 1
  BY <1>2
<1>4. ASSUME IsPermutation(s, t)
      PROVE  /\ ToSet(s) = ToSet(t)
             /\ \A i, j \in DOMAIN s : s[i] = s[j] => i = j
  <2>1. ToBag(s) = ToBag(t)
    BY <1>4 DEF IsPermutation
  <2>2. ToSet(s) = ToSet(t)
    BY <1>1, <2>1
  <2>3. \A x \in ToSet(s) : Cardinality(Lines(s, x)) = 1
    BY <1>1, <1>3, <2>1, <2>2
  <2>4. \A i \in DOMAIN s : s[i] \in ToSet(s)
    BY DEF ToSet
  <2> QED  BY <1>2, <2>2, <2>3, <2>4
<1>5. ASSUME ToSet(s) = ToSet(t), \A i, j \in DOMAIN s : s[i] = s[j] => i = j
      PROVE  IsPermutation(s, t)
  <2>1. \A x \in ToSet(s) : Cardinality(Lines(s, x)) = 1
    BY <1>2, <1>5
  <2>2. [x \in ToSet(s) |-> Cardinality(Lines(s, x))]
          = [x \in ToSet(t) |-> Cardinality(Lines(t, x))]
    BY <1>3, <1>5, <2>1
  <2> QED  BY <1>1, <2>2 DEF IsPermutation
<1> QED  BY <1>4, <1>5

\* In a linked log of halts' records, from its start, each record's lineage is
\* the log up to it: induction over the places.
LEMMA LinkedIsLineage ==
  ASSUME AuditInv, NEW o, o \in Seq(ToSet(o)), ToSet(o) \subseteq Written,
         NEW n \in Nat, n = Len(o), n # 0, o[1].prev_hash = Unset, Linked(o)
  PROVE  lineage[o[n]] = o
<1> DEFINE G == {k \in 1 .. n : lineage[o[k]] = SubSeq(o, 1, k)}
<1>1. /\ DOMAIN o = 1 .. n
      /\ \A k \in 1 .. n : o[k] \in Written /\ StandsOn(o[k])
  <2>1. DOMAIN o = 1 .. n
    BY SequenceOf
  <2> QED  BY <2>1 DEF ToSet, AuditInv, ParentInv
<1>2. ASSUME NEW k \in 1 .. n
      PROVE  /\ SubSeq(o, 1, k) \in Seq(ToSet(SubSeq(o, 1, k)))
             /\ Len(SubSeq(o, 1, k)) = k
             /\ \A i \in 1 .. k : SubSeq(o, 1, k)[i] = o[i]
  BY KeepLines
<1>3. 1 \in G
  <2>1. 1 \in 1 .. n /\ o[1].prev_hash # record_content_hash(o[1].prev_hash[1])
    BY DEF record_content_hash, Unset
  <2>2. lineage[o[1]] = << o[1] >>
    BY <1>1, <2>1 DEF StandsOn
  <2>3. << o[1] >> = SubSeq(o, 1, 1)
    OBVIOUS
  <2> QED  BY <2>1, <2>2, <2>3
<1>4. ASSUME NEW k \in 1 .. n, k \in G, k + 1 <= n PROVE k + 1 \in G
  <2>1. k \in 1 .. Len(o) - 1 /\ k + 1 \in 1 .. n /\ k + 1 \in Nat /\ k \in Nat
    BY <1>4
  <2>2. o[k + 1].prev_hash = record_content_hash(o[k])
    BY <2>1 DEF Linked
  <2>3. o[k + 1].prev_hash # Unset /\ o[k + 1].prev_hash[1] = o[k]
    BY <2>2 DEF record_content_hash, Unset
  <2>4. lineage[o[k + 1]] = Append(lineage[o[k]], o[k + 1])
    <3>1. o[k] \in Written /\ StandsOn(o[k + 1])
      BY <1>1, <2>1
    <3> QED  BY <2>3, <3>1 DEF StandsOn
  <2>5. lineage[o[k]] = SubSeq(o, 1, k)
    BY <1>4
  <2>6. Append(SubSeq(o, 1, k), o[k + 1]) = SubSeq(o, 1, k + 1)
    <3> DEFINE c == SubSeq(o, 1, k)
               a == Append(c, o[k + 1])
               b == SubSeq(o, 1, k + 1)
    <3>1. /\ a \in Seq(ToSet(a)) /\ Len(a) = k + 1 /\ a[k + 1] = o[k + 1]
          /\ \A i \in 1 .. k : a[i] = o[i]
      <4>1. c \in Seq(ToSet(c)) /\ Len(c) = k /\ \A i \in 1 .. k : c[i] = o[i]
        BY <1>2
      <4> HIDE DEF c
      <4> QED  BY <4>1, AppendLine
    <3>2. /\ b \in Seq(ToSet(b)) /\ Len(b) = k + 1
          /\ \A i \in 1 .. k + 1 : b[i] = o[i]
      BY <1>2, <2>1
    <3> HIDE DEF a, b
    <3>3. \A i \in 1 .. k + 1 : a[i] = b[i]
      BY <2>1, <3>1, <3>2
    <3>4. a = b
      BY <3>1, <3>2, <3>3, SameSequence
    <3> QED  BY <3>4 DEF a, b
  <2> QED  BY <2>1, <2>4, <2>5, <2>6
<1>5. \A k \in 1 .. n : k \in G
  <2> HIDE DEF G
  <2> QED  BY <1>3, <1>4, UpTo
<1>6. lineage[o[n]] = SubSeq(o, 1, n)
  BY <1>5
<1>7. SubSeq(o, 1, n) = o
  <2> DEFINE b == SubSeq(o, 1, n)
  <2>1. b \in Seq(ToSet(b)) /\ Len(b) = n /\ \A i \in 1 .. n : b[i] = o[i]
    BY <1>2
  <2> HIDE DEF b
  <2>2. b = o
    BY <2>1, SameSequence
  <2> QED  BY <2>2 DEF b
<1> QED  BY <1>6, <1>7

\* A file that verifies holds, in some order, the full lineage of one record,
\* all signed.
LEMMA IntactHasLineage ==
  ASSUME AuditInv, NEW l \in Logs, Intact(file[l]), file[l] # << >>
  PROVE  \E r \in Written : AllSigned(lineage[r]) /\ IsPermutation(file[l], lineage[r])
<1> DEFINE s == file[l]
           o == sorted_by_seq(s)
           n == Len(s)
<1>1. /\ IsLog(s) /\ StartsAtOne(s) /\ n \in Nat /\ DOMAIN s = 1 .. n
      /\ \A i \in DOMAIN s : OfLog(s[i]) /\ s[i].seq # 0
  BY FileIsLog
<1>2. /\ Signed(s) /\ o[1].prev_hash = Unset /\ Linked(o)
      /\ \A k \in 1 .. n : o[k].seq = k
  BY <1>1, IntactCounts DEF Intact
<1>3. \A i, j \in DOMAIN s : s[i].seq = s[j].seq => i = j
  BY <1>1, IntactIffTree DEF Intact
<1>4. /\ DOMAIN o = 1 .. n /\ o \in Seq(ToSet(o)) /\ Len(o) = n
      /\ \A k \in 1 .. n : o[k] = s[Place(s, k)]
      /\ \A i \in DOMAIN s : Rank(s, i) \in 1 .. n /\ o[Rank(s, i)] = s[i]
  BY <1>1, SortedLog
<1>5. \A k \in 1 .. n : Place(s, k) \in DOMAIN s
  BY <1>1, PlacesOfLines
<1>6. n # 0
  BY <1>1, EmptySeq DEF IsLog
<1> HIDE DEF s, o, n
<1>7. ToSet(o) = ToSet(s)
  BY <1>4, <1>5 DEF ToSet
<1>8. \A k \in 1 .. n : o[k] \in Written /\ verify_record(o[k]) = "valid"
  <2> SUFFICES ASSUME NEW k \in 1 .. n
               PROVE  o[k] \in Written /\ verify_record(o[k]) = "valid"
    OBVIOUS
  <2>1. PICK i \in DOMAIN s : o[k] = s[i]
    BY <1>4, <1>5
  <2>2. OfLog(s[i]) /\ verify_record(s[i]) = "valid"
    BY <1>1, <1>2 DEF Signed
  <2>3. WrittenInv
    BY DEF AuditInv
  <2>4. s[i] \in Written
    BY <2>2, <2>3, ValidIsWritten
  <2> QED  BY <2>1, <2>2, <2>4
<1>9. ToSet(o) \subseteq Written
  BY <1>4, <1>8 DEF ToSet
<1>10. lineage[o[n]] = o
  BY <1>1, <1>2, <1>4, <1>6, <1>9, LinkedIsLineage
<1>11. AllSigned(o)
  BY <1>4, <1>8 DEF AllSigned
<1>12. IsPermutation(s, o)
  <2>1. \A i, j \in DOMAIN o : o[i] = o[j] => i = j
    BY <1>2, <1>4
  <2>2. s \in Seq(ToSet(s)) /\ \A i, j \in DOMAIN s : s[i] = s[j] => i = j
    BY <1>1, <1>3 DEF IsLog
  <2> QED  BY <1>4, <1>7, <2>1, <2>2, SameRecords
<1>13. o[n] \in Written
  BY <1>1, <1>6, <1>8
<1> QED  BY <1>10, <1>11, <1>12, <1>13 DEF s

\* And one that holds such a lineage verifies.
LEMMA LineageIsIntact ==
  ASSUME AuditInv, NEW l \in Logs, NEW r \in Written,
         AllSigned(lineage[r]), IsPermutation(file[l], lineage[r])
  PROVE  Intact(file[l])
<1> DEFINE s == file[l]
           c == lineage[r]
           n == Len(c)
<1>1. /\ IsLog(s) /\ StartsAtOne(s)
      /\ \A i \in DOMAIN s : s[i].seq # 0
  BY FileIsLog
<1>2. /\ c \in Seq(ToSet(c)) /\ Rooted(c) /\ ToSet(c) \subseteq Written
  BY DEF AuditInv, LineageInv
<1>3. n \in Nat /\ DOMAIN c = 1 .. n
  BY <1>2, SequenceOf
<1>4. IsPermutation(s, c)
  OBVIOUS
<1>5. AllSigned(c)
  OBVIOUS
<1> HIDE DEF s, c, n
<1>6. \A k \in 1 .. n : c[k].seq \in Nat
  BY <1>2, <1>3 DEF ToSet, AuditInv, WrittenInv
<1>7. \A k \in 1 .. n : c[k].seq = k
  <2>1. \A k \in 1 .. n : c[k].seq = c[1].seq + k - 1
    BY <1>2, <1>3, <1>6, LinkedCounts DEF Rooted, n
  <2> QED  BY <1>2, <1>3, <2>1 DEF Rooted
<1>8. \A i, j \in DOMAIN c : c[i] = c[j] => i = j
  BY <1>3, <1>7
<1>9. ToSet(s) = ToSet(c) /\ \A i, j \in DOMAIN s : s[i] = s[j] => i = j
  BY <1>1, <1>2, <1>4, <1>8, SameRecords DEF IsLog
<1>10. \A i \in DOMAIN s : \E k \in 1 .. n : s[i] = c[k]
  BY <1>3, <1>9 DEF ToSet
<1>11. \A k \in 1 .. n : \E i \in DOMAIN s : s[i] = c[k]
  BY <1>3, <1>9 DEF ToSet
<1>12. Signed(s)
  BY <1>3, <1>5, <1>10 DEF Signed, AllSigned
<1>13. \A i, j \in DOMAIN s : s[i].seq = s[j].seq => i = j
  BY <1>7, <1>9, <1>10
<1>14. ASSUME NEW i \in DOMAIN s PROVE HasParent(s, i)
  <2>1. PICK k \in 1 .. n : s[i] = c[k]
    BY <1>10
  <2>2. CASE k = 1
    BY <1>2, <2>1, <2>2 DEF HasParent, Rooted
  <2>3. CASE k # 1
    <3>1. k - 1 \in 1 .. Len(c) - 1 /\ k - 1 \in 1 .. n /\ k - 1 + 1 = k
      BY <1>3, <2>3 DEF n
    <3>2. /\ c[k].seq = c[k - 1].seq + 1
          /\ c[k].prev_hash = record_content_hash(c[k - 1])
      BY <1>2, <3>1 DEF Rooted, Linked
    <3>3. PICK j \in DOMAIN s : s[j] = c[k - 1]
      BY <1>11, <3>1
    <3> QED  BY <2>1, <3>2, <3>3 DEF HasParent
  <2> QED  BY <2>2, <2>3
<1>15. verify_chain(s) = "intact"
  BY <1>1, <1>12, <1>13, <1>14, IntactIffTree
<1> QED  BY <1>15 DEF Intact, s

\* What verify_chain proves, exactly: a log it accepts is empty or holds, in
\* some order, the full signed lineage of a record a halt wrote.
THEOREM IntactMeansLineage == Spec => []IntactIffLineage
<1>1. ASSUME AuditInv PROVE IntactIffLineage
  <2>1. Intact(<< >>)
    BY DEF Intact, verify_chain
  <2> QED  BY <1>1, <2>1, IntactHasLineage, LineageIsIntact DEF IntactIffLineage
<1> QED  BY AuditInvariant, <1>1, PTL

\* A further halt never makes a broken log pass, and keeps a good one good
\* exactly if it signs and the last line is the newest record.
THEOREM HaltsKeepVerdicts == Spec => HaltKeepsVerdict
<1>1. ASSUME AuditInv, NEW l \in Logs, Halt(l)
      PROVE  Intact(file'[l]) <=>
               /\ Intact(file[l])
               /\ verify_record(Last(file'[l])) = "valid"
               /\ file[l] # << >> => Last(file[l]).seq = Len(file[l])
  <2>1. PICK r : /\ file' = [file EXCEPT ![l] = Append(file[l], r)]
                 /\ r.id = Cardinality(Written) + 1 /\ r.seq \in Nat \ {0}
                 /\ file[l] = << >> => r.seq = 1 /\ r.prev_hash = Unset
                 /\ file[l] # << >> =>
                      /\ r.seq = Last(file[l]).seq + 1
                      /\ r.prev_hash = record_content_hash(Last(file[l]))
    BY <1>1, HaltMakes
  <2>2. PICK s : s = file[l]
    OBVIOUS
  <2>3. /\ IsLog(s) /\ StartsAtOne(s)
        /\ \A i \in DOMAIN s : OfLog(s[i]) /\ s[i].seq # 0
    BY <1>1, <2>2, FileIsLog
  <2>4. file'[l] = Append(s, r) /\ Last(Append(s, r)) = r
    <3>1. DOMAIN file = Logs /\ s # << >> => s \in Seq(ToSet(s))
      BY <1>1, <2>3 DEF AuditInv, FilesInv, IsLog
    <3>2. file'[l] = Append(s, r)
      BY <1>1, <2>1, <2>2 DEF AuditInv, FilesInv
    <3>3. /\ Append(s, r) \in Seq(ToSet(Append(s, r))) /\ Len(Append(s, r)) = Len(s) + 1
          /\ Append(s, r)[Len(s) + 1] = r
      BY <2>3, AppendLine DEF IsLog
    <3> QED  BY <3>2, <3>3 DEF Last
  <2>5. ASSUME NEW i \in DOMAIN s, verify_record(s[i]) = "valid"
        PROVE  s[i].prev_hash # record_content_hash(r)
    <3>1. s[i] \in Written
      BY <1>1, <2>3, <2>5, ValidIsWritten DEF AuditInv
    <3>2. StandsOn(s[i])
      BY <1>1, <3>1 DEF AuditInv, ParentInv
    <3>3. ~OfLog(r)
      <4>1. \A q \in Written : q.id \in 1 .. Cardinality(Written) /\ Cardinality(Written) \in Nat
        BY <1>1, FS_CardinalityType DEF AuditInv, WrittenInv
      <4> QED  BY <2>1, <4>1 DEF OfLog
    <3> QED  BY <3>2, <3>3, DigestsTell DEF StandsOn, record_content_hash, Unset
  <2>6. verify_chain(Append(s, r)) = "intact"
           <=> /\ verify_chain(s) = "intact"
               /\ verify_record(r) = "valid"
               /\ s # << >> => Last(s).seq = Len(s)
    BY <2>1, <2>2, <2>3, <2>5, VerdictGrows
  <2> QED  BY <2>2, <2>4, <2>6 DEF Intact
<1>2. ASSUME AuditInv, [Next]_vars
      PROVE  [\A l \in Logs :
                lineage' # lineage /\ file'[l] # file[l] =>
                  (Intact(file'[l]) <=>
                     /\ Intact(file[l])
                     /\ verify_record(Last(file'[l])) = "valid"
                     /\ file[l] # << >> => Last(file[l]).seq = Len(file[l]))]_vars
  <2>1. SUFFICES ASSUME NEW l \in Logs, Next, lineage' # lineage, file'[l] # file[l]
                 PROVE  Halt(l)
    BY <1>1, <1>2
  <2>2. PICK m \in Logs : Halt(m)
    BY <2>1 DEF Next, Delete, Alter, Copy, Exchange, Edit
  <2>3. \A k \in Logs \ {m} : file'[k] = file[k]
    BY <1>2, <2>2 DEF Halt, AuditInv, FilesInv
  <2> QED  BY <2>1, <2>2, <2>3
<1> QED  BY AuditInvariant, <1>2, PTL DEF Spec, HaltKeepsVerdict
=============================================================================
