---------------------------- MODULE ShellProofs ----------------------------
(* A name's way through the system, for any directory, any lines and any      *)
(* lengths of the name field and of the buffers.                              *)
EXTENDS Shell, SequenceTheorems, WellFoundedInduction, TLAPS

-----------------------------------------------------------------------------
(* C strings *)

\* A set of numbers has a least one.
LEMMA Least ==
    ASSUME NEW T \in SUBSET Nat, T # {}
    PROVE  /\ \E m \in T : \A k \in T : m <= k
           /\ Min(T) \in T /\ \A k \in T : Min(T) <= k
<1>1. PICK m \in T : \A k \in T : ~(<<k, m>> \in OpToRel(<, Nat))
  BY WFMin, NatLessThanWellFounded, Zenon
<1>2. \A k \in T : ~(k < m)
  BY <1>1 DEF OpToRel
<1>3. \E x \in T : \A k \in T : x <= k
  BY <1>2
<1> QED
  BY <1>3, Zenon DEF Min

\* strlen is the number of bytes before the first NUL, or all there are ...
LEMMA StrlenFacts ==
    ASSUME NEW A, NEW b \in Seq(A)
    PROVE  /\ strlen(b) \in 0 .. Len(b)
           /\ \A i \in 1 .. strlen(b) : b[i] # NUL
           /\ strlen(b) < Len(b) => b[strlen(b) + 1] = NUL
<1> DEFINE I == {i \in 1 .. Len(b) : b[i] = NUL}
<1>1. Len(b) \in Nat /\ I \in SUBSET Nat
  OBVIOUS
<1>2. CString(b) = IF I # {} THEN Min(I) ELSE 0
  BY DEF CString, SelectInSeq
<1>3. CASE I = {}
  <2>1. strlen(b) = Len(b)
    BY <1>2, <1>3 DEF strlen
  <2> QED
    BY <1>1, <1>3, <2>1
<1>4. CASE I # {}
  <2>1. Min(I) \in I /\ \A k \in I : Min(I) <= k
    BY <1>1, <1>4, Least
  <2>2. strlen(b) = Min(I) - 1
    BY <1>2, <1>4, <2>1 DEF strlen
  <2>3. Min(I) \in 1 .. Len(b) /\ b[Min(I)] = NUL
    BY <2>1
  <2>4. \A i \in 1 .. Min(I) - 1 : b[i] # NUL
    BY <1>1, <2>1, <2>3
  <2> HIDE DEF I
  <2> QED
    BY <1>1, <2>2, <2>3, <2>4
<1> QED
  BY <1>3, <1>4

\* ... and nothing else is.
LEMMA StrlenIs ==
    ASSUME NEW A, NEW b \in Seq(A), NEW k \in 0 .. Len(b),
           \A i \in 1 .. k : b[i] # NUL,
           k < Len(b) => b[k + 1] = NUL
    PROVE  strlen(b) = k
<1>1. /\ strlen(b) \in 0 .. Len(b) /\ \A i \in 1 .. strlen(b) : b[i] # NUL
      /\ strlen(b) < Len(b) => b[strlen(b) + 1] = NUL
  BY StrlenFacts
<1>2. Len(b) \in Nat
  OBVIOUS
<1>3. ~(strlen(b) < k)
  BY <1>1, <1>2
<1>4. ~(k < strlen(b))
  BY <1>1, <1>2
<1> QED
  BY <1>1, <1>2, <1>3, <1>4

LEMMA TextFacts ==
    ASSUME NEW A, NEW b \in Seq(A)
    PROVE  /\ Text(b) \in Seq(A) /\ Len(Text(b)) = strlen(b)
           /\ \A i \in 1 .. strlen(b) : Text(b)[i] = b[i] /\ b[i] # NUL
<1>1. strlen(b) \in 0 .. Len(b) /\ Len(b) \in Nat
  BY StrlenFacts
<1>2. \A i \in 1 .. strlen(b) : b[i] \in A
  BY <1>1
<1>3. /\ SubSeq(b, 1, strlen(b)) \in Seq(A)
      /\ Len(SubSeq(b, 1, strlen(b))) = IF 1 <= strlen(b) THEN strlen(b) - 1 + 1 ELSE 0
      /\ \A i \in 1 .. strlen(b) - 1 + 1 : SubSeq(b, 1, strlen(b))[i] = b[1 + i - 1]
  BY <1>1, <1>2, SubSeqProperties
<1> QED
  BY <1>1, <1>3, StrlenFacts DEF Text

\* A buffer that starts with a line and a NUL behind it, or nothing, holds it.
LEMMA TextIs ==
    ASSUME NEW A, NEW b \in Seq(A), NEW line \in Seq(A), Len(line) <= Len(b),
           \A i \in 1 .. Len(line) : b[i] = line[i] /\ line[i] # NUL,
           Len(line) < Len(b) => b[Len(line) + 1] = NUL
    PROVE  Text(b) = line
<1>1. strlen(b) = Len(line)
  BY StrlenIs, SMTT(30)
<1>2. Text(b) \in Seq(A) /\ Len(Text(b)) = Len(line)
      /\ \A i \in 1 .. Len(line) : Text(b)[i] = b[i]
  BY <1>1, TextFacts
<1> QED
  BY <1>2, SeqEqual

LEMMA WordFacts ==
    ASSUME NEW A, NEW line \in Seq(A)
    PROVE  /\ WordLength(line) \in 0 .. Len(line)
           /\ WordLength(line) < Len(line) => line[WordLength(line) + 1] = SPACE
           /\ Word(line) \in Seq(A) /\ Len(Word(line)) = WordLength(line)
           /\ \A i \in 1 .. WordLength(line) : Word(line)[i] = line[i]
<1> DEFINE I == {i \in 1 .. Len(line) : line[i] = SPACE}
           n == WordLength(line)
<1>1. Len(line) \in Nat /\ I \in SUBSET Nat
  OBVIOUS
<1>2. SelectInSeq(line, LAMBDA b : b = SPACE) = IF I # {} THEN Min(I) ELSE 0
  BY DEF SelectInSeq
<1>3. n \in 0 .. Len(line) /\ (n < Len(line) => line[n + 1] = SPACE)
  <2>1. CASE I = {}
    BY <1>1, <1>2, <2>1 DEF WordLength
  <2>2. CASE I # {}
    <3>1. Min(I) \in I
      BY <1>1, <2>2, Least
    <3>2. n = Min(I) - 1
      BY <1>2, <2>2, <3>1 DEF WordLength
    <3> QED
      BY <1>1, <3>1, <3>2
  <2> QED
    BY <2>1, <2>2
<1> HIDE DEF n
<1>4. \A i \in 1 .. n : line[i] \in A
  BY <1>1, <1>3
<1>5. /\ SubSeq(line, 1, n) \in Seq(A)
      /\ Len(SubSeq(line, 1, n)) = IF 1 <= n THEN n - 1 + 1 ELSE 0
      /\ \A i \in 1 .. n - 1 + 1 : SubSeq(line, 1, n)[i] = line[1 + i - 1]
  BY <1>1, <1>3, <1>4, SubSeqProperties
<1>6. Word(line) = SubSeq(line, 1, n)
  BY DEF Word, n
<1> QED
  BY <1>1, <1>3, <1>5, <1>6 DEF n

LEMMA FilledFacts ==
    ASSUME NEW A, NUL \in A, NEW text \in Seq(A), NEW n \in Nat, Len(text) <= n
    PROVE  /\ Filled(text, n) \in Seq(A) /\ Len(Filled(text, n)) = n
           /\ \A i \in 1 .. n : Filled(text, n)[i] = IF i <= Len(text) THEN text[i] ELSE NUL
<1> DEFINE pad == [k \in 1 .. n - Len(text) |-> NUL]
<1>1. n - Len(text) \in Nat /\ Len(text) \in Nat
  OBVIOUS
<1>2. pad \in Seq(A) /\ Len(pad) = n - Len(text)
      /\ \A i \in 1 .. n - Len(text) : pad[i] = NUL
  BY <1>1
<1> HIDE DEF pad
<1>3. /\ text \o pad \in Seq(A) /\ Len(text \o pad) = Len(text) + Len(pad)
      /\ \A i \in 1 .. Len(text) + Len(pad) :
           (text \o pad)[i] = IF i <= Len(text) THEN text[i] ELSE pad[i - Len(text)]
  BY <1>2, ConcatProperties
<1>4. Filled(text, n) = text \o pad
  BY DEF Filled, pad
<1> QED
  BY <1>1, <1>2, <1>3, <1>4

-----------------------------------------------------------------------------
(* The directory *)

LEMMA MinOfTwo ==
    ASSUME NEW a \in Nat, NEW b \in Nat
    PROVE  Min({a, b}) = IF a <= b THEN a ELSE b
<1>1. {a, b} \in SUBSET Nat /\ {a, b} # {}
  OBVIOUS
<1>2. Min({a, b}) \in {a, b} /\ \A k \in {a, b} : Min({a, b}) <= k
  BY <1>1, Least, Zenon
<1> QED
  BY <1>2

LEMMA Sizes ==
    /\ MAX_FILENAME_LEN \in Nat \ {0} /\ BUFSIZE \in Nat \ {0} /\ Len(Disk) \in Nat
    /\ NUL \in Bytes /\ SPACE \in Bytes /\ NUL # SPACE
BY ShellAssumption DEF Bytes

LEMMA EntryTypes ==
    ASSUME NEW n \in Index
    PROVE  /\ Disk[n].filename \in Seq(Bytes) /\ Len(Disk[n].filename) = MAX_FILENAME_LEN
           /\ \A i \in 1 .. MAX_FILENAME_LEN :
                Disk[n].filename[i] \in Bytes /\ Disk[n].filename[i] # SPACE
           /\ Disk[n].filename[1] # NUL
           /\ Disk[n].filetype \in FileType /\ Disk[n].program \in BOOLEAN
<1> DEFINE E == [filename : [1 .. MAX_FILENAME_LEN -> Bytes \ {SPACE}],
                 filetype : FileType, program : BOOLEAN]
<1>1. Disk \in Seq(E) /\ Disk[n].filename[1] # NUL
  BY ShellAssumption
<1>2. Disk[n] \in E
  <2> HIDE DEF E
  <2> QED
    BY <1>1 DEF Index
<1>3. Disk[n].filename \in [1 .. MAX_FILENAME_LEN -> Bytes \ {SPACE}]
      /\ Disk[n].filetype \in FileType /\ Disk[n].program \in BOOLEAN
  BY <1>2
<1>4. Disk[n].filename \in [1 .. MAX_FILENAME_LEN -> Bytes]
  BY <1>3
<1>5. Disk[n].filename \in Seq(Bytes) /\ Len(Disk[n].filename) = MAX_FILENAME_LEN
  BY <1>4, Sizes
<1> QED
  BY <1>1, <1>3, <1>5

\* Cut to its field, strlen of a name is the length ls shows, even when the
\* name fills the field and strlen runs into the file type.
LEMMA EntryFacts ==
    ASSUME NEW n \in Index
    PROVE  /\ FieldLength(n) \in 1 .. MAX_FILENAME_LEN
           /\ LsLine(n) = Text(Disk[n].filename)
           /\ LsLine(n) \in Seq(Bytes) /\ Len(LsLine(n)) = FieldLength(n)
           /\ \A i \in 1 .. FieldLength(n) :
                LsLine(n)[i] = Disk[n].filename[i] /\ LsLine(n)[i] # NUL
<1> DEFINE A    == Bytes \cup FileType
           b    == Disk[n].filename
           tail == <<Disk[n].filetype, NUL>>
           d    == Dentry(n)
           k    == strlen(b)
           cut  == SubSeq(d, 1, k)
<1>1. b \in Seq(A) /\ b \in Seq(Bytes) /\ Len(b) = MAX_FILENAME_LEN /\ b[1] # NUL
      /\ tail \in Seq(A) /\ Len(tail) = 2 /\ tail[2] = NUL
      /\ MAX_FILENAME_LEN \in Nat \ {0}
  BY EntryTypes, Sizes
<1>2. /\ k \in 0 .. Len(b) /\ \A i \in 1 .. k : b[i] # NUL
      /\ k < Len(b) => b[k + 1] = NUL
  <2> HIDE DEF b
  <2> QED
    BY <1>1, StrlenFacts
<1>3. k \in 1 .. MAX_FILENAME_LEN
  BY <1>1, <1>2
<1>4. /\ d \in Seq(A) /\ Len(d) = MAX_FILENAME_LEN + 2
      /\ \A i \in 1 .. MAX_FILENAME_LEN : d[i] = b[i]
  <2>1. d = b \o tail
    BY DEF Dentry
  <2> HIDE DEF b, tail, d, A
  <2>2. /\ b \o tail \in Seq(A) /\ Len(b \o tail) = Len(b) + Len(tail)
        /\ \A i \in 1 .. Len(b) + Len(tail) :
             (b \o tail)[i] = IF i <= Len(b) THEN b[i] ELSE tail[i - Len(b)]
    BY <1>1, ConcatProperties
  <2> QED
    BY <1>1, <2>1, <2>2
<1>5. Min({strlen(d), MAX_FILENAME_LEN}) = k
  <2> HIDE DEF b, d, k, A
  <2>1. /\ strlen(d) \in 0 .. Len(d) /\ \A i \in 1 .. strlen(d) : d[i] # NUL
        /\ strlen(d) < Len(d) => d[strlen(d) + 1] = NUL
    BY <1>4, StrlenFacts
  <2>2. ~(strlen(d) < k)
    BY <1>1, <1>2, <1>3, <1>4, <2>1
  <2>3. k < MAX_FILENAME_LEN => ~(k < strlen(d))
    BY <1>1, <1>2, <1>3, <1>4, <2>1
  <2>4. strlen(d) \in Nat /\ MAX_FILENAME_LEN \in Nat
    BY <1>1, <1>4, <2>1
  <2>5. Min({strlen(d), MAX_FILENAME_LEN})
          = IF strlen(d) <= MAX_FILENAME_LEN THEN strlen(d) ELSE MAX_FILENAME_LEN
    BY <2>4, MinOfTwo
  <2> QED
    BY <1>3, <2>2, <2>3, <2>4, <2>5
<1>6. FieldLength(n) = k /\ LsLine(n) = SubSeq(Filled(cut, MAX_FILENAME_LEN), 1, k)
  BY <1>5, Zenon DEF FieldLength, LsLine, DirRead, strncpy
<1> HIDE DEF b, d, k, A, tail
<1>7. cut \in Seq(A) /\ Len(cut) = k /\ \A i \in 1 .. k : cut[i] = b[i]
  <2>1. \A i \in 1 .. k : d[i] \in A /\ d[i] = b[i]
    BY <1>1, <1>3, <1>4
  <2>2. k \in Int /\ 1 \in Int
    BY <1>3
  <2>3. /\ cut \in Seq(A) /\ Len(cut) = IF 1 <= k THEN k - 1 + 1 ELSE 0
        /\ \A i \in 1 .. k - 1 + 1 : cut[i] = d[1 + i - 1]
    BY <2>1, <2>2, SubSeqProperties
  <2> QED
    BY <1>3, <2>1, <2>3
<1> HIDE DEF cut
<1>8. \A i \in 1 .. k : Filled(cut, MAX_FILENAME_LEN)[i] = b[i]
  <2>1. NUL \in A /\ Len(cut) <= MAX_FILENAME_LEN /\ MAX_FILENAME_LEN \in Nat
    BY <1>1, <1>3, <1>7, Sizes DEF A
  <2>2. \A i \in 1 .. MAX_FILENAME_LEN :
          Filled(cut, MAX_FILENAME_LEN)[i] = IF i <= Len(cut) THEN cut[i] ELSE NUL
    BY <1>7, <2>1, FilledFacts
  <2> QED
    BY <1>1, <1>3, <1>7, <2>2
<1>9. LsLine(n) \in Seq(Bytes) /\ Len(LsLine(n)) = k /\ \A i \in 1 .. k : LsLine(n)[i] = b[i]
  <2> DEFINE f == Filled(cut, MAX_FILENAME_LEN)
  <2>1. \A i \in 1 .. k : f[i] \in Bytes /\ f[i] = b[i]
    BY <1>1, <1>3, <1>8
  <2> HIDE DEF f
  <2>2. k \in Int /\ 1 \in Int
    BY <1>3
  <2>3. /\ SubSeq(f, 1, k) \in Seq(Bytes) /\ Len(SubSeq(f, 1, k)) = IF 1 <= k THEN k - 1 + 1 ELSE 0
        /\ \A i \in 1 .. k - 1 + 1 : SubSeq(f, 1, k)[i] = f[1 + i - 1]
    BY <2>1, <2>2, SubSeqProperties
  <2> QED
    BY <1>3, <1>6, <2>1, <2>3 DEF f
<1>10. Text(b) \in Seq(Bytes) /\ Len(Text(b)) = k /\ \A i \in 1 .. k : Text(b)[i] = b[i]
  BY <1>1, TextFacts DEF k
<1>11. LsLine(n) = Text(b)
  BY <1>9, <1>10, SeqEqual
<1> QED
  BY <1>2, <1>3, <1>6, <1>9, <1>11 DEF b

\* Every entry has a name of its own.
LEMMA Unique ==
    ASSUME NEW n \in Index, NEW m \in Index, LsLine(n) = LsLine(m)
    PROVE  n = m
BY EntryFacts, ShellAssumption

\* strncmp compares what strlen counted.
LEMMA SameUpToIs ==
    ASSUME NEW s1, NEW s2, NEW n \in Nat, \A i \in 1 .. n : s1[i] # NUL
    PROVE  SameUpTo(s1, s2, n) <=> \A i \in 1 .. n : s1[i] = s2[i]
<1> DEFINE bad == {i \in 1 .. n : s1[i] # s2[i]}
<1>1. ASSUME SameUpTo(s1, s2, n), bad # {}
      PROVE  FALSE
  <2>1. bad \in SUBSET Nat
    OBVIOUS
  <2>2. PICK m \in bad : \A i \in bad : m <= i
    BY <1>1, <2>1, Least, Zenon
  <2>3. m \in 1 .. n /\ s1[m] # s2[m]
    OBVIOUS
  <2>4. ASSUME NEW j \in 1 .. m - 1
        PROVE  s1[j] = s2[j] /\ s1[j] # NUL
    <3>1. j \in 1 .. n /\ ~(m <= j)
      BY <2>3
    <3> QED
      BY <2>2, <3>1
  <2>5. s1[m] = s2[m]
    BY <1>1, <2>3, <2>4, Zenon DEF SameUpTo
  <2> QED
    BY <2>3, <2>5
<1>2. ASSUME \A i \in 1 .. n : s1[i] = s2[i]
      PROVE  SameUpTo(s1, s2, n)
  BY <1>2, Zenon DEF SameUpTo
<1>3. bad = {} => \A i \in 1 .. n : s1[i] = s2[i]
  OBVIOUS
<1> QED
  BY <1>1, <1>2, <1>3

\* read_dentry_by_name finds the entry that ls shows under that name.
LEMMA Lookup ==
    ASSUME NEW A, NEW fname \in Seq(A)
    PROVE  /\ read_dentry_by_name(fname) \in 0 .. Len(Disk)
           /\ read_dentry_by_name(fname) # 0 =>
                /\ read_dentry_by_name(fname) \in Index
                /\ LsLine(read_dentry_by_name(fname)) = Text(fname)
           /\ read_dentry_by_name(fname) = 0 => \A n \in Index : LsLine(n) # Text(fname)
<1> DEFINE size  == strlen(fname)
           text  == Text(fname)
           found == {n \in Index : /\ FieldLength(n) = size
                                   /\ SameUpTo(fname, Disk[n].filename, FieldLength(n))}
           r     == read_dentry_by_name(fname)
<1>1. /\ size \in Nat /\ text \in Seq(A) /\ Len(text) = size
      /\ \A i \in 1 .. size : text[i] = fname[i] /\ fname[i] # NUL
  <2>1. strlen(fname) \in 0 .. Len(fname) /\ Len(fname) \in Nat
    BY StrlenFacts
  <2> QED
    BY <2>1, TextFacts
<1>2. r = IF size = 0 \/ size > MAX_FILENAME_LEN \/ found = {} THEN 0 ELSE Min(found)
  BY Zenon DEF read_dentry_by_name
<1> HIDE DEF size, text, r
<1>3. ASSUME NEW n \in Index
      PROVE  n \in found <=> LsLine(n) = text
  <2>1. /\ FieldLength(n) \in 1 .. MAX_FILENAME_LEN
        /\ LsLine(n) \in Seq(Bytes) /\ Len(LsLine(n)) = FieldLength(n)
        /\ \A i \in 1 .. FieldLength(n) : LsLine(n)[i] = Disk[n].filename[i]
    BY EntryFacts
  <2>2. CASE FieldLength(n) = size
    <3>1. SameUpTo(fname, Disk[n].filename, size)
            <=> \A i \in 1 .. size : fname[i] = Disk[n].filename[i]
      BY <1>1, SameUpToIs
    <3>2. SameUpTo(fname, Disk[n].filename, size) <=> \A i \in 1 .. size : text[i] = LsLine(n)[i]
      BY <1>1, <2>1, <2>2, <3>1
    <3>3. (\A i \in 1 .. size : text[i] = LsLine(n)[i]) => LsLine(n) = text
      <4>1. LsLine(n) \in Seq(Bytes \cup A) /\ text \in Seq(Bytes \cup A)
            /\ Len(LsLine(n)) = size /\ Len(text) = size
        BY <1>1, <2>1, <2>2
      <4> QED
        BY <4>1, SeqEqual
    <3> QED
      BY <2>2, <3>2, <3>3
  <2>3. CASE FieldLength(n) # size
    BY <1>1, <2>1, <2>3
  <2> QED
    BY <2>2, <2>3
<1>4. \A n \in Index : LsLine(n) = text => size # 0 /\ ~(size > MAX_FILENAME_LEN)
  <2> SUFFICES ASSUME NEW n \in Index, LsLine(n) = text
               PROVE  size # 0 /\ ~(size > MAX_FILENAME_LEN)
    OBVIOUS
  <2>1. FieldLength(n) \in 1 .. MAX_FILENAME_LEN /\ Len(LsLine(n)) = FieldLength(n)
    BY EntryFacts
  <2> QED
    BY <1>1, <2>1, Sizes
<1>5. found \in SUBSET Nat /\ found \in SUBSET Index
  BY DEF Index
<1>6. r # 0 => r \in found
  <2>1. found # {} => Min(found) \in found
    BY <1>5, Least
  <2> HIDE DEF found
  <2> QED
    BY <1>2, <2>1
<1>7. r = 0 => \A n \in Index : n \notin found \/ LsLine(n) # text
  <2>1. found # {} => Min(found) \in found
    BY <1>5, Least
  <2>2. found # {} => Min(found) # 0
    BY <1>5, <2>1 DEF Index
  <2> HIDE DEF found
  <2> QED
    BY <1>2, <1>4, <2>2
<1> HIDE DEF found
<1>8. r \in 0 .. Len(Disk)
  <2>1. r # 0 => r \in Index
    BY <1>5, <1>6
  <2> QED
    BY <2>1, Sizes DEF Index
<1> QED
  <2>1. r # 0 => r \in Index /\ LsLine(r) = text
    BY <1>3, <1>5, <1>6
  <2>2. r = 0 => \A n \in Index : LsLine(n) # text
    BY <1>3, <1>7
  <2> QED
    BY <1>8, <2>1, <2>2, Zenon DEF r, text

-----------------------------------------------------------------------------
(* Lines *)

LEMMA LineTypes ==
    ASSUME NEW line \in Lines
    PROVE  /\ line \in Seq(Bytes) /\ Len(line) \in Nat /\ Len(line) < BUFSIZE
           /\ \A i \in 1 .. Len(line) : line[i] \in Bytes /\ line[i] # NUL
           /\ WordLength(line) <= MAX_FILENAME_LEN
<1>1. line \in Seq(Chars) /\ Chars \subseteq Bytes /\ NUL \notin Chars
      /\ Len(line) < BUFSIZE /\ WordLength(line) <= MAX_FILENAME_LEN
  BY ShellAssumption DEF Bytes
<1> QED
  BY <1>1

\* After ReadLine the buffer holds the line, whatever it held before.
LEMMA LineInBufferFacts ==
    ASSUME NEW line \in Lines, buf \in [1 .. BUFSIZE -> Bytes]
    PROVE  LineInBuffer(line) \in [1 .. BUFSIZE -> Bytes] /\ Text(LineInBuffer(line)) = line
<1> DEFINE ended == line \o <<NUL>>
           rest  == SubSeq(buf, Len(line) + 2, BUFSIZE)
           b     == LineInBuffer(line)
<1>1. /\ line \in Seq(Bytes) /\ Len(line) \in Nat /\ Len(line) < BUFSIZE
      /\ \A i \in 1 .. Len(line) : line[i] # NUL
      /\ <<NUL>> \in Seq(Bytes) /\ Len(<<NUL>>) = 1 /\ <<NUL>>[1] = NUL
      /\ BUFSIZE \in Nat
  BY LineTypes, Sizes
<1>2. /\ ended \in Seq(Bytes) /\ Len(ended) = Len(line) + 1
      /\ \A i \in 1 .. Len(line) : ended[i] = line[i]
      /\ ended[Len(line) + 1] = NUL
  <2> DEFINE end == <<NUL>>
  <2>1. end \in Seq(Bytes) /\ Len(end) = 1 /\ end[1] = NUL
    BY <1>1
  <2> HIDE DEF end
  <2>2. /\ line \o end \in Seq(Bytes) /\ Len(line \o end) = Len(line) + Len(end)
        /\ \A i \in 1 .. Len(line) + Len(end) :
             (line \o end)[i] = IF i <= Len(line) THEN line[i] ELSE end[i - Len(line)]
    BY <1>1, <2>1, ConcatProperties
  <2>3. \A i \in 1 .. Len(line) : (line \o end)[i] = line[i]
    BY <1>1, <2>1, <2>2
  <2>4. (line \o end)[Len(line) + 1] = end[(Len(line) + 1) - Len(line)]
    BY <1>1, <2>1, <2>2
  <2> QED
    BY <1>1, <2>1, <2>2, <2>3, <2>4 DEF end
<1>3. rest \in Seq(Bytes) /\ Len(rest) = BUFSIZE - (Len(line) + 1)
  <2>1. \A i \in Len(line) + 2 .. BUFSIZE : buf[i] \in Bytes
    BY <1>1
  <2>2. Len(line) + 2 \in Int /\ BUFSIZE \in Int
    BY <1>1
  <2>3. rest \in Seq(Bytes) /\ Len(rest) = IF Len(line) + 2 <= BUFSIZE
                                           THEN BUFSIZE - (Len(line) + 2) + 1 ELSE 0
    BY <2>1, <2>2, SubSeqProperties
  <2> QED
    BY <1>1, <2>3
<1>4. b = ended \o rest
  BY DEF LineInBuffer
<1> HIDE DEF ended, rest, b
<1>5. /\ b \in Seq(Bytes) /\ Len(b) = BUFSIZE
      /\ \A i \in 1 .. Len(line) + 1 : b[i] = ended[i]
  <2>1. /\ ended \o rest \in Seq(Bytes) /\ Len(ended \o rest) = Len(ended) + Len(rest)
        /\ \A i \in 1 .. Len(ended) + Len(rest) :
             (ended \o rest)[i] = IF i <= Len(ended) THEN ended[i] ELSE rest[i - Len(ended)]
    BY <1>2, <1>3, ConcatProperties
  <2> QED
    BY <1>1, <1>2, <1>3, <1>4, <2>1
<1>6. b \in [1 .. BUFSIZE -> Bytes]
  BY <1>5, LenProperties
<1>7. Text(b) = line
  <2>1. \A i \in 1 .. Len(line) : b[i] = line[i] /\ line[i] # NUL
    BY <1>1, <1>2, <1>5
  <2>2. b[Len(line) + 1] = NUL /\ Len(line) <= Len(b)
    BY <1>1, <1>2, <1>5
  <2> QED
    BY <1>1, <1>5, <2>1, <2>2, TextIs
<1> QED
  BY <1>6, <1>7 DEF b

\* execute() looks up the line's first word: its array holds the word and a
\* NUL, or a word that fills it and what is behind it, which is no entry's name
\* unless that is a NUL as well.
LEMMA FilenameFacts ==
    ASSUME NEW line \in Lines, NEW command, Text(command) = line, NEW junk \in Bytes
    PROVE  /\ Filename(command, junk) \in Seq(Bytes)
           /\ \/ Text(Filename(command, junk)) = Word(line)
              \/ /\ Len(Word(line)) = MAX_FILENAME_LEN
                 /\ \A n \in Index : LsLine(n) # Text(Filename(command, junk))
<1> DEFINE word == Word(line)
           w    == WordLength(line)
           x    == IF Len(word) < MAX_FILENAME_LEN THEN NUL ELSE junk
           end  == <<x, NUL>>
           f    == Filename(command, junk)
<1>1. /\ word \in Seq(Bytes) /\ Len(word) = w /\ w \in Nat /\ w <= MAX_FILENAME_LEN
      /\ \A i \in 1 .. w : word[i] # NUL
  BY LineTypes, WordFacts
<1>2. f = word \o end
  BY Zenon DEF Filename
<1>3. end \in Seq(Bytes) /\ Len(end) = 2 /\ end[1] = x /\ end[2] = NUL
  BY Sizes
<1> HIDE DEF word, w, end, f
<1>4. /\ f \in Seq(Bytes) /\ Len(f) = w + 2
      /\ \A i \in 1 .. w : f[i] = word[i]
      /\ f[w + 1] = x /\ f[w + 2] = NUL
  <2>1. /\ word \o end \in Seq(Bytes) /\ Len(word \o end) = Len(word) + Len(end)
        /\ \A i \in 1 .. Len(word) + Len(end) :
             (word \o end)[i] = IF i <= Len(word) THEN word[i] ELSE end[i - Len(word)]
    BY <1>1, <1>3, ConcatProperties
  <2>2. (word \o end)[w + 1] = end[(w + 1) - w] /\ (word \o end)[w + 2] = end[(w + 2) - w]
    BY <1>1, <1>3, <2>1
  <2>3. (w + 1) - w = 1 /\ (w + 2) - w = 2
    BY <1>1
  <2> QED
    BY <1>1, <1>2, <1>3, <2>1, <2>2, <2>3
<1>5. CASE x = NUL
  <2>1. \A i \in 1 .. Len(word) : f[i] = word[i] /\ word[i] # NUL
    BY <1>1, <1>4
  <2>2. f[Len(word) + 1] = NUL /\ Len(word) <= Len(f)
    BY <1>1, <1>4, <1>5
  <2>3. Text(f) = word
    BY <1>1, <1>4, <2>1, <2>2, TextIs
  <2> QED
    BY <1>4, <2>3 DEF f, word
<1>6. CASE x # NUL
  <2>1. Len(word) = MAX_FILENAME_LEN
    BY <1>1, <1>6, Sizes
  <2>2. \A i \in 1 .. w + 1 : f[i] # NUL
    BY <1>1, <1>4, <1>6
  <2>3. strlen(f) = w + 1
    <3>1. w + 1 \in 0 .. Len(f) /\ f[(w + 1) + 1] = NUL
      BY <1>1, <1>4
    <3> QED
      BY <1>4, <2>2, <3>1, StrlenIs
  <2>4. ASSUME NEW n \in Index
        PROVE  LsLine(n) # Text(f)
    <3>1. FieldLength(n) <= MAX_FILENAME_LEN /\ Len(LsLine(n)) = FieldLength(n)
      BY EntryFacts
    <3>2. Len(Text(f)) = w + 1
      BY <1>4, <2>3, TextFacts
    <3> QED
      BY <1>1, <2>1, <3>1, <3>2, Sizes
  <2> QED
    BY <1>4, <2>1, <2>4 DEF f, word
<1> QED
  BY <1>5, <1>6

\* The word, a space and the arguments are the line again.
LEMMA ArgumentFacts ==
    ASSUME NEW line \in Lines, NEW command, Text(command) = line, WordLength(line) # 0, NEW old
    PROVE  /\ Arguments(command, old) \in [1 .. BUFSIZE -> Bytes]
           /\ line = Word(line) \o
                (IF Text(Arguments(command, old)) = << >> /\ line = Word(line)
                 THEN << >> ELSE <<SPACE>> \o Text(Arguments(command, old)))
<1> DEFINE w    == WordLength(line)
           rest == SubSeq(line, w + 2, Len(line))
           a    == Arguments(command, old)
           word == Word(line)
<1>1. /\ line \in Seq(Bytes) /\ Len(line) \in Nat /\ Len(line) < BUFSIZE
      /\ \A i \in 1 .. Len(line) : line[i] \in Bytes /\ line[i] # NUL
      /\ BUFSIZE \in Nat
  BY LineTypes, Sizes
<1>2. /\ w \in 1 .. Len(line) /\ (w < Len(line) => line[w + 1] = SPACE)
      /\ word \in Seq(Bytes) /\ Len(word) = w
      /\ \A i \in 1 .. w : word[i] = line[i]
  <2>1. /\ w \in 0 .. Len(line) /\ (w < Len(line) => line[w + 1] = SPACE)
        /\ word \in Seq(Bytes) /\ Len(word) = w
        /\ \A i \in 1 .. w : word[i] = line[i]
    BY <1>1, WordFacts
  <2>2. w # 0
    OBVIOUS
  <2> HIDE DEF w, word
  <2> QED
    BY <1>1, <2>1, <2>2
<1>3. Max({1, w}) = w
  <2>1. \A x \in {1, w} : (\A y \in {1, w} : x >= y) => x = w
    BY <1>2
  <2>2. \A y \in {1, w} : w >= y
    BY <1>2
  <2> QED
    BY <2>1, <2>2, Zenon DEF Max
<1>4. a = Filled(rest, BUFSIZE)
  BY <1>3, Zenon DEF Arguments
<1> HIDE DEF w, a, word
<1>5. /\ rest \in Seq(Bytes) /\ Len(rest) = IF w < Len(line) THEN Len(line) - (w + 1) ELSE 0
      /\ \A i \in 1 .. Len(rest) : rest[i] = line[(w + 1) + i] /\ rest[i] # NUL
  <2>1. \A i \in w + 2 .. Len(line) : line[i] \in Bytes
    BY <1>1, <1>2
  <2>2. w + 2 \in Int /\ Len(line) \in Int
    BY <1>1, <1>2
  <2>3. /\ rest \in Seq(Bytes)
        /\ Len(rest) = IF w + 2 <= Len(line) THEN Len(line) - (w + 2) + 1 ELSE 0
        /\ \A i \in 1 .. Len(line) - (w + 2) + 1 : rest[i] = line[w + 2 + i - 1]
    BY <2>1, <2>2, SubSeqProperties
  <2> HIDE DEF rest
  <2>4. Len(rest) = IF w < Len(line) THEN Len(line) - (w + 1) ELSE 0
    BY <1>1, <1>2, <2>3
  <2>5. \A i \in 1 .. Len(rest) : rest[i] = line[(w + 1) + i] /\ (w + 1) + i \in 1 .. Len(line)
    BY <1>1, <1>2, <2>3, <2>4
  <2> QED
    BY <1>1, <2>3, <2>4, <2>5
<1> HIDE DEF rest
<1>6. /\ a \in Seq(Bytes) /\ Len(a) = BUFSIZE
      /\ \A i \in 1 .. BUFSIZE : a[i] = IF i <= Len(rest) THEN rest[i] ELSE NUL
  <2>1. Len(rest) <= BUFSIZE
    BY <1>1, <1>2, <1>5
  <2> QED
    BY <1>1, <1>4, <1>5, <2>1, Sizes, FilledFacts
<1>7. a \in [1 .. BUFSIZE -> Bytes]
  BY <1>6, LenProperties
<1>8. Text(a) = rest
  <2>1. Len(rest) \in Nat /\ Len(rest) <= Len(a)
    BY <1>1, <1>2, <1>5, <1>6
  <2>2. \A i \in 1 .. Len(rest) : a[i] = rest[i] /\ rest[i] # NUL
    BY <1>5, <1>6, <2>1
  <2>3. Len(rest) < Len(a) => a[Len(rest) + 1] = NUL
    BY <1>6, <2>1
  <2> QED
    BY <1>5, <1>6, <2>1, <2>2, <2>3, TextIs
<1>9. line = word \o (IF rest = << >> /\ line = word THEN << >> ELSE <<SPACE>> \o rest)
  <2>1. CASE w = Len(line)
    <3>1. line = word
      BY <1>1, <1>2, <2>1, SeqEqual
    <3>2. rest = << >>
      BY <1>5, <2>1
    <3>3. word \o << >> = word
      BY <1>2, ConcatEmptySeq
    <3> QED
      BY <3>1, <3>2, <3>3
  <2>2. CASE w < Len(line)
    <3> DEFINE sp == <<SPACE>>
    <3>1. line # word
      BY <1>2, <2>2
    <3>2. sp \in Seq(Bytes) /\ Len(sp) = 1 /\ sp[1] = SPACE
      BY Sizes
    <3> HIDE DEF sp
    <3> DEFINE tail == sp \o rest
    <3>3. /\ tail \in Seq(Bytes) /\ Len(tail) = 1 + Len(rest)
          /\ \A i \in 1 .. 1 + Len(rest) : tail[i] = IF i <= 1 THEN sp[i] ELSE rest[i - 1]
      <4>1. /\ sp \o rest \in Seq(Bytes) /\ Len(sp \o rest) = Len(sp) + Len(rest)
            /\ \A i \in 1 .. Len(sp) + Len(rest) :
                 (sp \o rest)[i] = IF i <= Len(sp) THEN sp[i] ELSE rest[i - Len(sp)]
        BY <1>5, <3>2, ConcatProperties
      <4> QED
        BY <3>2, <4>1
    <3> HIDE DEF tail
    <3>4. /\ word \o tail \in Seq(Bytes) /\ Len(word \o tail) = Len(word) + Len(tail)
          /\ \A i \in 1 .. Len(word) + Len(tail) :
               (word \o tail)[i] = IF i <= Len(word) THEN word[i] ELSE tail[i - Len(word)]
      BY <1>2, <3>3, ConcatProperties
    <3>5. Len(word \o tail) = Len(line) /\ Len(rest) = Len(line) - (w + 1)
      BY <1>1, <1>2, <1>5, <2>2, <3>3, <3>4
    <3>6. ASSUME NEW i \in 1 .. Len(line)
          PROVE  line[i] = (word \o tail)[i]
      <4>1. (word \o tail)[i] = IF i <= w THEN word[i] ELSE tail[i - w]
        BY <1>2, <3>4, <3>5
      <4>2. CASE i <= w
        BY <1>2, <4>1, <4>2
      <4>3. CASE i = w + 1
        <5>1. i - w = 1 /\ ~(i <= w)
          BY <1>2, <4>3
        <5>2. tail[1] = SPACE
          <6>1. 1 \in 1 .. 1 + Len(rest)
            BY <1>1, <1>2, <2>2, <3>5
          <6>2. tail[1] = IF 1 <= 1 THEN sp[1] ELSE rest[1 - 1]
            BY <3>3, <6>1
          <6> QED
            BY <3>2, <6>2
        <5> QED
          BY <1>2, <2>2, <4>1, <4>3, <5>1, <5>2
      <4>4. CASE i > w + 1
        <5>1. i - w \in 1 .. 1 + Len(rest) /\ ~(i - w <= 1) /\ ~(i <= w)
              /\ (i - w) - 1 \in 1 .. Len(rest) /\ (w + 1) + ((i - w) - 1) = i
          BY <1>1, <1>2, <2>2, <3>5, <4>4
        <5>2. tail[i - w] = rest[(i - w) - 1]
          BY <3>3, <5>1
        <5>3. rest[(i - w) - 1] = line[i]
          BY <1>5, <5>1
        <5> QED
          BY <4>1, <5>1, <5>2, <5>3
      <4>5. i <= w \/ i = w + 1 \/ i > w + 1
        BY <1>2
      <4> QED
        BY <4>2, <4>3, <4>4, <4>5
    <3>7. line = word \o tail
      BY <1>1, <3>4, <3>5, <3>6, SeqEqual
    <3> QED
      BY <3>1, <3>7 DEF tail, sp
  <2> QED
    BY <1>1, <1>2, <2>1, <2>2
<1> QED
  BY <1>7, <1>8, <1>9 DEF a, word

-----------------------------------------------------------------------------
(* The inductive invariant *)

\* The buffer execute() is called with holds the line typed.
CommandIsTheLine == at = "execute" => typed \in Lines /\ Text(buf) = typed /\ program = 0

\* What ls has shown of the directory, and that nothing else shows anything.
ShownSoFar ==
    /\ at \in {"execute", "program"} => shown = << >>
    /\ at = "program" => program \in Index
    /\ at = "listing" => /\ program \in Index /\ Is(ls)
                         /\ shown = [n \in 1 .. counter |-> LsLine(n)]
    /\ at = "opened"  => program \in Index /\ ~Is(ls)

IInv == /\ TypeOK /\ CommandIsTheLine /\ ShownSoFar
        /\ RunsTheLineTyped /\ OpensWhatIsListed /\ LsShowsTheDirectory

LEMMA Initially ==
    ASSUME Init
    PROVE  IInv
<1> DEFINE b == Filled(<< >>, BUFSIZE)
<1>1. b \in [1 .. BUFSIZE -> Bytes]
  <2>1. << >> \in Seq(Bytes) /\ Len(<< >>) <= BUFSIZE /\ NUL \in Bytes /\ BUFSIZE \in Nat
    BY Sizes
  <2>2. b \in Seq(Bytes) /\ Len(b) = BUFSIZE
    BY <2>1, FilledFacts
  <2> HIDE DEF b
  <2> QED
    BY <2>2, LenProperties
<1>2. buf = b /\ args = b /\ at = "prompt" /\ program = 0 /\ counter = 0
      /\ shown = << >> /\ opened = 0 /\ typed = << >>
  BY DEF Init
<1> HIDE DEF b
<1>3. TypeOK
  BY <1>1, <1>2, Sizes DEF TypeOK
<1> QED
  BY <1>2, <1>3 DEF IInv, CommandIsTheLine, ShownSoFar, RunsTheLineTyped, OpensWhatIsListed,
                    LsShowsTheDirectory

LEMMA ReadLineKeeps ==
    ASSUME IInv, NEW line \in Lines, ReadLine(line)
    PROVE  IInv'
<1>1. TypeOK
  BY DEF IInv
<1>2. /\ buf' = LineInBuffer(line) /\ typed' = line
      /\ program' = 0 /\ shown' = << >> /\ opened' = 0
      /\ at' \in {"prompt", "execute"} /\ UNCHANGED <<args, counter>>
  BY DEF ReadLine
<1>3. LineInBuffer(line) \in [1 .. BUFSIZE -> Bytes] /\ Text(LineInBuffer(line)) = line
  BY <1>1, LineInBufferFacts DEF TypeOK
<1>4. TypeOK'
  BY <1>1, <1>2, <1>3, Sizes DEF TypeOK
<1>5. CommandIsTheLine'
  BY <1>2, <1>3 DEF CommandIsTheLine
<1> QED
  BY <1>2, <1>4, <1>5 DEF IInv, ShownSoFar, RunsTheLineTyped, OpensWhatIsListed,
                          LsShowsTheDirectory

LEMMA ExecuteKeeps ==
    ASSUME IInv, Execute
    PROVE  IInv'
<1>1. TypeOK /\ CommandIsTheLine /\ at = "execute"
  BY DEF IInv, Execute
<1>2. typed \in Lines /\ Text(buf) = typed /\ program = 0
  BY <1>1 DEF CommandIsTheLine
<1>3. PICK junk \in Bytes :
        LET n == read_dentry_by_name(Filename(buf, junk))
        IN  IF n = 0 \/ ~Disk[n].program
            THEN at' = "prompt" /\ UNCHANGED <<program, args>>
            ELSE at' = "program" /\ program' = n /\ args' = Arguments(buf, args)
  BY DEF Execute
<1> DEFINE f == Filename(buf, junk)
           n == read_dentry_by_name(f)
<1>4. UNCHANGED <<buf, counter, shown, opened, typed>>
  BY DEF Execute
<1>5. /\ f \in Seq(Bytes)
      /\ Text(f) = Word(typed) \/ \A m \in Index : LsLine(m) # Text(f)
  BY <1>2, FilenameFacts
<1> HIDE DEF f
<1>6. CASE n = 0 \/ ~Disk[n].program
  <2>1. at' = "prompt" /\ UNCHANGED <<program, args>>
    BY <1>3, <1>6, Zenon DEF f
  <2> HIDE DEF n
  <2>2. TypeOK'
    BY <1>1, <1>4, <2>1 DEF TypeOK
  <2> QED
    BY <1>2, <1>4, <2>1, <2>2
       DEF IInv, CommandIsTheLine, ShownSoFar, RunsTheLineTyped, OpensWhatIsListed,
           LsShowsTheDirectory
<1>7. CASE ~(n = 0 \/ ~Disk[n].program)
  <2>1. at' = "program" /\ program' = n /\ args' = Arguments(buf, args)
    BY <1>3, <1>7, Zenon DEF f
  <2>2. n \in Index /\ LsLine(n) = Text(f)
    BY <1>5, <1>7, Lookup
  <2>3. LsLine(n) = Word(typed) /\ Disk[n].program
    BY <1>5, <1>7, <2>2
  <2> HIDE DEF n
  <2>4. WordLength(typed) # 0
    <3>1. Len(LsLine(n)) # 0
      BY <2>2, EntryFacts
    <3>2. Len(Word(typed)) = WordLength(typed)
      BY <1>2, LineTypes, WordFacts
    <3> QED
      BY <2>3, <3>1, <3>2
  <2>5. /\ Arguments(buf, args) \in [1 .. BUFSIZE -> Bytes]
        /\ typed = Word(typed) \o
             (IF Text(Arguments(buf, args)) = << >> /\ typed = Word(typed)
              THEN << >> ELSE <<SPACE>> \o Text(Arguments(buf, args)))
    BY <1>2, <2>4, ArgumentFacts
  <2>6. TypeOK'
    BY <1>1, <1>4, <2>1, <2>2, <2>5 DEF TypeOK, Index
  <2>7. RunsTheLineTyped'
    BY <1>4, <2>1, <2>3, <2>5 DEF RunsTheLineTyped
  <2>8. ShownSoFar'
    BY <1>1, <1>4, <2>1, <2>2 DEF IInv, ShownSoFar
  <2> QED
    BY <2>1, <2>6, <2>7, <2>8
       DEF IInv, CommandIsTheLine, OpensWhatIsListed, LsShowsTheDirectory
<1> QED
  BY <1>6, <1>7

\* Every directory has an entry for itself, which ls opens.
LEMMA DotIsThere == read_dentry_by_name(<<".", NUL>>) # 0
<1> DEFINE dot == <<".", NUL>>
           A   == Bytes \cup {"."}
<1>1. dot \in Seq(A) /\ <<".">> \in Seq(A)
  BY Sizes
<1>2. Text(dot) = <<".">>
  <2> DEFINE name == <<".">>
  <2>1. Len(dot) = 2 /\ dot[1] = "." /\ dot[2] = NUL /\ Len(name) = 1 /\ name[1] = "."
    OBVIOUS
  <2>2. "." # NUL
    BY DEF NUL
  <2>3. name \in Seq(A)
    BY <1>1
  <2> HIDE DEF dot, name, A
  <2>4. \A i \in 1 .. Len(name) : dot[i] = name[i] /\ name[i] # NUL
    BY <2>1, <2>2
  <2>5. Len(name) <= Len(dot) /\ dot[Len(name) + 1] = NUL
    BY <2>1
  <2>6. Text(dot) = name
    BY <1>1, <2>3, <2>4, <2>5, TextIs
  <2> QED
    BY <2>6 DEF name
<1>3. PICK n \in Index : Text(Disk[n].filename) = <<".">>
  BY ShellAssumption
<1> HIDE DEF dot
<1>4. LsLine(n) = Text(dot)
  BY <1>2, <1>3, EntryFacts
<1>5. read_dentry_by_name(dot) # 0
  BY <1>1, <1>4, Lookup
<1> QED
  BY <1>5 DEF dot

LEMMA LsOpensKeeps ==
    ASSUME IInv, LsOpens
    PROVE  IInv'
<1>1. TypeOK /\ ShownSoFar
  BY DEF IInv
<1>2. /\ at = "program" /\ Is(ls) /\ counter' = 0 /\ at' = "listing"
      /\ UNCHANGED <<buf, args, program, shown, opened, typed>>
  BY DotIsThere DEF LsOpens
<1>3. TypeOK'
  BY <1>1, <1>2, Sizes DEF TypeOK
<1>4. shown = [n \in 1 .. 0 |-> LsLine(n)]
  BY <1>1, <1>2 DEF ShownSoFar
<1>5. ShownSoFar'
  BY <1>1, <1>2, <1>4 DEF ShownSoFar, Is
<1> QED
  BY <1>2, <1>3, <1>5 DEF IInv, CommandIsTheLine, RunsTheLineTyped, OpensWhatIsListed,
                          LsShowsTheDirectory

LEMMA LsReadsKeeps ==
    ASSUME IInv, LsReads
    PROVE  IInv'
<1>1. TypeOK /\ ShownSoFar /\ at = "listing"
  BY DEF IInv, LsReads
<1>2. /\ program \in Index /\ Is(ls) /\ shown = [n \in 1 .. counter |-> LsLine(n)]
      /\ counter \in 0 .. Len(Disk) /\ shown \in Seq(Seq(Bytes))
      /\ UNCHANGED <<buf, args, program, opened, typed>>
  BY <1>1 DEF ShownSoFar, TypeOK, LsReads
<1>3. CASE counter < Len(Disk)
  <2>1. counter' = counter + 1 /\ shown' = Append(shown, LsLine(counter + 1)) /\ at' = at
    BY <1>3 DEF LsReads
  <2>2. counter + 1 \in Index /\ counter + 1 \in 0 .. Len(Disk) /\ counter \in Nat
    BY <1>2, <1>3, Sizes DEF Index
  <2>3. LsLine(counter + 1) \in Seq(Bytes) /\ \A n \in Index : LsLine(n) \in Seq(Bytes)
    BY <2>2, EntryFacts
  <2> DEFINE next == [n \in 1 .. counter + 1 |-> LsLine(n)]
             all  == Append(shown, LsLine(counter + 1))
  <2>4. next \in Seq(Seq(Bytes)) /\ Len(next) = counter + 1
    <3>1. \A n \in 1 .. counter + 1 : n \in Index
      BY <1>2, <1>3, <2>2 DEF Index
    <3> QED
      BY <2>2, <2>3, <3>1
  <2>5. Len(shown) = counter
    BY <1>2, <2>2
  <2>6. /\ all \in Seq(Seq(Bytes)) /\ Len(all) = Len(shown) + 1
        /\ \A n \in 1 .. Len(shown) : all[n] = shown[n]
        /\ all[Len(shown) + 1] = LsLine(counter + 1)
    BY <1>2, <2>3, AppendProperties
  <2>7. ASSUME NEW n \in 1 .. counter + 1
        PROVE  all[n] = next[n]
    <3>1. CASE n = counter + 1
      BY <2>5, <2>6, <3>1
    <3>2. CASE n # counter + 1
      <4>1. n \in 1 .. counter
        BY <2>2, <3>2
      <4>2. all[n] = shown[n] /\ shown[n] = LsLine(n)
        BY <1>2, <2>5, <2>6, <4>1
      <4> QED
        BY <4>2
    <3> QED
      BY <3>1, <3>2
  <2>8. all = next
    <3> HIDE DEF all, next
    <3> QED
      BY <2>4, <2>5, <2>6, <2>7, SeqEqual
  <2> HIDE DEF all, next
  <2>9. TypeOK'
    BY <1>1, <1>2, <2>1, <2>2, <2>6 DEF TypeOK, all
  <2>10. ShownSoFar'
    BY <1>1, <1>2, <2>1, <2>8 DEF ShownSoFar, Is, all, next
  <2> QED
    BY <1>1, <2>1, <2>9, <2>10 DEF IInv, CommandIsTheLine, RunsTheLineTyped,
                                   OpensWhatIsListed, LsShowsTheDirectory
<1>4. CASE ~(counter < Len(Disk))
  <2>1. at' = "prompt" /\ UNCHANGED <<counter, shown>>
    BY <1>4 DEF LsReads
  <2>2. counter = Len(Disk)
    BY <1>2, <1>4, Sizes
  <2>3. shown = [n \in Index |-> Text(Disk[n].filename)]
    <3>1. \A n \in Index : LsLine(n) = Text(Disk[n].filename)
      BY EntryFacts
    <3>2. shown = [n \in Index |-> LsLine(n)]
      BY <1>2, <2>2 DEF Index
    <3> QED
      BY <3>1, <3>2
  <2>4. TypeOK'
    BY <1>1, <1>2, <2>1 DEF TypeOK
  <2>5. LsShowsTheDirectory'
    BY <1>2, <2>1, <2>3 DEF LsShowsTheDirectory
  <2> QED
    BY <2>1, <2>4, <2>5 DEF IInv, CommandIsTheLine, ShownSoFar, RunsTheLineTyped,
                            OpensWhatIsListed
<1> QED
  BY <1>3, <1>4

LEMMA LsIsNotCat == ASSUME Is(cat) PROVE ~Is(ls)
<1>1. <<"c">>[1] = "c" /\ <<"l">>[1] = "l" /\ "c" # "l"
  OBVIOUS
<1> QED
  BY <1>1, Zenon DEF Is, cat, ls

\* A step back to the prompt of a program other than ls.
LEMMA BackKeeps ==
    ASSUME IInv, at' = "prompt", program # 0 => ~Is(ls),
           UNCHANGED <<buf, args, program, counter, shown, opened, typed>>
    PROVE  IInv'
<1>1. TypeOK'
  BY DEF IInv, TypeOK
<1>2. LsShowsTheDirectory'
  BY DEF LsShowsTheDirectory, Is
<1> QED
  BY <1>1, <1>2 DEF IInv, CommandIsTheLine, ShownSoFar, RunsTheLineTyped, OpensWhatIsListed

LEMMA CatOpensKeeps ==
    ASSUME IInv, CatOpens
    PROVE  IInv'
<1>1. TypeOK /\ ShownSoFar
  BY DEF IInv
<1>2. /\ at = "program" /\ Is(cat) /\ at' = "opened" /\ opened' = read_dentry_by_name(args)
      /\ UNCHANGED <<buf, args, program, counter, shown, typed>>
  BY DEF CatOpens
<1>3. args \in Seq(Bytes)
  BY <1>1, Sizes DEF TypeOK
<1>4. /\ opened' \in 0 .. Len(Disk)
      /\ opened' # 0 => LsLine(opened') = Text(args)
      /\ opened' = 0 => \A n \in Index : LsLine(n) # Text(args)
  BY <1>2, <1>3, Lookup
<1>5. TypeOK'
  BY <1>1, <1>2, <1>4 DEF TypeOK
<1>6. ShownSoFar'
  BY <1>1, <1>2, LsIsNotCat DEF ShownSoFar, Is
<1>7. OpensWhatIsListed'
  BY <1>2, <1>4 DEF OpensWhatIsListed
<1> QED
  BY <1>2, <1>5, <1>6, <1>7 DEF IInv, CommandIsTheLine, RunsTheLineTyped, LsShowsTheDirectory

LEMMA StepKeeps ==
    ASSUME IInv, [Next]_vars
    PROVE  IInv'
<1>1. ASSUME NEW line \in Lines, ReadLine(line)
      PROVE  IInv'
  BY <1>1, ReadLineKeeps
<1>2. ASSUME CatWithoutArguments
      PROVE  IInv'
  BY <1>2, BackKeeps, LsIsNotCat DEF CatWithoutArguments
<1>3. ASSUME Ends
      PROVE  IInv'
  BY <1>3, BackKeeps DEF Ends, IInv, ShownSoFar
<1>4. CASE UNCHANGED vars
  <2>1. UNCHANGED <<buf, args, at, program, counter, shown, opened, typed>>
    BY <1>4 DEF vars
  <2> QED
    BY <2>1 DEF IInv, TypeOK, CommandIsTheLine, ShownSoFar, Is, RunsTheLineTyped,
                OpensWhatIsListed, LsShowsTheDirectory
<1> QED
  BY <1>1, <1>2, <1>3, <1>4, ExecuteKeeps, LsOpensKeeps, LsReadsKeeps, CatOpensKeeps DEF Next

-----------------------------------------------------------------------------
(* Theorems *)

\* The command line, the listing and the name to open, all the way.
THEOREM Invariance == Spec => []IInv
<1>1. Init => IInv
  BY Initially
<1>2. IInv /\ [Next]_vars => IInv'
  BY StepKeeps
<1> QED
  BY <1>1, <1>2, PTL DEF Spec

\* No line and no name, of the longest there are, goes over its buffer.
THEOREM TypeCorrect == Spec => []TypeOK
<1>1. IInv => TypeOK
  BY DEF IInv
<1> QED
  BY <1>1, Invariance, PTL

\* Whatever was typed before and is still in the buffers, the program that runs
\* is the one the line names, and its arguments are the rest of the line.
THEOREM TheLineTypedRuns == Spec => []RunsTheLineTyped
<1>1. IInv => RunsTheLineTyped
  BY DEF IInv
<1> QED
  BY <1>1, Invariance, PTL

\* For every directory, cat opens the entry ls shows under the name given, and
\* no other, even where names fill their field or begin alike.
THEOREM ListedNamesOpen == Spec => []OpensWhatIsListed
<1>1. IInv => OpensWhatIsListed
  BY DEF IInv
<1> QED
  BY <1>1, Invariance, PTL

\* ls shows every entry of every directory, once and in order.
THEOREM DirectoryIsShown == Spec => []LsShowsTheDirectory
<1>1. IInv => LsShowsTheDirectory
  BY DEF IInv
<1> QED
  BY <1>1, Invariance, PTL

\* execute() refuses no program that ls shows, but one whose name fills its field.
THEOREM ProgramsListedRun == Spec => ListedProgramsRun
<1> DEFINE Refused == at = "execute" /\ at' = "prompt" =>
             \A n \in Index : LsLine(n) = Word(typed) =>
               ~Disk[n].program \/ Len(LsLine(n)) = MAX_FILENAME_LEN
<1>1. ASSUME IInv, Execute
      PROVE  Refused
  <2> SUFFICES ASSUME at' = "prompt", NEW n \in Index, LsLine(n) = Word(typed),
                      Len(LsLine(n)) # MAX_FILENAME_LEN
               PROVE  ~Disk[n].program
    OBVIOUS
  <2>1. typed \in Lines /\ Text(buf) = typed
    BY <1>1 DEF IInv, CommandIsTheLine, Execute
  <2>2. PICK junk \in Bytes :
          LET r == read_dentry_by_name(Filename(buf, junk))
          IN  IF r = 0 \/ ~Disk[r].program
              THEN at' = "prompt"
              ELSE at' = "program"
    BY <1>1 DEF Execute
  <2> DEFINE f == Filename(buf, junk)
             r == read_dentry_by_name(f)
  <2>3. r = 0 \/ ~Disk[r].program
    BY <2>2, Zenon
  <2>4. f \in Seq(Bytes) /\ Text(f) = Word(typed)
    BY <2>1, FilenameFacts
  <2> HIDE DEF f
  <2>5. r \in Index /\ LsLine(r) = LsLine(n)
    BY <2>4, Lookup
  <2> HIDE DEF r
  <2>6. r = n
    BY <2>5, Unique
  <2>7. r # 0
    BY <2>5, Sizes DEF Index
  <2> QED
    BY <2>3, <2>6, <2>7
<1>2. IInv /\ [Next]_vars => [Refused]_vars
  <2>1. ASSUME Next, ~Execute
        PROVE  Refused
    BY <2>1 DEF Next, ReadLine, LsOpens, LsReads, CatWithoutArguments, CatOpens, Ends
  <2> QED
    BY <1>1, <2>1
<1> QED
  BY <1>2, Invariance, PTL DEF Spec, ListedProgramsRun
=============================================================================
