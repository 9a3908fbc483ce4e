-------------------------- MODULE LockStepProofs --------------------------
(***************************************************************************)
(* What LockStep promises of two programs that take turns over a byte      *)
(* stream, for every set of lines, every size of the buffers and any way   *)
(* the stream cuts them.                                                   *)
(***************************************************************************)
EXTENDS LockStep, SequenceTheorems, WellFoundedInduction, TLAPS

Text    == Seq(Chars)
Buffers == [1 .. Size -> Chars \cup {NUL}]

\* A NUL in a buffer; a buffer with s and a NUL at its start; a line or a part
\* of one as fgets() leaves it; and the answers there are to a line.
HasNul(buf)   == \E i \in 1 .. Size : buf[i] = NUL
Holds(buf, s) ==
  Len(s) < Size /\ buf[Len(s) + 1] = NUL /\ \A i \in 1 .. Len(s) : buf[i] = s[i]
Whole(l) == l = <<"n">> \/ Len(l) >= 2
AnswersTo(p, l) ==
  CASE p \in {"echo", "unix"} -> {l}
    [] p = "reverse" -> {Reversed(l)}
    [] p = "calc" -> Results

-----------------------------------------------------------------------------
(* The inductive invariant.                                                *)

AnyTypes ==
  /\ prog \in Programs /\ split \in BOOLEAN /\ eof \in BOOLEAN /\ reset \in BOOLEAN
  /\ clnt \in {"prompt", "reading", "ended", "killed"} /\ srv \in {"reading", "closed"}
  /\ cbuf \in Buffers /\ sbuf \in Buffers /\ line \in Text /\ shown \in Text
  /\ up \in Text /\ down \in Text /\ owed \in Text /\ sends \in 0 .. MaxSends

\* While writes travel whole: there is a NUL in every buffer used as a string;
Ends == HasNul(cbuf) /\ (~Echoes => HasNul(sbuf)) /\ Len(up) < Size

\* there is one line under way, or its answer, and nothing at the prompt;
InFlight ==
  ~Gone =>
    /\ Len(line) < Size
    /\ srv = "closed" \/ clnt = "prompt" => up = <<>> /\ down = <<>>
    /\ srv = "reading" /\ clnt = "reading" =>
         \/ up = line /\ down = <<>>
         \/ up = <<>> /\ down \in AnswersTo(prog, line)

\* an echo client's buffer holds the line it waits for, and the server has
\* closed only if that is the word;
Echoing ==
  Echoes =>
    /\ clnt = "prompt" => srv = "reading"
    /\ clnt = "reading" =>
         /\ Holds(cbuf, line) /\ Whole(line)
         /\ srv = "closed" => IsPrefix(Keyword, line)

\* and what is shown at the prompt answers the line last sent.
Answered == clnt = "prompt" /\ srv = "reading" /\ sends > 0 => shown \in AnswersTo(prog, line)

WhileWhole == ~split => Ends /\ InFlight /\ Echoing /\ Answered

IInv == AnyTypes /\ EchoStream /\ WhileWhole
-----------------------------------------------------------------------------
(* Sequences.                                                              *)

\* Min is what its name says.
LEMMA Least ==
  ASSUME NEW S \in SUBSET Nat, S # {}
  PROVE  Min(S) \in S /\ \A x \in S : Min(S) <= x
<1>. DEFINE R == {ss \in Nat \X Nat : ss[1] < ss[2]}
<1>1. OpToRel(<, Nat) = R
  BY DEF OpToRel
<1>2. IsWellFoundedOn(R, Nat)
  BY NatLessThanWellFounded, <1>1
<1>3. PICK x \in S : \A y \in S : ~ (<<y, x>> \in R)
  BY <1>2, WFMin
<1>4. ASSUME NEW y \in S PROVE x <= y
  <2>1. x \in Nat /\ y \in Nat /\ <<y, x>> \notin R
    BY <1>3
  <2>. QED  BY <2>1
<1>. QED  BY <1>4 DEF Min

\* The lesser of two lengths.
LEMMA Lesser ==
  ASSUME NEW m \in Nat, NEW n \in Nat
  PROVE  Min({m, n}) = IF m <= n THEN m ELSE n
<1>1. {m, n} \in SUBSET Nat /\ {m, n} # {}
  OBVIOUS
<1>2. Min({m, n}) \in {m, n} /\ \A x \in {m, n} : Min({m, n}) <= x
  BY <1>1, Least
<1>. QED  BY <1>2

\* The first n characters of a text, and the rest.
LEMMA Cut ==
  ASSUME NEW S, NEW s \in Seq(S), NEW n \in 0 .. Len(s)
  PROVE  /\ SubSeq(s, 1, n) \in Seq(S) /\ Len(SubSeq(s, 1, n)) = n
         /\ \A i \in 1 .. n : SubSeq(s, 1, n)[i] = s[i]
         /\ Rest(s, n) \in Seq(S) /\ Len(Rest(s, n)) = Len(s) - n
         /\ \A i \in 1 .. Len(s) - n : Rest(s, n)[i] = s[n + i]
         /\ SubSeq(s, 1, n) \o Rest(s, n) = s
<1>1. Len(s) \in Nat /\ n \in Nat /\ n <= Len(s) /\ \A i \in 1 .. Len(s) : s[i] \in S
  BY ElementOfSeq, LenProperties
<1>2. \A i \in 1 .. n : s[i] \in S
  BY <1>1
<1>3. \A i \in n + 1 .. Len(s) : s[i] \in S
  BY <1>1
<1>4. /\ SubSeq(s, 1, n) \in Seq(S) /\ Len(SubSeq(s, 1, n)) = (IF 1 <= n THEN n - 1 + 1 ELSE 0)
      /\ \A i \in 1 .. n - 1 + 1 : SubSeq(s, 1, n)[i] = s[1 + i - 1]
  BY <1>1, <1>2, SubSeqProperties
<1>5. /\ SubSeq(s, n + 1, Len(s)) \in Seq(S)
      /\ Len(SubSeq(s, n + 1, Len(s))) = (IF n + 1 <= Len(s) THEN Len(s) - (n + 1) + 1 ELSE 0)
      /\ \A i \in 1 .. Len(s) - (n + 1) + 1 : SubSeq(s, n + 1, Len(s))[i] = s[(n + 1) + i - 1]
  <2>1. n + 1 \in Int /\ Len(s) \in Int
    BY <1>1
  <2>. QED  BY <1>3, <2>1, SubSeqProperties
<1>6. SubSeq(s, 1, n) \o SubSeq(s, n + 1, Len(s)) = SubSeq(s, 1, Len(s))
  <2>1. 1 \in 1 .. Len(s) + 1 /\ n \in 1 - 1 .. Len(s) /\ Len(s) \in n .. Len(s)
    BY <1>1
  <2>. QED  BY <2>1, ConcatAdjacentSubSeq
<1>7. SubSeq(s, 1, Len(s)) = s
  BY SubSeqFull
<1>8. Len(SubSeq(s, 1, n)) = n /\ \A i \in 1 .. n : SubSeq(s, 1, n)[i] = s[i]
  BY <1>1, <1>4
<1>9. /\ Len(SubSeq(s, n + 1, Len(s))) = Len(s) - n
      /\ \A i \in 1 .. Len(s) - n : SubSeq(s, n + 1, Len(s))[i] = s[n + i]
  BY <1>1, <1>5
<1>. QED  BY <1>4, <1>5, <1>6, <1>7, <1>8, <1>9 DEF Rest

\* What is left of a text of which all is taken.
LEMMA AllTaken ==
  ASSUME NEW S, NEW s \in Seq(S)
  PROVE  SubSeq(s, 1, Len(s)) = s /\ Rest(s, Len(s)) = <<>>
<1>1. Len(s) \in Nat
  BY LenProperties
<1>2. Rest(s, Len(s)) = <<>>
  BY <1>1, SubSeqEmpty DEF Rest
<1>. QED  BY <1>2, SubSeqFull

\* Taking from the first of two texts leaves the second.
LEMMA RestOfBoth ==
  ASSUME NEW S, NEW s \in Seq(S), NEW t \in Seq(S), NEW n \in 0 .. Len(s)
  PROVE  Rest(s \o t, n) = Rest(s, n) \o t
<1>. SUFFICES ASSUME NEW u, NEW a, NEW r, NEW b,
                     u = s \o t, a = Rest(u, n), r = Rest(s, n), b = r \o t
              PROVE  a = b
  OBVIOUS
<1>1. /\ Len(s) \in Nat /\ Len(t) \in Nat /\ u \in Seq(S) /\ Len(u) = Len(s) + Len(t)
      /\ \A i \in 1 .. Len(s) + Len(t) : u[i] = IF i <= Len(s) THEN s[i] ELSE t[i - Len(s)]
  BY ConcatProperties, LenProperties
<1>2. n \in Nat /\ n <= Len(s) /\ n \in 0 .. Len(u)
  BY <1>1
<1>3. a \in Seq(S) /\ Len(a) = Len(u) - n /\ \A i \in 1 .. Len(u) - n : a[i] = u[n + i]
  BY <1>1, <1>2, Cut
<1>4. r \in Seq(S) /\ Len(r) = Len(s) - n /\ \A i \in 1 .. Len(s) - n : r[i] = s[n + i]
  BY Cut
<1>5. /\ b \in Seq(S) /\ Len(b) = Len(r) + Len(t)
      /\ \A i \in 1 .. Len(r) + Len(t) : b[i] = IF i <= Len(r) THEN r[i] ELSE t[i - Len(r)]
  BY <1>4, ConcatProperties
<1>6. Len(a) = Len(b)
  BY <1>1, <1>2, <1>3, <1>4, <1>5
<1>7. ASSUME NEW i \in 1 .. Len(a) PROVE a[i] = b[i]
  <2>1. /\ i \in Nat /\ i >= 1 /\ n + i \in 1 .. Len(s) + Len(t)
        /\ i \in 1 .. Len(u) - n /\ i \in 1 .. Len(r) + Len(t)
    BY <1>1, <1>2, <1>3, <1>4, <1>5, <1>6
  <2>2. a[i] = IF n + i <= Len(s) THEN s[n + i] ELSE t[n + i - Len(s)]
    <3>1. a[i] = u[n + i]
      BY <1>3, <2>1
    <3>. QED  BY <1>1, <2>1, <3>1
  <2>3. CASE i <= Len(s) - n
    <3>1. i \in 1 .. Len(s) - n /\ n + i <= Len(s) /\ i <= Len(r)
      BY <1>1, <1>2, <1>4, <2>1, <2>3
    <3>2. a[i] = s[n + i]
      BY <2>2, <3>1
    <3>3. b[i] = s[n + i]
      BY <1>4, <1>5, <2>1, <3>1
    <3>. QED  BY <3>2, <3>3
  <2>4. CASE ~(i <= Len(s) - n)
    <3>1. ~(n + i <= Len(s)) /\ n + i - Len(s) = i - Len(r) /\ ~(i <= Len(r))
      BY <1>1, <1>2, <1>4, <2>1, <2>4
    <3>2. a[i] = t[n + i - Len(s)]
      BY <2>2, <3>1
    <3>3. b[i] = t[i - Len(r)]
      BY <1>5, <2>1, <3>1
    <3>. QED  BY <3>1, <3>2, <3>3
  <2>. QED  BY <2>3, <2>4
<1>. QED  BY <1>3, <1>5, <1>6, <1>7, SeqEqual

\* A prefix, character by character.
LEMMA PrefixIs ==
  ASSUME NEW S, NEW s \in Seq(S), NEW t \in Seq(S)
  PROVE  IsPrefix(s, t) <=> Len(s) <= Len(t) /\ \A i \in 1 .. Len(s) : s[i] = t[i]
<1>1. Len(s) \in Nat /\ Len(t) \in Nat /\ SubSeq(s, 1, Len(s)) = s
  BY SubSeqFull, LenProperties
<1>2. ASSUME Len(s) <= Len(t)
      PROVE  s = SubSeq(t, 1, Len(s)) <=> \A i \in 1 .. Len(s) : s[i] = t[i]
  <2>. DEFINE u == SubSeq(t, 1, Len(s))
  <2>1. Len(s) \in 0 .. Len(t)
    BY <1>1, <1>2
  <2>2. u \in Seq(S) /\ Len(u) = Len(s) /\ \A i \in 1 .. Len(s) : u[i] = t[i]
    BY <2>1, Cut
  <2>. HIDE DEF u
  <2>3. (\A i \in 1 .. Len(s) : s[i] = u[i]) => s = u
    BY <2>2, SeqEqual
  <2>4. s = u <=> \A i \in 1 .. Len(s) : s[i] = t[i]
    BY <2>2, <2>3
  <2>. QED  BY <2>4 DEF u
<1>. QED  BY <1>1, <1>2 DEF IsPrefix

\* Of two texts of which one is the start of the other, as much is taken.
LEMMA PrefixOfRest ==
  ASSUME NEW S, NEW s \in Seq(S), NEW t \in Seq(S), IsPrefix(s, t), NEW n \in 0 .. Len(s)
  PROVE  IsPrefix(Rest(s, n), Rest(t, n))
<1>1. /\ Len(s) \in Nat /\ Len(t) \in Nat /\ Len(s) <= Len(t)
      /\ \A i \in 1 .. Len(s) : s[i] = t[i]
  BY PrefixIs, LenProperties
<1>2. n \in Nat /\ n <= Len(s) /\ n \in 0 .. Len(t)
  BY <1>1
<1>3. /\ Rest(s, n) \in Seq(S) /\ Len(Rest(s, n)) = Len(s) - n
      /\ \A i \in 1 .. Len(s) - n : Rest(s, n)[i] = s[n + i]
  BY Cut
<1>4. /\ Rest(t, n) \in Seq(S) /\ Len(Rest(t, n)) = Len(t) - n
      /\ \A i \in 1 .. Len(t) - n : Rest(t, n)[i] = t[n + i]
  BY <1>2, Cut
<1>5. \A i \in 1 .. Len(s) - n : i \in 1 .. Len(t) - n /\ n + i \in 1 .. Len(s)
  BY <1>1, <1>2
<1>6. \A i \in 1 .. Len(Rest(s, n)) : Rest(s, n)[i] = Rest(t, n)[i]
  BY <1>1, <1>3, <1>4, <1>5
<1>7. Len(Rest(s, n)) <= Len(Rest(t, n))
  BY <1>1, <1>2, <1>3, <1>4
<1>. QED  BY <1>3, <1>4, <1>6, <1>7, PrefixIs

-----------------------------------------------------------------------------
(* Buffers.                                                                *)

\* What a read() or fgets() leaves in a buffer.
LEMMA Stored ==
  ASSUME NEW b \in Buffers, NEW s \in Seq(Chars \cup {NUL})
  PROVE  /\ Store(b, s) \in Buffers
         /\ \A i \in 1 .. Size : Store(b, s)[i] = IF i <= Len(s) THEN s[i] ELSE b[i]
<1>1. Len(s) \in Nat /\ \A i \in 1 .. Len(s) : s[i] \in Chars \cup {NUL}
  BY ElementOfSeq, LenProperties
<1>2. \A i \in 1 .. Size : b[i] \in Chars \cup {NUL} /\ (i <= Len(s) => s[i] \in Chars \cup {NUL})
  BY <1>1, LockStepAssumption DEF Buffers
<1>. QED  BY <1>2 DEF Store, Buffers

\* A cleared buffer is one.
LEMMA ZeroIs == Zero \in Buffers /\ \A i \in 1 .. Size : Zero[i] = NUL
  BY DEF Zero, Buffers

\* Text is no NUL.
LEMMA TextIs ==
  ASSUME NEW s \in Text
  PROVE  /\ s \in Seq(Chars \cup {NUL}) /\ Len(s) \in Nat
         /\ \A i \in 1 .. Len(s) : s[i] \in Chars /\ s[i] # NUL
<1>1. Len(s) \in Nat /\ \A i \in 1 .. Len(s) : s[i] \in Chars
  BY ElementOfSeq, LenProperties DEF Text
<1>2. s \in Seq(Chars \cup {NUL})
  BY SeqMonotonic DEF Text
<1>. QED  BY <1>1, <1>2 DEF Chars, NUL

\* The string in a buffer ends before its first NUL.
LEMMA StringTo ==
  ASSUME NEW b \in Buffers, NEW m \in 1 .. Size + 1, m <= Size => b[m] = NUL,
         \A i \in 1 .. Size : i < m => b[i] # NUL
  PROVE  /\ CString(b) \in Text /\ Len(CString(b)) = m - 1
         /\ \A i \in 1 .. m - 1 : CString(b)[i] = b[i]
<1>. DEFINE E == {i \in 1 .. Size : b[i] = NUL}
<1>1. Size \in Nat /\ m \in Nat
  BY LockStepAssumption
<1>2. (IF E = {} THEN Size ELSE Min(E) - 1) = m - 1
  <2>1. CASE m <= Size
    <3>1. m \in E /\ E \in SUBSET Nat
      BY <1>1, <2>1
    <3>2. Min(E) \in E /\ Min(E) <= m
      BY <3>1, Least
    <3>3. Min(E) \in Nat /\ ~(Min(E) < m)
      BY <3>2
    <3>. QED  BY <1>1, <3>1, <3>2, <3>3
  <2>2. CASE ~(m <= Size)
    <3>1. m = Size + 1
      BY <1>1, <2>2
    <3>2. E = {}
      BY <1>1, <3>1
    <3>. QED  BY <1>1, <3>1, <3>2
  <2>. QED  BY <2>1, <2>2
<1>3. CString(b) = SubSeq(b, 1, m - 1)
  BY <1>2 DEF CString
<1>4. m - 1 \in Int /\ \A i \in 1 .. m - 1 : b[i] \in Chars
  BY <1>1 DEF Buffers
<1>5. /\ SubSeq(b, 1, m - 1) \in Seq(Chars)
      /\ Len(SubSeq(b, 1, m - 1)) = (IF 1 <= m - 1 THEN (m - 1) - 1 + 1 ELSE 0)
      /\ \A i \in 1 .. (m - 1) - 1 + 1 : SubSeq(b, 1, m - 1)[i] = b[1 + i - 1]
  BY <1>4, SubSeqProperties
<1>6. Len(SubSeq(b, 1, m - 1)) = m - 1 /\ \A i \in 1 .. m - 1 : SubSeq(b, 1, m - 1)[i] = b[i]
  BY <1>1, <1>5
<1>. QED  BY <1>3, <1>5, <1>6 DEF Text

\* There is one, of the buffer's length at most, and less if it has a NUL.
LEMMA StringIs ==
  ASSUME NEW b \in Buffers
  PROVE  /\ CString(b) \in Text /\ Len(CString(b)) \in 0 .. Size
         /\ HasNul(b) <=> Len(CString(b)) < Size
         /\ \A i \in 1 .. Len(CString(b)) : CString(b)[i] = b[i]
<1>1. Size \in Nat
  BY LockStepAssumption
<1>2. PICK m \in 1 .. Size + 1 :
        /\ m <= Size => b[m] = NUL
        /\ \A i \in 1 .. Size : i < m => b[i] # NUL
        /\ HasNul(b) <=> m <= Size
  <2>. DEFINE E == {i \in 1 .. Size : b[i] = NUL}
  <2>1. CASE E = {}
    <3>1. Size + 1 \in 1 .. Size + 1 /\ ~(Size + 1 <= Size) /\ ~HasNul(b)
      BY <1>1, <2>1 DEF HasNul
    <3>. QED  BY <2>1, <3>1
  <2>2. CASE E # {}
    <3>1. E \in SUBSET Nat
      OBVIOUS
    <3>2. Min(E) \in E /\ \A x \in E : Min(E) <= x
      BY <2>2, <3>1, Least
    <3>3. PICK m \in 1 .. Size : b[m] = NUL /\ \A x \in E : m <= x
      BY <3>2
    <3>4. m \in 1 .. Size + 1 /\ m <= Size /\ HasNul(b)
      BY <1>1, <3>3 DEF HasNul
    <3>5. \A i \in 1 .. Size : i < m => b[i] # NUL
      BY <1>1, <3>3
    <3>. QED  BY <3>3, <3>4, <3>5
  <2>. QED  BY <2>1, <2>2
<1>3. /\ CString(b) \in Text /\ Len(CString(b)) = m - 1
      /\ \A i \in 1 .. m - 1 : CString(b)[i] = b[i]
  BY <1>2, StringTo
<1>4. m - 1 \in 0 .. Size /\ (m <= Size <=> m - 1 < Size)
  BY <1>1, <1>2
<1>. QED  BY <1>2, <1>3, <1>4

\* The string in a buffer that holds one.
LEMMA StringHeld ==
  ASSUME NEW b \in Buffers, NEW s \in Text, Holds(b, s)
  PROVE  CString(b) = s /\ HasNul(b)
<1>1. /\ Size \in Nat /\ Len(s) \in Nat /\ Len(s) < Size /\ b[Len(s) + 1] = NUL
      /\ \A i \in 1 .. Len(s) : b[i] = s[i] /\ s[i] # NUL
  BY TextIs, LockStepAssumption DEF Holds
<1>2. Len(s) + 1 \in 1 .. Size + 1 /\ Len(s) + 1 \in 1 .. Size
  BY <1>1
<1>3. \A i \in 1 .. Size : i < Len(s) + 1 => b[i] # NUL
  BY <1>1
<1>4. /\ CString(b) \in Text /\ Len(CString(b)) = Len(s) + 1 - 1
      /\ \A i \in 1 .. Len(s) + 1 - 1 : CString(b)[i] = b[i]
  BY <1>1, <1>2, <1>3, StringTo
<1>5. Len(CString(b)) = Len(s) /\ \A i \in 1 .. Len(CString(b)) : CString(b)[i] = s[i]
  BY <1>1, <1>4
<1>6. CString(b) = s
  BY <1>4, <1>5, SeqEqual DEF Text
<1>. QED  BY <1>1, <1>2, <1>6 DEF HasNul

\* Buffers with the same contents are the same.
LEMMA SameBuffer ==
  ASSUME NEW b \in Buffers, NEW c \in Buffers, \A i \in 1 .. Size : b[i] = c[i]
  PROVE  b = c
<1>1. b = [i \in 1 .. Size |-> b[i]] /\ c = [i \in 1 .. Size |-> c[i]]
  BY DEF Buffers
<1>2. [i \in 1 .. Size |-> b[i]] = [i \in 1 .. Size |-> c[i]]
  OBVIOUS
<1>. QED  BY <1>1, <1>2

\* A cleared buffer holds what is put there, and a buffer what it held.
LEMMA StoreHolds ==
  ASSUME NEW b \in Buffers, NEW s \in Text, Len(s) < Size, b = Zero \/ Holds(b, s)
  PROVE  Holds(Store(b, s), s) /\ (Holds(b, s) => Store(b, s) = b)
<1>1. Size \in Nat /\ s \in Seq(Chars \cup {NUL}) /\ Len(s) \in Nat /\ Len(s) + 1 \in 1 .. Size
  BY TextIs, LockStepAssumption
<1>2. /\ Store(b, s) \in Buffers
      /\ \A i \in 1 .. Size : Store(b, s)[i] = IF i <= Len(s) THEN s[i] ELSE b[i]
  BY <1>1, Stored
<1>3. b[Len(s) + 1] = NUL
  BY <1>1, ZeroIs DEF Holds
<1>4. Store(b, s)[Len(s) + 1] = NUL /\ \A i \in 1 .. Len(s) : Store(b, s)[i] = s[i]
  BY <1>1, <1>2, <1>3
<1>5. ASSUME Holds(b, s) PROVE Store(b, s) = b
  <2>1. \A i \in 1 .. Size : Store(b, s)[i] = b[i]
    BY <1>1, <1>2, <1>5 DEF Holds
  <2>. QED  BY <1>2, <2>1, SameBuffer
<1>. QED  BY <1>4, <1>5 DEF Holds

\* A line and the NULs that end it.
LEMMA TypedHolds ==
  ASSUME NEW b \in Buffers, NEW s \in Text, Len(s) < Size, NEW z, z \in {<<NUL>>, <<NUL, NUL>>},
         NEW t, t = s \o z
  PROVE  Store(b, t) \in Buffers /\ Holds(Store(b, t), s)
<1>1. Size \in Nat /\ s \in Seq(Chars \cup {NUL}) /\ Len(s) \in Nat
  BY TextIs, LockStepAssumption
<1>2. z \in Seq(Chars \cup {NUL}) /\ Len(z) \in Nat \ {0} /\ z[1] = NUL
  <2>1. CASE z = <<NUL>>
    BY <2>1
  <2>2. CASE z = <<NUL, NUL>>
    BY <2>2
  <2>. QED  BY <2>1, <2>2
<1>3. /\ t \in Seq(Chars \cup {NUL}) /\ Len(t) = Len(s) + Len(z)
      /\ \A i \in 1 .. Len(s) + Len(z) : t[i] = IF i <= Len(s) THEN s[i] ELSE z[i - Len(s)]
  BY <1>1, <1>2, ConcatProperties
<1>4. t[Len(s) + 1] = NUL /\ \A i \in 1 .. Len(s) : t[i] = s[i]
  <2>1. Len(s) + 1 \in 1 .. Len(s) + Len(z) /\ Len(s) + 1 - Len(s) = 1 /\ ~(Len(s) + 1 <= Len(s))
    BY <1>1, <1>2
  <2>2. t[Len(s) + 1] = z[Len(s) + 1 - Len(s)]
    BY <1>3, <2>1
  <2>3. \A i \in 1 .. Len(s) : i \in 1 .. Len(s) + Len(z) /\ i <= Len(s)
    BY <1>1, <1>2
  <2>. QED  BY <1>2, <1>3, <2>1, <2>2, <2>3
<1>5. /\ Store(b, t) \in Buffers
      /\ \A i \in 1 .. Size : Store(b, t)[i] = IF i <= Len(t) THEN t[i] ELSE b[i]
  BY <1>3, Stored
<1>6. \A i \in 1 .. Len(s) + 1 : i \in 1 .. Size /\ i <= Len(t)
  BY <1>1, <1>2, <1>3
<1>7. \A i \in 1 .. Len(s) + 1 : Store(b, t)[i] = t[i]
  BY <1>5, <1>6
<1>8. Len(s) + 1 \in 1 .. Len(s) + 1 /\ \A i \in 1 .. Len(s) : i \in 1 .. Len(s) + 1
  BY <1>1
<1>. QED  BY <1>4, <1>5, <1>7, <1>8 DEF Holds

-----------------------------------------------------------------------------
(* Lines and answers.                                                      *)

\* The word stands at the start of a text.
LEMMA WordIs ==
  ASSUME NEW s \in Text
  PROVE  IsPrefix(Keyword, s) <=> Len(s) >= 2 /\ s[1] = "k" /\ s[2] = "l"
<1>1. /\ Keyword \in Text /\ Len(Keyword) = 2 /\ Keyword[1] = "k" /\ Keyword[2] = "l"
  <2>1. "k" \in Chars /\ "l" \in Chars
    BY DEF Chars
  <2>2. Keyword \in Text
    BY <2>1 DEF Keyword, Text
  <2>3. Len(Keyword) = 2 /\ Keyword[1] = "k" /\ Keyword[2] = "l"
    BY DEF Keyword
  <2>. QED  BY <2>2, <2>3
<1>2. IsPrefix(Keyword, s) <=> Len(Keyword) <= Len(s) /\ \A i \in 1 .. Len(Keyword) : Keyword[i] = s[i]
  <2>1. Keyword \in Seq(Chars) /\ s \in Seq(Chars)
    BY <1>1 DEF Text
  <2>. QED  BY <2>1, PrefixIs
<1>3. Len(s) \in Nat
  BY TextIs
<1>4. (\A i \in 1 .. 2 : Keyword[i] = s[i]) <=> s[1] = "k" /\ s[2] = "l"
  <2>1. 1 .. 2 = {1, 2}
    OBVIOUS
  <2>. QED  BY <1>1, <2>1
<1>. QED  BY <1>1, <1>2, <1>3, <1>4

\* And at the start of a buffer.
LEMMA StartsIs ==
  ASSUME NEW b \in Buffers
  PROVE  StartsWith(b) <=> b[1] = "k" /\ b[2] = "l"
<1>1. Size \in Nat /\ Size > 3 /\ 1 \in 1 .. Size /\ 2 \in 1 .. Size
  BY LockStepAssumption
<1>2. /\ CString(b) \in Text /\ Len(CString(b)) \in 0 .. Size
      /\ \A i \in 1 .. Len(CString(b)) : CString(b)[i] = b[i]
  BY StringIs
<1>3. StartsWith(b) <=> Len(CString(b)) >= 2 /\ CString(b)[1] = "k" /\ CString(b)[2] = "l"
  BY <1>2, WordIs DEF StartsWith
<1>4. ASSUME StartsWith(b) PROVE b[1] = "k" /\ b[2] = "l"
  <2>1. 1 \in 1 .. Len(CString(b)) /\ 2 \in 1 .. Len(CString(b))
    BY <1>1, <1>2, <1>3, <1>4
  <2>. QED  BY <1>2, <1>3, <1>4, <2>1
<1>5. ASSUME b[1] = "k", b[2] = "l" PROVE StartsWith(b)
  <2>1. PICK m \in 1 .. Size + 1 : /\ m <= Size => b[m] = NUL
                                   /\ \A i \in 1 .. Size : i < m => b[i] # NUL
    <3>1. CASE HasNul(b)
      <4>. DEFINE E == {i \in 1 .. Size : b[i] = NUL}
      <4>1. E \in SUBSET Nat /\ E # {}
        BY <3>1 DEF HasNul
      <4>2. Min(E) \in E /\ \A x \in E : Min(E) <= x
        BY <4>1, Least
      <4>3. PICK m \in 1 .. Size : b[m] = NUL /\ \A x \in E : m <= x
        BY <4>2
      <4>4. m \in 1 .. Size + 1 /\ \A i \in 1 .. Size : i < m => b[i] # NUL
        BY <1>1, <4>3
      <4>. QED  BY <4>3, <4>4
    <3>2. CASE ~HasNul(b)
      <4>1. Size + 1 \in 1 .. Size + 1 /\ ~(Size + 1 <= Size)
        BY <1>1
      <4>. QED  BY <3>2, <4>1 DEF HasNul
    <3>. QED  BY <3>1, <3>2
  <2>2. Len(CString(b)) = m - 1 /\ \A i \in 1 .. m - 1 : CString(b)[i] = b[i]
    BY <2>1, StringTo
  <2>3. m # 1 /\ m # 2
    BY <1>1, <1>5, <2>1 DEF NUL
  <2>4. m - 1 >= 2 /\ 1 \in 1 .. m - 1 /\ 2 \in 1 .. m - 1
    BY <1>1, <2>1, <2>3
  <2>. QED  BY <1>3, <1>5, <2>2, <2>4
<1>. QED  BY <1>4, <1>5

\* A server looks for it in the line it has just read, whatever its buffer held.
LEMMA QuitsIs ==
  ASSUME NEW b \in Buffers, NEW l \in Text, Len(l) < Size,
         \/ Whole(l)
         \/ b = Zero
  PROVE  StartsWith(Store(b, l)) <=> IsPrefix(Keyword, l)
<1>1. Size \in Nat /\ Size > 3 /\ 1 \in 1 .. Size /\ 2 \in 1 .. Size /\ Len(l) \in Nat
  BY LockStepAssumption, TextIs
<1>2. /\ Store(b, l) \in Buffers
      /\ Store(b, l)[1] = IF 1 <= Len(l) THEN l[1] ELSE b[1]
      /\ Store(b, l)[2] = IF 2 <= Len(l) THEN l[2] ELSE b[2]
  BY <1>1, TextIs, Stored
<1>3. StartsWith(Store(b, l)) <=> Store(b, l)[1] = "k" /\ Store(b, l)[2] = "l"
  BY <1>2, StartsIs
<1>4. IsPrefix(Keyword, l) <=> Len(l) >= 2 /\ l[1] = "k" /\ l[2] = "l"
  BY WordIs
<1>5. CASE Len(l) >= 2
  BY <1>1, <1>2, <1>3, <1>4, <1>5
<1>6. CASE ~(Len(l) >= 2) /\ Whole(l)
  <2>1. Len(l) = 1 /\ l[1] = "n"
    BY <1>6 DEF Whole
  <2>. QED  BY <1>2, <1>3, <1>4, <2>1
<1>7. CASE ~(Len(l) >= 2) /\ b = Zero
  <2>1. b[2] = NUL
    BY <1>1, <1>7, ZeroIs
  <2>2. Store(b, l)[2] # "l"
    BY <1>1, <1>2, <1>7, <2>1 DEF NUL
  <2>. QED  BY <1>3, <1>4, <1>7, <2>2
<1>. QED  BY <1>5, <1>6, <1>7

\* fgets() leaves room for its NUL, and a newline if that is all there is.
LEMMA TypedIs ==
  ASSUME NEW l \in Lines
  PROVE  Typed(l) \in Text /\ Len(Typed(l)) < Size /\ (Echoes => Whole(Typed(l)))
<1>1. /\ l \in Text /\ Len(l) \in Nat /\ \A i \in 1 .. Len(l) : l[i] \in Chars
      /\ Size \in Nat /\ Size > 3 /\ "n" \in Chars
  <2>1. l \in Seq(Chars \ {"n"})
    BY LockStepAssumption
  <2>2. l \in Seq(Chars)
    BY <2>1, SeqMonotonic
  <2>. QED  BY <2>2, LockStepAssumption, TextIs DEF Text, Chars
<1>2. /\ Fgets(l) \in Text /\ Len(Fgets(l)) \in 1 .. Size - 1 /\ Whole(Fgets(l))
  <2>1. CASE Len(l) < Limit
    <3>1. Fgets(l) = Append(l, "n")
      BY <2>1 DEF Fgets
    <3>2. /\ Append(l, "n") \in Text /\ Len(Append(l, "n")) = Len(l) + 1
      BY <1>1, AppendProperties DEF Text
    <3>3. Len(l) + 1 \in 1 .. Size - 1
      BY <1>1, <2>1 DEF Limit
    <3>4. Whole(Append(l, "n"))
      <4>1. CASE Len(l) = 0
        <5>1. l = <<>>
          BY <1>1, <4>1, EmptySeq DEF Text
        <5>. QED  BY <5>1 DEF Whole
      <4>2. CASE Len(l) # 0
        BY <1>1, <3>2, <4>2 DEF Whole
      <4>. QED  BY <4>1, <4>2
    <3>. QED  BY <3>1, <3>2, <3>3, <3>4
  <2>2. CASE ~(Len(l) < Limit)
    <3>1. Fgets(l) = SubSeq(l, 1, Size - 1)
      BY <2>2 DEF Fgets, Limit
    <3>2. Size - 1 \in 0 .. Len(l)
      BY <1>1, <2>2 DEF Limit
    <3>3. SubSeq(l, 1, Size - 1) \in Text /\ Len(SubSeq(l, 1, Size - 1)) = Size - 1
      BY <1>1, <3>2, Cut DEF Text
    <3>4. Size - 1 \in 1 .. Size - 1 /\ Size - 1 >= 2
      BY <1>1
    <3>. QED  BY <3>1, <3>3, <3>4 DEF Whole
  <2>. QED  BY <2>1, <2>2
<1>3. CASE ~Echoes /\ Last(Fgets(l)) = "n"
  <2>1. Typed(l) = Front(Fgets(l))
    BY <1>3 DEF Typed
  <2>2. Len(Fgets(l)) - 1 \in 0 .. Len(Fgets(l)) /\ Len(Fgets(l)) - 1 < Size
    BY <1>1, <1>2
  <2>3. /\ SubSeq(Fgets(l), 1, Len(Fgets(l)) - 1) \in Text
        /\ Len(SubSeq(Fgets(l), 1, Len(Fgets(l)) - 1)) = Len(Fgets(l)) - 1
    BY <1>2, <2>2, Cut DEF Text
  <2>. QED  BY <1>3, <2>1, <2>2, <2>3 DEF Front
<1>4. CASE ~(~Echoes /\ Last(Fgets(l)) = "n")
  <2>1. Typed(l) = Fgets(l)
    BY <1>4 DEF Typed
  <2>. QED  BY <1>1, <1>2, <2>1
<1>. QED  BY <1>3, <1>4

\* The answers there are, program by program.
LEMMA AnswersAre ==
  ASSUME NEW p, NEW l
  PROVE  /\ p \in {"echo", "unix"} => AnswersTo(p, l) = {l}
         /\ p = "reverse" => AnswersTo(p, l) = {Reversed(l)}
         /\ p = "calc" => AnswersTo(p, l) = Results
<1>1. CASE p \in {"echo", "unix"}
  <2>1. p # "reverse" /\ p # "calc"
    BY <1>1
  <2>. QED  BY <1>1, <2>1 DEF AnswersTo
<1>2. CASE p = "reverse"
  <2>1. p \notin {"echo", "unix"} /\ p # "calc"
    BY <1>2
  <2>. QED  BY <1>2, <2>1 DEF AnswersTo
<1>3. CASE p = "calc"
  <2>1. p \notin {"echo", "unix"} /\ p # "reverse"
    BY <1>3
  <2>. QED  BY <1>3, <2>1 DEF AnswersTo
<1>. QED  BY <1>1, <1>2, <1>3

\* An answer is text and has room in the client's buffer.
LEMMA AnswerIs ==
  ASSUME NEW p \in {"echo", "unix", "calc", "reverse"}, NEW l \in Text, NEW s \in AnswersTo(p, l)
  PROVE  s \in Text /\ (Len(l) < Size => Len(s) < Size)
<1>1. CASE p \in {"echo", "unix"}
  BY <1>1, AnswersAre
<1>2. CASE p = "reverse"
  <2>1. s = Reverse(l)
    BY <1>2, AnswersAre DEF Reversed
  <2>2. Len(l) \in Nat /\ \A i \in 1 .. Len(l) : l[i] \in Chars
    BY TextIs
  <2>3. \A i \in 1 .. Len(l) : l[(Len(l) - i) + 1] \in Chars
    BY <2>2
  <2>4. s \in [1 .. Len(l) -> Chars]
    BY <2>1, <2>3 DEF Reverse
  <2>5. s \in Seq(Chars) /\ Len(s) = Len(l)
    BY <2>2, <2>4
  <2>. QED  BY <2>5 DEF Text
<1>3. CASE p = "calc"
  <2>1. s \in Results /\ Size \in Nat /\ Size > 3
    BY <1>3, LockStepAssumption, AnswersAre
  <2>2. s = <<"a">> \/ s = <<"k", "l", "a">>
    BY <2>1 DEF Results, Keyword
  <2>3. "k" \in Chars /\ "l" \in Chars /\ "a" \in Chars
    BY DEF Chars
  <2>4. <<"a">> \in Seq(Chars) /\ <<"k", "l", "a">> \in Seq(Chars)
    BY <2>3
  <2>5. Len(<<"a">>) = 1 /\ Len(<<"k", "l", "a">>) = 3
    OBVIOUS
  <2>6. Len(s) = 1 \/ Len(s) = 3
    BY <2>2, <2>5
  <2>7. s \in Text
    BY <2>2, <2>4 DEF Text
  <2>8. Len(s) < Size
    <3>1. Size \in Nat /\ Size > 3
      BY LockStepAssumption
    <3>2. \A n \in Nat : n = 1 \/ n = 3 => n < Size
      BY <3>1
    <3>. QED  BY <2>6, <2>7, <3>2, TextIs
  <2>. QED  BY <2>7, <2>8
<1>. QED  BY <1>1, <1>2, <1>3


\* How much a read() returns.
LEMMA AmountIs ==
  ASSUME NEW s \in Text, s # <<>>, NEW n \in Amounts(s)
  PROVE  /\ n \in 1 .. Len(s) /\ n <= Size
         /\ ~split /\ Len(s) < Size => n = Len(s)
<1>1. Size \in Nat /\ Size > 3 /\ Len(s) \in Nat /\ Len(s) # 0
  BY LockStepAssumption, EmptySeq DEF Text
<1>2. Min({Len(s), Size}) = IF Len(s) <= Size THEN Len(s) ELSE Size
  BY <1>1, Lesser
<1>3. n \in IF split THEN 1 .. Min({Len(s), Size}) ELSE {Min({Len(s), Size})}
  BY DEF Amounts
<1>4. Min({Len(s), Size}) \in Nat /\ Min({Len(s), Size}) >= 1
  BY <1>1, <1>2
<1>5. n \in Nat /\ n >= 1 /\ n <= Min({Len(s), Size}) /\ (~split => n = Min({Len(s), Size}))
  BY <1>3, <1>4
<1>. QED  BY <1>1, <1>2, <1>5

\* What a read() takes, and leaves.
LEMMA TakenIs ==
  ASSUME NEW s \in Text, s # <<>>, NEW n \in Amounts(s), NEW b \in Buffers
  PROVE  /\ SubSeq(s, 1, n) \in Text /\ Rest(s, n) \in Text
         /\ Store(b, SubSeq(s, 1, n)) \in Buffers
<1>1. n \in 0 .. Len(s)
  BY AmountIs
<1>2. SubSeq(s, 1, n) \in Text /\ Rest(s, n) \in Text
  BY <1>1, Cut DEF Text
<1>. QED  BY <1>2, TextIs, Stored

\* What the echo client still waits for is text.
LEMMA RestIs ==
  ASSUME NEW s \in Text, NEW n \in Nat
  PROVE  Rest(s, n) \in Text
<1>1. Len(s) \in Nat /\ \A i \in 1 .. Len(s) : s[i] \in Chars
  BY TextIs
<1>2. n + 1 \in Int /\ Len(s) \in Int /\ \A i \in n + 1 .. Len(s) : s[i] \in Chars
  BY <1>1
<1>3. SubSeq(s, n + 1, Len(s)) \in Seq(Chars)
  BY <1>2, SubSeqProperties
<1>. QED  BY <1>3 DEF Rest, Text

\* A text is the start of itself and another.
LEMMA ConcatPrefix ==
  ASSUME NEW s \in Text, NEW t \in Text
  PROVE  IsPrefix(s, s \o t)
<1>1. s \in Seq(Chars) /\ t \in Seq(Chars) /\ Len(s) \in Nat /\ Len(t) \in Nat
  BY TextIs DEF Text
<1>2. /\ s \o t \in Seq(Chars) /\ Len(s \o t) = Len(s) + Len(t)
      /\ \A i \in 1 .. Len(s) + Len(t) : (s \o t)[i] = IF i <= Len(s) THEN s[i] ELSE t[i - Len(s)]
  BY <1>1, ConcatProperties
<1>3. \A i \in 1 .. Len(s) : i \in 1 .. Len(s) + Len(t) /\ i <= Len(s)
  BY <1>1
<1>4. Len(s) <= Len(s \o t) /\ \A i \in 1 .. Len(s) : s[i] = (s \o t)[i]
  BY <1>1, <1>2, <1>3
<1>. QED  BY <1>1, <1>2, <1>4, PrefixIs

\* Texts are joined in any order.
LEMMA Together ==
  ASSUME NEW r \in Text, NEW s \in Text, NEW t \in Text
  PROVE  (r \o s) \o t = r \o (s \o t)
  BY ConcatAssociative DEF Text

\* What a server writes back are answers to what it has read.
LEMMA AnswersIs ==
  ASSUME NEW part, NEW b, prog \in {"echo", "unix", "calc", "reverse"}
  PROVE  Answers(part, b) = AnswersTo(prog, IF Echoes THEN part ELSE CString(b))
<1>1. CASE Echoes
  <2>1. Answers(part, b) = {part}
    BY <1>1 DEF Answers, Echoes, Echoed
  <2>. QED  BY <1>1, <2>1, AnswersAre DEF Echoes
<1>2. CASE prog = "reverse"
  <2>1. Answers(part, b) = {Reversed(CString(b))} /\ ~Echoes
    BY <1>2 DEF Answers, Echoes
  <2>. QED  BY <1>2, <2>1, AnswersAre
<1>3. CASE prog = "calc"
  <2>1. Answers(part, b) = Results /\ ~Echoes
    BY <1>3 DEF Answers, Echoes
  <2>. QED  BY <1>3, <2>1, AnswersAre
<1>. QED  BY <1>1, <1>2, <1>3 DEF Echoes

\* The buffer of a program that clears it holds exactly what it has read.
LEMMA ClearedHolds ==
  ASSUME ~Echoes, NEW b \in Buffers, NEW s \in Text, Len(s) < Size
  PROVE  /\ Holds(Store(Cleared(b), s), s)
         /\ CString(Store(Cleared(b), s)) = s /\ HasNul(Store(Cleared(b), s))
<1>1. Cleared(b) = Zero /\ Zero \in Buffers
  BY ZeroIs DEF Cleared
<1>2. Holds(Store(Zero, s), s)
  BY <1>1, StoreHolds
<1>3. Store(Zero, s) \in Buffers
  BY <1>1, TextIs, Stored
<1>4. CString(Store(Zero, s)) = s /\ HasNul(Store(Zero, s))
  BY <1>2, <1>3, StringHeld
<1>. QED  BY <1>1, <1>2, <1>4

\* Clearing makes a buffer, with a NUL if there was one.
LEMMA ClearedIs ==
  ASSUME NEW b \in Buffers
  PROVE  Cleared(b) \in Buffers /\ (HasNul(b) => HasNul(Cleared(b))) /\ (Echoes => Cleared(b) = b)
<1>1. Zero \in Buffers /\ HasNul(Zero)
  <2>1. 1 \in 1 .. Size
    BY LockStepAssumption
  <2>. QED  BY <2>1, ZeroIs DEF HasNul
<1>. QED  BY <1>1 DEF Cleared

-----------------------------------------------------------------------------
(* The steps.                                                              *)

\* Before anything is typed.
LEMMA InitInv == PairInit => IInv
<1>. SUFFICES ASSUME PairInit PROVE IInv
  OBVIOUS
<1>1. Zero \in Buffers /\ HasNul(Zero) /\ Size \in Nat /\ Size > 3
  <2>1. 1 \in 1 .. Size
    BY LockStepAssumption
  <2>. QED  BY <2>1, ZeroIs, LockStepAssumption DEF HasNul
<1>2. <<>> \in Text /\ Len(<<>>) = 0 /\ 0 \in 0 .. MaxSends
  BY LockStepAssumption DEF Text
<1>3. cbuf \in Buffers /\ HasNul(cbuf)
  <2>1. CASE Echoes
    BY <1>1, <2>1 DEF PairInit
  <2>2. CASE ~Echoes
    <3>1. PICK l \in Lines : cbuf = Store(Zero, SubSeq(l, 1, Min({Len(l), Size - 1})))
      BY <2>2 DEF PairInit
    <3>2. l \in Seq(Chars)
      <4>1. l \in Seq(Chars \ {"n"})
        BY LockStepAssumption
      <4>. QED  BY <4>1, SeqMonotonic
    <3>3. Len(l) \in Nat /\ Size - 1 \in Nat
      BY <1>1, <3>2, LenProperties
    <3>4. Min({Len(l), Size - 1}) = IF Len(l) <= Size - 1 THEN Len(l) ELSE Size - 1
      BY <3>3, Lesser
    <3>5. Min({Len(l), Size - 1}) \in 0 .. Len(l) /\ Min({Len(l), Size - 1}) < Size
      BY <1>1, <3>3, <3>4
    <3>6. PICK s : s = SubSeq(l, 1, Min({Len(l), Size - 1}))
      OBVIOUS
    <3>7. s \in Text /\ Len(s) < Size
      BY <3>2, <3>5, <3>6, Cut DEF Text
    <3>8. cbuf = Store(Zero, s)
      BY <3>1, <3>6
    <3>9. s \in Seq(Chars \cup {NUL}) /\ Store(Zero, s) \in Buffers
      BY <1>1, <3>7, TextIs, Stored
    <3>10. Holds(Store(Zero, s), s)
      BY <1>1, <3>7, StoreHolds
    <3>. QED  BY <3>7, <3>8, <3>9, <3>10, StringHeld
  <2>. QED  BY <2>1, <2>2
<1>4. AnyTypes
  BY <1>1, <1>2, <1>3 DEF PairInit, AnyTypes
<1>5. EchoStream
  <2>1. srv = "reading" /\ down \o up = owed
    BY <1>2, ConcatEmptySeq DEF PairInit, Text
  <2>. QED  BY <2>1 DEF EchoStream
<1>6. Ends /\ InFlight /\ Echoing /\ Answered
  BY <1>1, <1>2, <1>3 DEF PairInit, Ends, InFlight, Echoing, Answered
<1>. QED  BY <1>4, <1>5, <1>6 DEF IInv, WhileWhole

\* A line given to the programs to send, or a buffer to send again.
LEMMA SubmitStep ==
  ASSUME IInv, clnt = "prompt", NEW s \in Text, Submit(s),
         ~split => Len(s) < Size /\ HasNul(cbuf'),
         Echoes => Holds(cbuf', s) /\ Whole(s),
         cbuf' \in Buffers, eof' \in BOOLEAN, UNCHANGED <<kind, shown, srv, sbuf, down>>
  PROVE  IInv'
<1>1. AnyTypes /\ EchoStream /\ (~split => Ends /\ InFlight /\ Echoing /\ Answered)
  BY DEF IInv, WhileWhole
<1>2. prog' = prog /\ split' = split /\ (Echoes' <=> Echoes)
      /\ UNCHANGED <<shown, srv, sbuf, down>>
  BY DEF kind, Echoes
<1>3. /\ up \in Text /\ down \in Text /\ owed \in Text /\ up \o s \in Text /\ owed \o s \in Text
      /\ <<>> \in Text /\ s \in Text
  <2>1. up \in Text /\ down \in Text /\ owed \in Text
    BY <1>1 DEF AnyTypes
  <2>. QED  BY <2>1, ConcatProperties, EmptySeq DEF Text
<1>4. ~split => /\ up = <<>> /\ down = <<>> /\ up \o s = s
                /\ Echoes => srv = "reading"
  <2>1. ASSUME ~split PROVE up = <<>> /\ down = <<>> /\ (Echoes => srv = "reading")
    BY <1>1, <2>1 DEF InFlight, Echoing, Gone
  <2>2. <<>> \o s = s
    BY ConcatEmptySeq DEF Text
  <2>. QED  BY <2>1, <2>2
<1>5. ~split' => HasNul(cbuf') /\ (~Echoes' => HasNul(sbuf'))
  BY <1>1, <1>2 DEF Ends
<1>6. ASSUME up' \in {up, up \o s} PROVE ~split' => Ends'
  <2>1. ASSUME ~split PROVE up' = <<>> \/ up' = s
    BY <1>4, <1>6, <2>1
  <2>2. ASSUME ~split PROVE Len(up') < Size
    <3>1. Len(<<>>) < Size
      BY LockStepAssumption
    <3>. QED  BY <2>1, <2>2, <3>1
  <2>. QED  BY <1>2, <1>5, <2>2 DEF Ends
<1>7. CASE ~Echoes /\ s = Keyword
  <2>1. /\ clnt' = "ended" /\ UNCHANGED <<line, sends>>
        /\ up' \in {up, up \o s} /\ owed' \in {owed, <<>>} /\ reset' \in BOOLEAN
    BY <1>1, <1>7 DEF Submit, SendLine, AnyTypes
  <2>2. AnyTypes'
    <3>1. up' \in Text /\ owed' \in Text
      BY <1>3, <2>1
    <3>. QED  BY <1>1, <1>2, <2>1, <3>1 DEF AnyTypes
  <2>3. EchoStream'
    BY <1>2, <1>7 DEF EchoStream
  <2>4. ~split' => Ends'
    BY <1>6, <2>1
  <2>5. InFlight' /\ Echoing' /\ Answered'
    BY <1>2, <1>7, <2>1 DEF InFlight, Echoing, Answered, Gone
  <2>. QED  BY <2>2, <2>3, <2>4, <2>5 DEF IInv, WhileWhole
<1>8. CASE ~(~Echoes /\ s = Keyword)
  <2>1. Send(s)
    BY <1>8 DEF Submit
  <2>2. sends' \in 0 .. MaxSends
    BY <1>1, <2>1, LockStepAssumption DEF Send, AnyTypes
  <2>3. CASE clnt' = "reading" /\ line' = s /\ SendLine(s)
    <3>1. /\ up' \in {up, up \o s} /\ reset' \in BOOLEAN /\ up' \in Text /\ owed' \in Text
          /\ srv = "reading" => up' = up \o s /\ (Echoes => owed' = owed \o s)
          /\ srv # "reading" => up' = up /\ owed' = owed
      BY <1>1, <1>3, <2>3 DEF SendLine, AnyTypes
    <3>2. AnyTypes'
      BY <1>1, <1>2, <2>2, <2>3, <3>1 DEF AnyTypes
    <3>3. EchoStream'
      <4>1. ASSUME Echoes, srv = "reading" PROVE down' \o up' = owed'
        <5>1. down \o up = owed
          BY <1>1, <4>1 DEF EchoStream, Gone
        <5>2. down \o (up \o s) = (down \o up) \o s
          BY <1>3, ConcatAssociative DEF Text
        <5>. QED  BY <1>2, <3>1, <4>1, <5>1, <5>2
      <4>2. ASSUME Echoes, srv # "reading" PROVE IsPrefix(down', owed')
        <5>1. IsPrefix(down, owed)
          BY <1>1, <4>2 DEF EchoStream, Gone
        <5>. QED  BY <1>2, <3>1, <4>2, <5>1
      <4>. QED  BY <1>2, <4>1, <4>2 DEF EchoStream
    <3>4. ~split' => Ends'
      BY <1>6, <3>1
    <3>5. ~split' => InFlight'
      <4>1. ASSUME ~split PROVE /\ srv = "closed" => up' = <<>>
                                /\ srv = "reading" => up' = s
                                /\ down' = <<>> /\ Len(s) < Size
        <5>1. srv = "closed" => srv # "reading"
          OBVIOUS
        <5>. QED  BY <1>2, <1>4, <3>1, <4>1, <5>1
      <4>. QED  BY <1>2, <2>3, <4>1 DEF InFlight
    <3>6. ~split' => Echoing'
      <4>1. ASSUME ~split, Echoes PROVE srv' # "closed"
        BY <1>2, <1>4, <4>1
      <4>. QED  BY <1>2, <2>3, <4>1 DEF Echoing
    <3>7. Answered'
      BY <2>3 DEF Answered
    <3>. QED  BY <3>2, <3>3, <3>4, <3>5, <3>6, <3>7 DEF IInv, WhileWhole
  <2>4. CASE clnt' = "killed" /\ UNCHANGED <<line, up, owed, reset>>
    <3>1. AnyTypes'
      BY <1>1, <1>2, <2>2, <2>4 DEF AnyTypes
    <3>2. EchoStream' /\ InFlight' /\ Echoing' /\ Answered'
      BY <2>4 DEF EchoStream, InFlight, Echoing, Answered, Gone
    <3>3. ~split' => Ends'
      BY <1>6, <2>4
    <3>. QED  BY <3>1, <3>2, <3>3 DEF IInv, WhileWhole
  <2>. QED  BY <2>1, <2>3, <2>4 DEF Send
<1>. QED  BY <1>7, <1>8

\* The user types a line.
LEMMA TypeStep ==
  ASSUME IInv, NEW l \in Lines, Type(l)
  PROVE  IInv'
<1>1. AnyTypes
  BY DEF IInv
<1>2. PICK s : s = Typed(l)
  OBVIOUS
<1>3. s \in Text /\ Len(s) < Size /\ (Echoes => Whole(s))
  BY <1>2, TypedIs
<1>4. /\ clnt = "prompt" /\ Submit(s) /\ cbuf' = Store(cbuf, s \o Nuls(l))
      /\ UNCHANGED <<kind, eof, shown, srv, sbuf, down>>
  BY <1>2 DEF Type
<1>5. cbuf \in Buffers /\ eof' \in BOOLEAN
  BY <1>1, <1>4 DEF AnyTypes
<1>6. cbuf' \in Buffers /\ Holds(cbuf', s)
  <2>1. PICK z : z = Nuls(l) /\ z \in {<<NUL>>, <<NUL, NUL>>}
    BY DEF Nuls
  <2>. QED  BY <1>3, <1>4, <1>5, <2>1, TypedHolds
<1>7. HasNul(cbuf')
  BY <1>3, <1>6, StringHeld
<1>8. UNCHANGED <<kind, shown, srv, sbuf, down>>
  BY <1>4
<1>. QED  BY <1>3, <1>4, <1>5, <1>6, <1>7, <1>8, SubmitStep

\* Or ends the input.
LEMMA EndOfInputStep ==
  ASSUME IInv, EndOfInput
  PROVE  IInv'
<1>1. AnyTypes /\ EchoStream /\ (~split => Ends /\ InFlight /\ Echoing /\ Answered)
  BY DEF IInv, WhileWhole
<1>2. /\ clnt = "prompt" /\ eof' = TRUE /\ cbuf' = cbuf
      /\ UNCHANGED <<kind, shown, srv, sbuf, down>>
  BY DEF EndOfInput
<1>3. CASE Echoes
  <2>1. clnt' = "ended" /\ UNCHANGED <<line, up, owed, reset, sends>>
    BY <1>3 DEF EndOfInput
  <2>2. prog' = prog /\ split' = split /\ (Echoes' <=> Echoes)
        /\ UNCHANGED <<shown, srv, sbuf, down>>
    BY <1>2 DEF kind, Echoes
  <2>3. AnyTypes'
    BY <1>1, <1>2, <2>1, <2>2 DEF AnyTypes
  <2>4. EchoStream' /\ InFlight' /\ Echoing' /\ Answered'
    BY <2>1 DEF EchoStream, InFlight, Echoing, Answered, Gone
  <2>5. ~split' => Ends'
    BY <1>1, <1>2, <2>1, <2>2 DEF Ends
  <2>. QED  BY <2>3, <2>4, <2>5 DEF IInv, WhileWhole
<1>4. CASE ~Echoes
  <2>1. Submit(CString(cbuf)) /\ cbuf \in Buffers
    BY <1>1, <1>4 DEF EndOfInput, AnyTypes
  <2>2. CString(cbuf) \in Text /\ (HasNul(cbuf) => Len(CString(cbuf)) < Size)
    BY <2>1, StringIs
  <2>3. ~split => HasNul(cbuf')
    BY <1>1, <1>2 DEF Ends
  <2>4. eof' \in BOOLEAN /\ cbuf' \in Buffers
    BY <1>2, <2>1
  <2>. QED  BY <1>2, <1>4, <2>1, <2>2, <2>3, <2>4, SubmitStep
<1>. QED  BY <1>3, <1>4


\* The client reads, prints and looks for the word in what it printed.
LEMMA ReadStep ==
  ASSUME IInv, Read
  PROVE  IInv'
<1>1. AnyTypes /\ EchoStream /\ (~split => Ends /\ InFlight /\ Echoing /\ Answered)
  BY DEF IInv, WhileWhole
<1>2. /\ clnt = "reading" /\ down # <<>>
      /\ UNCHANGED <<prog, split, eof, line, reset, sends, srv, sbuf, up>>
      /\ (Echoes' <=> Echoes)
  BY DEF Read, kind, Echoes
<1>3. PICK n \in Amounts(down) :
        /\ Shows(Store(Cleared(cbuf), SubSeq(down, 1, n)))
        /\ down' = Rest(down, n) /\ owed' = Rest(owed, n)
  BY DEF Read
<1>4. /\ cbuf \in Buffers /\ up \in Text /\ down \in Text /\ owed \in Text /\ line \in Text
      /\ prog \in {"echo", "unix", "calc", "reverse"}
  BY <1>1, LockStepAssumption DEF AnyTypes
<1>5. PICK b : b = Store(Cleared(cbuf), SubSeq(down, 1, n))
  OBVIOUS
<1>6. /\ cbuf' = b /\ shown' = CString(b)
      /\ clnt' = IF Echoes /\ StartsWith(b) THEN "ended" ELSE "prompt"
  BY <1>3, <1>5 DEF Shows
<1>7. n \in 1 .. Len(down) /\ (~split /\ Len(down) < Size => n = Len(down))
  BY <1>2, <1>3, <1>4, AmountIs
<1>8. n \in Nat /\ n \in 0 .. Len(down)
  BY <1>7
<1>9. b \in Buffers /\ down' \in Text /\ owed' \in Text /\ CString(b) \in Text
  <2>1. Cleared(cbuf) \in Buffers
    BY <1>4, ClearedIs
  <2>2. b \in Buffers /\ down' \in Text
    BY <1>2, <1>3, <1>4, <1>5, <2>1, TakenIs
  <2>3. owed' \in Text
    BY <1>3, <1>4, <1>8, RestIs
  <2>. QED  BY <2>2, <2>3, StringIs
<1>10. AnyTypes'
  BY <1>1, <1>2, <1>6, <1>9 DEF AnyTypes
<1>11. EchoStream'
  <2>1. ASSUME Echoes, srv = "reading" PROVE down' \o up' = owed'
    <3>1. down \o up = owed
      BY <1>1, <1>2, <2>1 DEF EchoStream, Gone
    <3>2. Rest(down \o up, n) = Rest(down, n) \o up
      BY <1>4, <1>8, RestOfBoth DEF Text
    <3>. QED  BY <1>2, <1>3, <3>1, <3>2
  <2>2. ASSUME Echoes, srv # "reading" PROVE IsPrefix(down', owed')
    <3>1. IsPrefix(down, owed)
      BY <1>1, <1>2, <2>2 DEF EchoStream, Gone
    <3>2. IsPrefix(Rest(down, n), Rest(owed, n))
      BY <1>4, <1>8, <3>1, PrefixOfRest DEF Text
    <3>. QED  BY <1>3, <3>2
  <2>. QED  BY <1>2, <2>1, <2>2 DEF EchoStream
<1>12. ASSUME ~split PROVE Ends' /\ InFlight' /\ Echoing' /\ Answered'
  <2>1. Ends /\ InFlight /\ Echoing
    BY <1>1, <1>12
  <2>2. srv = "reading"
    BY <1>1, <1>2, <2>1 DEF InFlight, Gone, AnyTypes
  <2>3. up = <<>> /\ down \in AnswersTo(prog, line) /\ Len(line) < Size
    BY <1>2, <2>1, <2>2 DEF InFlight, Gone
  <2>4. Len(down) < Size
    BY <1>4, <2>3, AnswerIs
  <2>5. SubSeq(down, 1, n) = down /\ down' = <<>>
    BY <1>3, <1>4, <1>7, <1>12, <2>4, AllTaken DEF Text
  <2>6. b = Store(Cleared(cbuf), down)
    BY <1>5, <2>5
  <2>7. CString(b) = down /\ HasNul(b)
    <3>1. CASE Echoes
      <4>1. Holds(cbuf, line) /\ down = line
        BY <1>2, <2>1, <2>3, <3>1, AnswersAre DEF Echoing, Echoes
      <4>2. b = cbuf
        BY <1>4, <2>4, <2>6, <3>1, <4>1, ClearedIs, StoreHolds
      <4>. QED  BY <1>4, <4>1, <4>2, StringHeld
    <3>2. CASE ~Echoes
      BY <1>4, <2>4, <2>6, <3>2, ClearedHolds
    <3>. QED  BY <3>1, <3>2
  <2>8. Ends'
    BY <1>2, <1>6, <2>1, <2>7 DEF Ends
  <2>9. InFlight'
    BY <1>2, <1>6, <2>3, <2>5 DEF InFlight
  <2>10. Echoing'
    BY <1>2, <1>6, <2>2 DEF Echoing
  <2>11. Answered'
    BY <1>2, <1>6, <2>3, <2>7 DEF Answered
  <2>. QED  BY <2>8, <2>9, <2>10, <2>11
<1>. QED  BY <1>2, <1>10, <1>11, <1>12 DEF IInv, WhileWhole

\* At the end of the stream it finds its own line.
LEMMA ReadEofStep ==
  ASSUME IInv, ReadEof
  PROVE  IInv'
<1>1. AnyTypes /\ EchoStream /\ (~split => Ends /\ InFlight /\ Echoing /\ Answered)
  BY DEF IInv, WhileWhole
<1>2. /\ clnt = "reading" /\ down = <<>> /\ srv = "closed"
      /\ UNCHANGED <<prog, split, eof, line, owed, reset, sends, srv, sbuf, up, down>>
      /\ (Echoes' <=> Echoes)
  BY DEF ReadEof, kind, Echoes
<1>3. PICK b : b = Cleared(cbuf)
  OBVIOUS
<1>4. /\ cbuf' = b /\ shown' = CString(b)
      /\ clnt' = IF Echoes /\ StartsWith(b) THEN "ended" ELSE "prompt"
  BY <1>3 DEF ReadEof, Shows
<1>5. /\ b \in Buffers /\ (HasNul(cbuf) => HasNul(b)) /\ (Echoes => b = cbuf)
      /\ cbuf \in Buffers /\ line \in Text
  BY <1>1, <1>3, ClearedIs DEF AnyTypes
<1>6. CString(b) \in Text
  BY <1>5, StringIs
<1>7. AnyTypes'
  BY <1>1, <1>2, <1>4, <1>5, <1>6 DEF AnyTypes
<1>8. EchoStream'
  BY <1>1, <1>2 DEF EchoStream, Gone
<1>9. ASSUME ~split PROVE Ends' /\ InFlight' /\ Echoing' /\ Answered'
  <2>1. Ends /\ InFlight /\ Echoing
    BY <1>1, <1>9
  <2>2. Ends'
    BY <1>2, <1>4, <1>5, <2>1 DEF Ends
  <2>3. up = <<>> /\ down = <<>> /\ Len(line) < Size
    BY <1>2, <2>1 DEF InFlight, Gone
  <2>4. InFlight'
    BY <1>2, <1>4, <2>3 DEF InFlight
  <2>5. Echoes => clnt' = "ended"
    <3>1. ASSUME Echoes PROVE StartsWith(b)
      <4>1. Holds(cbuf, line) /\ IsPrefix(Keyword, line)
        BY <1>2, <2>1, <3>1 DEF Echoing
      <4>2. CString(cbuf) = line
        BY <1>5, <4>1, StringHeld
      <4>. QED  BY <1>5, <3>1, <4>1, <4>2 DEF StartsWith
    <3>. QED  BY <1>4, <3>1
  <2>6. Echoing'
    BY <1>2, <2>5 DEF Echoing
  <2>7. Answered'
    BY <1>2 DEF Answered
  <2>. QED  BY <2>2, <2>4, <2>6, <2>7
<1>. QED  BY <1>2, <1>7, <1>8, <1>9 DEF IInv, WhileWhole

\* The server reads and, unless it is to quit or is alone, writes an answer.
LEMMA ServeStep ==
  ASSUME IInv, Serve
  PROVE  IInv'
<1>1. AnyTypes /\ EchoStream /\ (~split => Ends /\ InFlight /\ Echoing /\ Answered)
  BY DEF IInv, WhileWhole
<1>2. /\ srv = "reading" /\ up # <<>>
      /\ UNCHANGED <<prog, split, clnt, eof, cbuf, line, shown, owed, reset, sends>>
      /\ (Echoes' <=> Echoes) /\ (Gone' <=> Gone)
  BY DEF Serve, kind, client, Echoes, Gone
<1>3. PICK n \in Amounts(up) :
        LET buf == Store(Cleared(sbuf), SubSeq(up, 1, n)) IN
        /\ sbuf' = buf /\ up' = Rest(up, n)
        /\ IF QuitsOn(buf) THEN srv' = "closed" /\ UNCHANGED down
           ELSE IF Gone THEN srv' \in {"reading", "closed"} /\ UNCHANGED down
           ELSE /\ \E s \in Answers(SubSeq(up, 1, n), buf) : down' = down \o s
                /\ UNCHANGED srv
  BY DEF Serve
<1>4. PICK part, b : part = SubSeq(up, 1, n) /\ b = Store(Cleared(sbuf), part)
  OBVIOUS
<1>5. /\ sbuf' = b /\ up' = Rest(up, n)
      /\ \/ QuitsOn(b) /\ srv' = "closed" /\ down' = down
         \/ ~QuitsOn(b) /\ Gone /\ srv' \in {"reading", "closed"} /\ down' = down
         \/ /\ ~QuitsOn(b) /\ ~Gone /\ srv' = srv
            /\ \E s \in Answers(part, b) : down' = down \o s
  BY <1>3, <1>4
<1>6. /\ sbuf \in Buffers /\ up \in Text /\ down \in Text /\ owed \in Text /\ line \in Text
      /\ prog \in {"echo", "unix", "calc", "reverse"}
  BY <1>1, LockStepAssumption DEF AnyTypes
<1>7. /\ b \in Buffers /\ part \in Text /\ up' \in Text /\ CString(b) \in Text
  BY <1>2, <1>4, <1>5, <1>6, ClearedIs, TakenIs, StringIs
<1>8. n \in 1 .. Len(up) /\ n \in 0 .. Len(up) /\ (~split /\ Len(up) < Size => n = Len(up))
  <2>1. n \in 1 .. Len(up) /\ (~split /\ Len(up) < Size => n = Len(up))
    BY <1>2, <1>6, AmountIs
  <2>. QED  BY <2>1
<1>9. \A s \in Answers(part, b) :
        s \in AnswersTo(prog, IF Echoes THEN part ELSE CString(b)) /\ s \in Text /\ down \o s \in Text
  <2>1. (IF Echoes THEN part ELSE CString(b)) \in Text
    BY <1>7
  <2>2. \A s \in AnswersTo(prog, IF Echoes THEN part ELSE CString(b)) : s \in Text
    BY <1>6, <2>1, AnswerIs
  <2>3. \A s \in Text : down \o s \in Text
    BY <1>6, ConcatProperties DEF Text
  <2>. QED  BY <1>6, <2>2, <2>3, AnswersIs
<1>10. AnyTypes'
  <2>1. down' \in Text /\ srv' \in {"reading", "closed"}
    BY <1>2, <1>5, <1>6, <1>9
  <2>. QED  BY <1>1, <1>2, <1>5, <1>7, <2>1 DEF AnyTypes
<1>11. EchoStream'
  <2>1. ASSUME Echoes, ~Gone
        PROVE  IF srv' = "reading" THEN down' \o up' = owed' ELSE IsPrefix(down', owed')
    <3>1. down \o up = owed
      BY <1>1, <1>2, <2>1 DEF EchoStream
    <3>2. CASE srv' = "closed" /\ down' = down
      <4>1. IsPrefix(down, down \o up)
        BY <1>6, ConcatPrefix
      <4>. QED  BY <1>2, <3>1, <3>2, <4>1
    <3>3. CASE srv' = srv /\ \E s \in Answers(part, b) : down' = down \o s
      <4>1. PICK s \in Answers(part, b) : down' = down \o s
        BY <3>3
      <4>2. s = part
        BY <1>9, <2>1, AnswersAre DEF Echoes
      <4>3. part \o Rest(up, n) = up /\ Rest(up, n) \in Text
        BY <1>4, <1>6, <1>8, Cut DEF Text
      <4>4. (down \o part) \o Rest(up, n) = down \o (part \o Rest(up, n))
        <5>1. \A r \in Text : (down \o part) \o r = down \o (part \o r)
          BY <1>6, <1>7, Together
        <5>. QED  BY <4>3, <5>1
      <4>5. down' = down \o part /\ up' = Rest(up, n) /\ owed' = owed /\ srv' = "reading"
        BY <1>2, <1>5, <3>3, <4>1, <4>2
      <4>6. down' \o up' = owed'
        BY <3>1, <4>3, <4>4, <4>5
      <4>. QED  BY <4>5, <4>6
    <3>. QED  BY <1>5, <2>1, <3>2, <3>3
  <2>. QED  BY <1>2, <2>1 DEF EchoStream
<1>12. ASSUME ~split PROVE Ends' /\ InFlight' /\ Echoing' /\ Answered'
  <2>1. Ends /\ InFlight /\ Echoing
    BY <1>1, <1>12
  <2>2. part = up /\ up' = <<>> /\ Len(up) < Size /\ b = Store(Cleared(sbuf), up)
    BY <1>4, <1>5, <1>6, <1>8, <1>12, <2>1, AllTaken DEF Text, Ends
  <2>3. ~Echoes => CString(b) = up /\ HasNul(b)
    BY <1>6, <2>2, ClearedHolds
  <2>4. Ends'
    <3>1. Len(<<>>) < Size
      BY LockStepAssumption
    <3>. QED  BY <1>2, <1>5, <2>1, <2>2, <2>3, <3>1 DEF Ends
  <2>5. ASSUME ~Gone PROVE clnt = "reading" /\ up = line /\ down = <<>> /\ Len(line) < Size
    BY <1>1, <1>2, <2>1, <2>5 DEF InFlight, Gone, AnyTypes
  <2>6. InFlight'
    <3>1. ASSUME ~Gone, srv' = "closed" PROVE up' = <<>> /\ down' = <<>>
      BY <1>2, <1>5, <2>2, <2>5, <3>1
    <3>2. ASSUME ~Gone, srv' = "reading" PROVE up' = <<>> /\ down' \in AnswersTo(prog, line)
      <4>1. PICK s \in Answers(part, b) : down' = <<>> \o s
        BY <1>5, <2>5, <3>2
      <4>2. s \in AnswersTo(prog, line) /\ s \in Text
        BY <1>9, <2>2, <2>3, <2>5, <3>2
      <4>3. <<>> \o s = s
        BY <4>2, ConcatEmptySeq DEF Text
      <4>. QED  BY <2>2, <4>1, <4>2, <4>3
    <3>. QED  BY <1>2, <2>5, <3>1, <3>2 DEF InFlight
  <2>7. Echoing'
    <3>1. ASSUME Echoes, clnt = "reading"
          PROVE  Holds(cbuf, line) /\ Whole(line) /\ (srv' = "closed" => IsPrefix(Keyword, line))
      <4>1. Holds(cbuf, line) /\ Whole(line) /\ ~Gone
        BY <2>1, <3>1 DEF Echoing, Gone
      <4>2. ASSUME srv' = "closed" PROVE IsPrefix(Keyword, line)
        <5>1. QuitsOn(b)
          BY <1>2, <1>5, <4>1, <4>2
        <5>2. StartsWith(Store(sbuf, line))
          BY <1>6, <2>2, <2>5, <3>1, <4>1, <5>1, ClearedIs DEF QuitsOn
        <5>. QED  BY <1>6, <2>5, <4>1, <5>2, QuitsIs
      <4>. QED  BY <4>1, <4>2
    <3>2. ASSUME Echoes, clnt = "prompt" PROVE FALSE
      BY <2>5, <3>2 DEF Gone
    <3>. QED  BY <1>2, <3>1, <3>2 DEF Echoing
  <2>8. Answered'
    <3>1. clnt # "prompt"
      BY <2>5 DEF Gone
    <3>. QED  BY <1>2, <3>1 DEF Answered
  <2>. QED  BY <2>4, <2>6, <2>7, <2>8
<1>. QED  BY <1>2, <1>10, <1>11, <1>12 DEF IInv, WhileWhole

\* Every step keeps the invariant.
LEMMA NextStep ==
  ASSUME IInv, [PairNext]_pair
  PROVE  IInv'
<1>1. CASE Read
  BY <1>1, ReadStep
<1>2. CASE ReadEof
  BY <1>2, ReadEofStep
<1>3. CASE Serve
  BY <1>3, ServeStep
<1>4. CASE ServeEof
  <2>1. /\ Gone /\ srv' = "closed" /\ UNCHANGED <<prog, split, sbuf, up, down>>
        /\ UNCHANGED <<clnt, eof, cbuf, line, shown, owed, reset, sends>>
        /\ (Echoes' <=> Echoes) /\ (Gone' <=> Gone)
    BY <1>4 DEF ServeEof, kind, client, Echoes, Gone
  <2>2. AnyTypes' /\ (~split' => Ends')
    BY <2>1 DEF IInv, WhileWhole, AnyTypes, Ends
  <2>3. EchoStream' /\ InFlight' /\ Echoing' /\ Answered'
    BY <2>1 DEF EchoStream, InFlight, Echoing, Answered, Gone
  <2>. QED  BY <2>2, <2>3 DEF IInv, WhileWhole
<1>5. CASE EndOfInput
  BY <1>5, EndOfInputStep
<1>6. ASSUME NEW l \in Lines, Type(l) PROVE IInv'
  BY <1>6, TypeStep
<1>7. CASE UNCHANGED pair
  <2>1. /\ UNCHANGED <<prog, split, sbuf, up, down, srv>>
        /\ UNCHANGED <<clnt, eof, cbuf, line, shown, owed, reset, sends>>
        /\ (Echoes' <=> Echoes) /\ (Gone' <=> Gone)
    BY <1>7 DEF pair, kind, client, Echoes, Gone
  <2>2. AnyTypes' /\ EchoStream'
    BY <2>1 DEF IInv, AnyTypes, EchoStream
  <2>3. WhileWhole'
    BY <2>1 DEF IInv, WhileWhole, Ends, InFlight, Echoing, Answered
  <2>. QED  BY <2>2, <2>3 DEF IInv
<1>. QED  BY <1>1, <1>2, <1>3, <1>4, <1>5, <1>6, <1>7 DEF PairNext, PairClient, Server

\* It holds for ever.
LEMMA Invariant == PairSpec => []IInv
<1>1. PairInit => IInv
  BY InitInv
<1>2. IInv /\ [PairNext]_pair => IInv'
  BY NextStep
<1>. QED  BY <1>1, <1>2, PTL DEF PairSpec
-----------------------------------------------------------------------------
(* The theorems.                                                           *)

\* Every variable has its type for ever, whatever is typed and however the
\* stream is cut. And while writes travel whole, every buffer that is used as a
\* string has its end inside.
THEOREM TypeCorrect == PairSpec => []PairTypeOK
<1>1. IInv => PairTypeOK
  <2>. SUFFICES ASSUME IInv PROVE PairTypeOK
    OBVIOUS
  <2>1. AnyTypes /\ (~split => Ends)
    BY DEF IInv, WhileWhole
  <2>2. cbuf \in Buffers /\ sbuf \in Buffers
    BY <2>1 DEF AnyTypes
  <2>3. ~split => Len(CString(cbuf)) < Size /\ (~Echoes => Len(CString(sbuf)) < Size)
    BY <2>1, <2>2, StringIs DEF Ends
  <2>4. {cbuf, sbuf} \subseteq [1 .. Size -> Chars \cup {NUL}]
    BY <2>2 DEF Buffers
  <2>. QED  BY <2>1, <2>3, <2>4 DEF PairTypeOK, AnyTypes, Text
<1>. QED  BY <1>1, Invariant, PTL

\* No byte of the echo is lost, repeated or out of its place, however the stream
\* is cut; and while writes travel whole, what the user is shown is the answer to
\* the line just sent, and an echo client is never left without its server.
THEOREM NoMixUp == PairSpec => []NoneMixedUp
<1>1. IInv => NoneMixedUp
  <2>. SUFFICES ASSUME IInv PROVE NoneMixedUp
    OBVIOUS
  <2>1. AnyTypes /\ EchoStream /\ (~split => InFlight /\ Echoing /\ Answered)
    BY DEF IInv, WhileWhole
  <2>2. ASSUME ~split, clnt = "prompt", sends > 0
        PROVE  /\ Echoes => srv = "reading"
               /\ srv = "reading" =>
                    /\ up = <<>> /\ down = <<>>
                    /\ shown \in CASE Echoes -> {line}
                                   [] prog = "reverse" -> {Reversed(line)}
                                   [] prog = "calc" -> Results
    <3>1. Echoes => srv = "reading"
      BY <2>1, <2>2 DEF Echoing
    <3>2. ASSUME srv = "reading" PROVE up = <<>> /\ down = <<>> /\ shown \in AnswersTo(prog, line)
      BY <2>1, <2>2, <3>2 DEF InFlight, Answered, Gone
    <3>3. prog \in {"echo", "unix", "calc", "reverse"}
      BY <2>1, LockStepAssumption DEF AnyTypes
    <3>4. AnswersTo(prog, line) = CASE Echoes -> {line}
                                    [] prog = "reverse" -> {Reversed(line)}
                                    [] prog = "calc" -> Results
      BY DEF AnswersTo, Echoes
    <3>. QED  BY <3>1, <3>2, <3>4
  <2>3. OwnAnswer
    BY <2>2 DEF OwnAnswer
  <2>. QED  BY <2>1, <2>3 DEF NoneMixedUp
<1>. QED  BY <1>1, Invariant, PTL

==============================================================================
