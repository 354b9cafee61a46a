--------------------------- MODULE EventLogProofs ---------------------------
(***************************************************************************)
(* What holds of a log of any length that is written once.  The inductive  *)
(* invariant gives every piece of the file by its index: the JSON of event *)
(* k, or a cut one at the very end, and a newline (IsLog); how far the     *)
(* writer is (WriterOK); and that what is safe is on disk (SafeOK).  What  *)
(* load_events reads of such a file is then counted.                       *)
(***************************************************************************)
EXTENDS EventLog, FiniteSetTheorems, SequenceTheorems, WellFoundedInduction, TLAPS

Pieces == UNION {{Whole(n), Cut(n), Newline} : n \in Nat}

TypeOK ==
  /\ file \in Seq(Pieces)
  /\ onDisk \in 0..Len(file)
  /\ writer \in {"closed", "open", "writing"}
  /\ next \in Nat /\ start \in Nat /\ safe \in Nat

(* The line of event k, as far as it is there; only the last is not whole. *)
LineOK(s, k) ==
  /\ 2 * k + 1 < Len(s) => s[2 * k + 1] = Whole(k)
  /\ 2 * k + 1 = Len(s) => s[2 * k + 1] \in {Whole(k), Cut(k)}
  /\ 2 * k + 2 <= Len(s) => s[2 * k + 2] = Newline

IsLog(s) == \A k \in Nat : LineOK(s, k)

WriterOK ==
  /\ writer = "open" => Len(file) = 2 * next
  /\ writer = "writing" => start = 2 * next /\ Len(file) \in start..start + 2

SafeOK == 2 * safe <= onDisk

Inv == TypeOK /\ IsLog(file) /\ WriterOK /\ SafeOK

-----------------------------------------------------------------------------
LEMMA PieceFacts ==
  /\ \A n \in Nat : Whole(n) \in Pieces /\ Cut(n) \in Pieces /\ Newline \in Pieces
  /\ \A n : Whole(n) # Newline /\ Cut(n) # Newline
  /\ \A n : Whole(n).kind = "whole" /\ Cut(n).kind # "whole" /\ Newline.kind # "whole"
  /\ \A n : Whole(n).seq = n /\ Cut(n).seq = n
<1>1. \A n \in Nat : Whole(n) \in Pieces /\ Cut(n) \in Pieces /\ Newline \in Pieces
  BY DEF Pieces
<1>2. \A n : Whole(n).kind = "whole" /\ Cut(n).kind = "cut" /\ Newline.kind = "newline"
             /\ Whole(n).seq = n /\ Cut(n).seq = n
  BY DEF Whole, Cut, Newline
<1> QED BY <1>1, <1>2

LEMMA Halves ==
  ASSUME NEW i \in Nat
  PROVE  \E k \in Nat : i = 2 * k \/ i = 2 * k + 1
<1> DEFINE k == i \div 2
<1>1. k \in Nat /\ (i = 2 * k \/ i = 2 * k + 1)
  OBVIOUS
<1> QED BY <1>1

LEMMA Prefix ==
  ASSUME NEW S, NEW s \in Seq(S), NEW n \in 0..Len(s)
  PROVE  /\ SubSeq(s, 1, n) \in Seq(S) /\ Len(SubSeq(s, 1, n)) = n
         /\ \A i \in 1..n : SubSeq(s, 1, n)[i] = s[i]
<1>1. \A i \in 1..n : s[i] \in S
  OBVIOUS
<1> QED BY <1>1, SubSeqProperties

LEMMA Suffix ==
  ASSUME NEW S, NEW s \in Seq(S), NEW n \in 0..Len(s)
  PROVE  Len(SubSeq(s, n + 1, Len(s))) = Len(s) - n
<1>1. \A i \in n + 1..Len(s) : s[i] \in S
  OBVIOUS
<1>2. n + 1 \in Int /\ Len(s) \in Int
  OBVIOUS
<1>3. Len(SubSeq(s, n + 1, Len(s))) = IF n + 1 <= Len(s) THEN Len(s) - (n + 1) + 1 ELSE 0
  BY <1>1, <1>2, SubSeqProperties
<1> QED BY <1>3

(* What is kept of a log from its beginning, of whole pieces, is one.      *)
LEMMA KeptIsLog ==
  ASSUME NEW s, NEW t, IsLog(s), Len(s) \in Nat, Len(t) \in Nat, Len(t) <= Len(s),
         \A i \in 1..Len(t) : t[i] = s[i]
  PROVE  IsLog(t)
<1> SUFFICES ASSUME NEW k \in Nat PROVE LineOK(t, k)
  BY DEF IsLog
<1>1. LineOK(s, k)
  BY DEF IsLog
<1>2. /\ 2 * k + 1 \in Nat /\ 2 * k + 2 \in Nat
      /\ 2 * k + 1 <= Len(t) => t[2 * k + 1] = s[2 * k + 1]
      /\ 2 * k + 2 <= Len(t) => t[2 * k + 2] = s[2 * k + 2]
  OBVIOUS
<1> QED BY <1>1, <1>2 DEF LineOK

(* So is a log of n lines with the JSON, cut or whole, or line n put after *)
(* them, whatever came after them before.                                  *)
LEMMA ExtendedIsLog ==
  ASSUME NEW s \in Seq(Pieces), IsLog(s), NEW n \in Nat, 2 * n <= Len(s),
         NEW tail \in {<<Cut(n)>>, <<Whole(n)>>, <<Whole(n), Newline>>}
  PROVE  LET t == SubSeq(s, 1, 2 * n) \o tail
         IN t \in Seq(Pieces) /\ Len(t) = 2 * n + Len(tail) /\ IsLog(t)
<1> DEFINE kept == SubSeq(s, 1, 2 * n)
           t == kept \o tail
<1>1. /\ kept \in Seq(Pieces) /\ Len(kept) = 2 * n
      /\ \A i \in 1..2 * n : kept[i] = s[i]
  <2>1. 2 * n \in 0..Len(s)
    OBVIOUS
  <2> QED BY <2>1, Prefix
<1> HIDE DEF kept
<1>2. /\ tail \in Seq(Pieces) /\ Len(tail) \in {1, 2}
      /\ Len(tail) = 1 => tail[1] \in {Whole(n), Cut(n)}
      /\ Len(tail) = 2 => tail[1] = Whole(n) /\ tail[2] = Newline
  <2>1. Whole(n) \in Pieces /\ Cut(n) \in Pieces /\ Newline \in Pieces
    BY PieceFacts
  <2>2. CASE tail = <<Cut(n)>>
    BY <2>1, <2>2
  <2>3. CASE tail = <<Whole(n)>>
    BY <2>1, <2>3
  <2>4. CASE tail = <<Whole(n), Newline>>
    BY <2>1, <2>4
  <2> QED BY <2>2, <2>3, <2>4
<1>3. /\ t \in Seq(Pieces) /\ Len(t) = 2 * n + Len(tail)
      /\ \A i \in 1..2 * n : t[i] = kept[i]
      /\ t[2 * n + 1] = tail[1]
      /\ Len(tail) = 2 => t[2 * n + 2] = tail[2]
  <2>1. /\ t \in Seq(Pieces) /\ Len(t) = Len(kept) + Len(tail)
        /\ \A i \in 1..Len(kept) + Len(tail) :
             t[i] = IF i <= Len(kept) THEN kept[i] ELSE tail[i - Len(kept)]
    BY <1>1, <1>2, ConcatProperties, ZenonT(30)
  <2> HIDE DEF t
  <2>2. Len(t) = 2 * n + Len(tail)
    BY <1>1, <2>1
  <2>3. ASSUME NEW i \in 1..2 * n PROVE t[i] = kept[i]
    <3>1. i \in 1..Len(kept) + Len(tail) /\ i <= Len(kept)
      BY <1>1, <1>2
    <3> QED BY <2>1, <3>1
  <2>4. /\ t[2 * n + 1] = tail[1]
        /\ Len(tail) = 2 => t[2 * n + 2] = tail[2]
    <3>1. /\ 2 * n + 1 \in 1..2 * n + Len(tail) /\ 2 * n + 1 - 2 * n = 1
          /\ ~(2 * n + 1 <= 2 * n)
          /\ Len(tail) = 2 => 2 * n + 2 \in 1..2 * n + Len(tail)
          /\ 2 * n + 2 - 2 * n = 2 /\ ~(2 * n + 2 <= 2 * n)
      BY <1>2
    <3> QED BY <1>1, <2>1, <3>1
  <2> QED BY <2>1, <2>2, <2>3, <2>4
<1> HIDE DEF t
<1>4. ASSUME NEW k \in Nat PROVE LineOK(t, k)
  <2>1. LineOK(s, k) /\ Len(s) \in Nat
    BY DEF IsLog
  <2>2. CASE k < n
    <3>1. 2 * k + 1 \in 1..2 * n /\ 2 * k + 2 \in 1..2 * n
      BY <2>2
    <3>2. t[2 * k + 1] = s[2 * k + 1] /\ t[2 * k + 2] = s[2 * k + 2]
      BY <1>1, <1>3, <3>1
    <3>3. 2 * k + 1 < Len(s) /\ 2 * k + 2 <= Len(s) /\ 2 * k + 1 < Len(t)
      BY <1>2, <1>3, <2>1, <2>2
    <3> QED BY <2>1, <3>2, <3>3 DEF LineOK
  <2>3. CASE k = n
    <3>1. CASE Len(tail) = 1
      BY <1>2, <1>3, <2>3, <3>1 DEF LineOK
    <3>2. CASE Len(tail) = 2
      BY <1>2, <1>3, <2>3, <3>2 DEF LineOK
    <3> QED BY <1>2, <3>1, <3>2
  <2>4. CASE k > n
    <3>1. 2 * k + 1 > Len(t)
      <4>1. Len(t) = 2 * n + 1 \/ Len(t) = 2 * n + 2
        BY <1>2, <1>3
      <4> QED BY <2>4, <4>1
    <3>2. Len(t) \in Nat
      BY <1>3
    <3> QED BY <3>1, <3>2 DEF LineOK
  <2> QED BY <2>2, <2>3, <2>4
<1> QED BY <1>3, <1>4 DEF IsLog, t, kept

-----------------------------------------------------------------------------
LEMMA InitInv == Init => Inv
<1> SUFFICES ASSUME Init PROVE Inv
  OBVIOUS
<1>1. file = <<>> /\ Len(file) = 0
  BY DEF Init
<1>2. IsLog(file)
  BY <1>1 DEF IsLog, LineOK
<1> QED BY <1>1, <1>2 DEF Init, Inv, TypeOK, WriterOK, SafeOK

LEMMA OpenInv ==
  ASSUME Inv, ~Reopens, Open
  PROVE  Inv'
<1>1. file = <<>> /\ Len(file) = 0
  BY DEF Open
<1>2. Readable = {}
  BY <1>1 DEF Readable, Lines
<1>3. next' = 0 /\ writer' = "open" /\ UNCHANGED <<file, onDisk, start, safe>>
  BY <1>2 DEF Open
<1> QED BY <1>1, <1>3 DEF Inv, TypeOK, WriterOK, SafeOK

LEMMA WrittenLength ==
  ASSUME Inv, writer = "writing"
  PROVE  /\ next \in Nat /\ start = 2 * next /\ Len(file) \in start..start + 2
         /\ Len(Written) = Len(file) - start
<1>1. next \in Nat /\ start = 2 * next /\ Len(file) \in start..start + 2 /\ file \in Seq(Pieces)
  BY DEF Inv, WriterOK, TypeOK
<1>2. start \in 0..Len(file)
  BY <1>1
<1> QED BY <1>1, <1>2, Suffix DEF Written

LEMMA WriteInv ==
  ASSUME Inv, Write
  PROVE  Inv'
<1>1. PICK from, to \in 1..4 :
        /\ from < to /\ Written = Stages[from]
        /\ file' = SubSeq(file, 1, start) \o Stages[to]
  BY DEF Write, Stages
<1>2. /\ UNCHANGED <<onDisk, writer, next, start, safe>> /\ writer = "writing"
      /\ start = 2 * next /\ Len(file) \in start..start + 2 /\ next \in Nat
      /\ Len(Written) = Len(file) - start
  BY WrittenLength DEF Write
<1> DEFINE tail == Stages[to]
<1>3. /\ tail \in {<<Cut(next)>>, <<Whole(next)>>, <<Whole(next), Newline>>}
      /\ Len(tail) \in {1, 2} /\ Len(Stages[from]) <= Len(tail)
  BY <1>1, SMTT(30) DEF Stages
<1> HIDE DEF tail
<1>4. file \in Seq(Pieces) /\ IsLog(file) /\ 2 * next <= Len(file)
  BY <1>2 DEF Inv, TypeOK
<1>5. file' \in Seq(Pieces) /\ Len(file') = 2 * next + Len(tail) /\ IsLog(file')
  <2>1. file' = SubSeq(file, 1, 2 * next) \o tail
    BY <1>1, <1>2 DEF tail
  <2> QED BY <1>2, <1>3, <1>4, <2>1, ExtendedIsLog
<1>6. Len(file) <= Len(file')
  <2>1. Len(file) - 2 * next <= Len(tail)
    BY <1>1, <1>2, <1>3
  <2> QED BY <1>2, <1>3, <1>5, <2>1
<1>7. Len(file') \in start..start + 2
  <2>1. Len(file') = 2 * next + 1 \/ Len(file') = 2 * next + 2
    BY <1>3, <1>5
  <2> QED BY <1>2, <2>1
<1>8. onDisk \in 0..Len(file')
  BY <1>2, <1>6, <1>7 DEF Inv, TypeOK
<1> QED BY <1>2, <1>5, <1>7, <1>8 DEF Inv, TypeOK, WriterOK, SafeOK

LEMMA FlushedLength ==
  ASSUME Inv, Flushed
  PROVE  Len(file) = 2 * next + 2
<1>1. Len(Written) = 2
  BY DEF Flushed, Stages
<1>2. next \in Nat /\ start = 2 * next /\ Len(file) \in Nat /\ Len(Written) = Len(file) - start
  BY WrittenLength DEF Flushed, Inv, TypeOK
<1>3. Len(file) - 2 * next = 2
  BY <1>1, <1>2
<1> QED BY <1>2, <1>3

(* The steps of the writer that leave the file as it is.                   *)
LEMMA WriterInv ==
  ASSUME Inv, Begin \/ Sync \/ Return \/ Kill
  PROVE  Inv'
<1>1. file' = file /\ IsLog(file')
  BY DEF Begin, Sync, Return, Kill, Inv
<1>2. CASE Begin
  BY <1>1, <1>2 DEF Begin, Inv, TypeOK, WriterOK, SafeOK
<1>3. CASE Sync
  BY <1>1, <1>3, FlushedLength DEF Sync, Flushed, Inv, TypeOK, WriterOK, SafeOK
<1>4. CASE Return
  BY <1>1, <1>4, FlushedLength DEF Return, Flushed, Inv, TypeOK, WriterOK, SafeOK
<1>5. CASE Kill
  BY <1>1, <1>5 DEF Kill, Inv, TypeOK, WriterOK, SafeOK
<1> QED BY <1>2, <1>3, <1>4, <1>5

LEMMA PowerLossInv ==
  ASSUME Inv, PowerLoss
  PROVE  Inv'
<1>1. PICK kept \in onDisk..Len(file) :
        file' = SubSeq(file, 1, kept) \o
                (IF kept < Len(file) /\ file[kept + 1].kind = "whole"
                 THEN <<Cut(file[kept + 1].seq)>> ELSE <<>>)
  BY DEF PowerLoss
<1>2. /\ kept \in 0..Len(file) /\ Len(file) \in Nat /\ onDisk \in Nat /\ onDisk <= kept
      /\ kept \in Nat /\ file \in Seq(Pieces) /\ IsLog(file)
  BY DEF Inv, TypeOK
<1> DEFINE part == SubSeq(file, 1, kept)
<1>3. /\ part \in Seq(Pieces) /\ Len(part) = kept
      /\ \A i \in 1..kept : part[i] = file[i]
  BY <1>2, Prefix
<1> HIDE DEF part
<1>4. file' \in Seq(Pieces) /\ IsLog(file') /\ kept <= Len(file')
  <2>1. CASE kept < Len(file) /\ file[kept + 1].kind = "whole"
    <3>1. PICK n \in Nat : kept = 2 * n \/ kept = 2 * n + 1
      BY <1>2, Halves
    <3>2. LineOK(file, n)
      BY <1>2 DEF IsLog
    <3>3. kept = 2 * n
      BY <1>2, <2>1, <3>1, <3>2, PieceFacts DEF LineOK
    <3>4. file[kept + 1] = Whole(n)
      <4>1. file[kept + 1] \in {Whole(n), Cut(n)}
        BY <1>2, <2>1, <3>2, <3>3 DEF LineOK
      <4> QED BY <2>1, <4>1, PieceFacts
    <3>5. file' = SubSeq(file, 1, 2 * n) \o <<Cut(n)>>
      <4>1. file[kept + 1].seq = n
        BY <3>4, PieceFacts
      <4> QED BY <1>1, <2>1, <3>3, <4>1
    <3>6. file' \in Seq(Pieces) /\ Len(file') = 2 * n + Len(<<Cut(n)>>) /\ IsLog(file')
      <4>1. 2 * n <= Len(file)
        BY <1>2, <3>3
      <4> QED BY <1>2, <3>5, <4>1, ExtendedIsLog
    <3> QED BY <1>2, <3>3, <3>6
  <2>2. CASE ~(kept < Len(file) /\ file[kept + 1].kind = "whole")
    <3>1. file' = part
      BY <1>1, <1>3, <2>2, ConcatEmptySeq DEF part
    <3>2. IsLog(file')
      BY <1>2, <1>3, <3>1, KeptIsLog
    <3> QED BY <1>2, <1>3, <3>1, <3>2
  <2> QED BY <2>1, <2>2
<1> QED BY <1>2, <1>4 DEF PowerLoss, Inv, TypeOK, WriterOK, SafeOK

LEMMA NextInv == ~Reopens /\ Inv /\ [Next]_vars => Inv'
<1> SUFFICES ASSUME ~Reopens, Inv, [Next]_vars PROVE Inv'
  OBVIOUS
<1>1. CASE UNCHANGED vars
  BY <1>1 DEF vars, Inv, TypeOK, WriterOK, SafeOK
<1>2. CASE Next
  BY <1>2, OpenInv, WriteInv, WriterInv, PowerLossInv DEF Next
<1> QED BY <1>1, <1>2

LEMMA InvHolds == ~Reopens => (Spec => []Inv)
<1> SUFFICES ASSUME ~Reopens PROVE Spec => []Inv
  OBVIOUS
<1>1. Inv /\ [Next]_vars => Inv'
  BY NextInv
<1> QED BY <1>1, InitInv, PTL DEF Spec

-----------------------------------------------------------------------------
(* Induction: there is no least number outside of a set that has 0 and,    *)
(* with a number, the one after it.                                        *)
LEMMA Least ==
  ASSUME NEW T \in SUBSET Nat, T # {}
  PROVE  \E x \in T : \A y \in T : x <= y
<1>1. PICK x \in T : \A y \in T : ~(<<y, x>> \in OpToRel(<, Nat))
  BY NatLessThanWellFounded, WFMin
<1>2. ASSUME NEW y \in T, ~(x <= y) PROVE FALSE
  <2>1. y < x /\ y \in Nat /\ x \in Nat
    BY <1>2
  <2>2. <<y, x>> \in OpToRel(<, Nat)
    BY <2>1 DEF OpToRel
  <2> QED BY <1>1, <2>2
<1> QED BY <1>2

LEMMA SetInduction ==
  ASSUME NEW S, 0 \in S, \A n \in Nat : n \in S => n + 1 \in S
  PROVE  \A n \in Nat : n \in S
<1> SUFFICES ASSUME NEW n \in Nat, n \notin S PROVE FALSE
  OBVIOUS
<1> DEFINE T == {k \in Nat : k \notin S}
<1>1. PICK x \in T : \A y \in T : x <= y
  BY Least
<1>2. x \in Nat /\ x # 0 /\ x \notin S
  BY <1>1
<1>3. x - 1 \in Nat /\ x - 1 \notin T
  BY <1>1, <1>2
<1> QED BY <1>2, <1>3

(* The lines of the first n events begin at the first n odd numbers.       *)
Odds(n) == {2 * k + 1 : k \in 0..n - 1}

LEMMA OddsCount == \A n \in Nat : IsFiniteSet(Odds(n)) /\ Cardinality(Odds(n)) = n
<1> DEFINE S == {n \in Nat : IsFiniteSet(Odds(n)) /\ Cardinality(Odds(n)) = n}
<1>1. 0 \in S
  <2>1. Odds(0) = {}
    BY DEF Odds
  <2> QED BY <2>1, FS_EmptySet
<1>2. ASSUME NEW n \in Nat, n \in S PROVE n + 1 \in S
  <2>1. Odds(n + 1) = Odds(n) \union {2 * n + 1}
    <3>1. 0..n + 1 - 1 = 0..n - 1 \union {n}
      OBVIOUS
    <3> QED BY <3>1 DEF Odds
  <2>2. 2 * n + 1 \notin Odds(n)
    BY DEF Odds
  <2> QED BY <1>2, <2>1, <2>2, FS_AddElement
<1> HIDE DEF S
<1>3. \A n \in Nat : n \in S
  BY <1>1, <1>2, SetInduction
<1> QED BY <1>3 DEF S

-----------------------------------------------------------------------------
(* What load_events finds where a line should be.                          *)
LEMMA LineFacts ==
  ASSUME Inv, NEW k \in Nat, 2 * k + 1 <= Len(file)
  PROVE  /\ 2 * k + 1 \in Lines
         /\ file[2 * k + 1] \in {Whole(k), Cut(k)}
         /\ 2 * k + 1 < Len(file) => file[2 * k + 1] = Whole(k)
         /\ Parses(2 * k + 1) <=> file[2 * k + 1] = Whole(k)
         /\ 2 * k + 1 \in Readable <=> file[2 * k + 1] = Whole(k)
<1> DEFINE i == 2 * k + 1
<1>1. Len(file) \in Nat /\ i \in 1..Len(file) /\ IsLog(file) /\ LineOK(file, k)
  BY DEF Inv, TypeOK, IsLog
<1>2. /\ file[i] \in {Whole(k), Cut(k)}
      /\ i < Len(file) => file[i] = Whole(k) /\ file[i + 1] = Newline
  <2>1. 2 * k + 2 = i + 1 /\ (i < Len(file) => i + 1 <= Len(file))
    BY <1>1
  <2> QED BY <1>1, <2>1 DEF LineOK
<1>3. i \notin Ends
  BY <1>2, PieceFacts DEF Ends
<1>4. i = 1 \/ i - 1 \in Ends
  <2>1. CASE k = 0
    BY <2>1
  <2>2. CASE k # 0
    <3>1. k - 1 \in Nat /\ 2 * (k - 1) + 2 = i - 1 /\ i - 1 \in 1..Len(file)
      BY <1>1, <2>2
    <3>2. LineOK(file, k - 1)
      BY <1>1, <3>1 DEF IsLog
    <3> QED BY <3>1, <3>2 DEF LineOK, Ends
  <2> QED BY <2>1, <2>2
<1>5. i \in Lines
  BY <1>1, <1>3, <1>4 DEF Lines
<1>6. Parses(i) <=> file[i] = Whole(k)
  <2>1. i = Len(file) \/ i + 1 \in Ends
    BY <1>1, <1>2 DEF Ends
  <2> QED BY <1>2, <2>1, PieceFacts DEF Parses
<1>7. Interrupted(i) <=> file[i] # Whole(k)
  <2>1. file[i] # Whole(k) => i = Len(file)
    BY <1>1, <1>2
  <2>2. i = Len(file) => i..Len(file) \intersect Ends = {}
    BY <1>1, <1>3
  <2> QED BY <1>6, <2>1, <2>2 DEF Interrupted
<1> QED BY <1>2, <1>5, <1>6, <1>7 DEF Readable

LEMMA LinesAreOdd ==
  ASSUME Inv, NEW i \in Lines
  PROVE  \E k \in Nat : i = 2 * k + 1 /\ 2 * k + 1 <= Len(file)
<1>1. i \in 1..Len(file) /\ i \notin Ends /\ Len(file) \in Nat /\ i \in Nat /\ IsLog(file)
  BY DEF Lines, Inv, TypeOK
<1>2. PICK k \in Nat : i = 2 * k \/ i = 2 * k + 1
  BY <1>1, Halves
<1>3. ASSUME i = 2 * k PROVE FALSE
  <2>1. k - 1 \in Nat /\ 2 * (k - 1) + 2 = i
    BY <1>1, <1>3
  <2>2. LineOK(file, k - 1)
    BY <1>1, <2>1 DEF IsLog
  <2>3. i \in Ends
    BY <1>1, <2>1, <2>2 DEF LineOK, Ends
  <2> QED BY <1>1, <2>3
<1>4. i = 2 * k + 1
  BY <1>2, <1>3
<1>5. 2 * k + 1 <= Len(file)
  BY <1>1, <1>4
<1> QED BY <1>4, <1>5

(* The lines that are read are the first ones, all but a cut last line.    *)
LEMMA WhatIsRead ==
  ASSUME Inv
  PROVE  \E n \in Nat : /\ Readable = Odds(n)
                        /\ 2 * n - 1 <= Len(file) /\ Len(file) <= 2 * n + 1
                        /\ \A k \in 0..n - 1 : file[2 * k + 1] = Whole(k)
<1>1. Len(file) \in Nat
  BY DEF Inv, TypeOK
<1>2. PICK m \in Nat : Len(file) = 2 * m \/ Len(file) = 2 * m + 1
  BY <1>1, Halves
<1> DEFINE n == IF Len(file) = 2 * m + 1 /\ file[2 * m + 1] = Whole(m) THEN m + 1 ELSE m
<1>3. /\ n \in Nat /\ 2 * n - 1 <= Len(file) /\ Len(file) <= 2 * n + 1
      /\ \A k \in Nat : k < n => 2 * k + 1 <= Len(file)
      /\ \A k \in Nat : k < n => 2 * k + 1 < Len(file) \/ (k = m /\ file[2 * m + 1] = Whole(m))
      /\ \A k \in Nat : k >= n /\ 2 * k + 1 <= Len(file) => k = m /\ file[2 * m + 1] # Whole(m)
  BY <1>1, <1>2
<1> HIDE DEF n
<1>4. ASSUME NEW k \in Nat, k < n PROVE file[2 * k + 1] = Whole(k) /\ 2 * k + 1 \in Readable
  BY <1>3, <1>4, LineFacts
<1>5. ASSUME NEW i \in Readable PROVE i \in Odds(n)
  <2>1. PICK k \in Nat : i = 2 * k + 1 /\ 2 * k + 1 <= Len(file)
    BY LinesAreOdd DEF Readable
  <2>2. file[2 * k + 1] = Whole(k)
    BY <2>1, LineFacts
  <2>3. k < n
    BY <1>3, <2>1, <2>2
  <2> QED BY <1>3, <2>1, <2>3 DEF Odds
<1>6. ASSUME NEW j \in Odds(n) PROVE j \in Readable
  <2>1. PICK k \in 0..n - 1 : j = 2 * k + 1
    BY DEF Odds
  <2>2. k \in Nat /\ k < n
    BY <1>3
  <2>3. 2 * k + 1 \in Readable
    BY <1>4, <2>2
  <2> QED BY <2>1, <2>3
<1>7. \A k \in 0..n - 1 : file[2 * k + 1] = Whole(k)
  BY <1>3, <1>4
<1>8. Readable = Odds(n)
  BY <1>5, <1>6
<1> QED BY <1>3, <1>7, <1>8

LEMMA LoadsWell ==
  ASSUME Inv
  PROVE  /\ ~LoadFails /\ Loaded \in Nat
         /\ 2 * Loaded - 1 <= Len(file) /\ Len(file) <= 2 * Loaded + 1
<1>1. PICK n \in Nat : /\ Readable = Odds(n)
                       /\ 2 * n - 1 <= Len(file) /\ Len(file) <= 2 * n + 1
                       /\ \A k \in 0..n - 1 : file[2 * k + 1] = Whole(k)
  BY WhatIsRead
<1>2. Loaded = n
  BY <1>1, OddsCount DEF Loaded
<1>3. ASSUME NEW i \in Readable PROVE Parses(i) /\ file[i].seq = Cardinality(Before(i))
  <2>1. PICK k \in 0..n - 1 : i = 2 * k + 1
    BY <1>1 DEF Odds
  <2>2. file[i] = Whole(k) /\ k \in Nat
    BY <1>1, <2>1
  <2>3. 2 * k + 1 <= Len(file)
    BY <2>1, <2>2, LinesAreOdd DEF Readable
  <2>4. Parses(i)
    BY <2>1, <2>2, <2>3, LineFacts
  <2>5. Before(i) = Odds(k)
    BY <1>1, <2>1 DEF Before, Odds
  <2> QED BY <2>2, <2>4, <2>5, OddsCount, PieceFacts
<1> QED BY <1>1, <1>2, <1>3 DEF LoadFails

-----------------------------------------------------------------------------
(* A log written once loads with every synchronized event, whenever and    *)
(* however the machine stops.                                              *)
THEOREM NothingSyncedIsLostHolds == ~Reopens => (Spec => []NothingSyncedIsLost)
<1> SUFFICES ASSUME ~Reopens PROVE Spec => []NothingSyncedIsLost
  OBVIOUS
<1>1. Inv => NothingSyncedIsLost
  <2> SUFFICES ASSUME Inv PROVE NothingSyncedIsLost
    OBVIOUS
  <2>1. 2 * safe <= Len(file) /\ safe \in Nat /\ Len(file) \in Nat
    BY DEF Inv, TypeOK, SafeOK
  <2> QED BY <2>1, LoadsWell DEF NothingSyncedIsLost
<1> QED BY <1>1, InvHolds, PTL

(* Whoever loads the log meanwhile reads all that append has returned for, *)
(* and at most the event being appended besides.                           *)
THEOREM ReadersKeepUpHolds == ~Reopens => (Spec => []ReadersKeepUp)
<1> SUFFICES ASSUME ~Reopens PROVE Spec => []ReadersKeepUp
  OBVIOUS
<1>1. Inv => ReadersKeepUp
  <2> SUFFICES ASSUME Inv, writer # "closed" PROVE ~LoadFails /\ Loaded \in {next, next + 1}
    BY DEF ReadersKeepUp
  <2>1. next \in Nat /\ (\/ Len(file) = 2 * next \/ Len(file) = 2 * next + 1
                         \/ Len(file) = 2 * next + 2 /\ writer = "writing")
    BY DEF Inv, TypeOK, WriterOK
  <2> QED BY <2>1, LoadsWell
<1> QED BY <1>1, InvHolds, PTL
=============================================================================
