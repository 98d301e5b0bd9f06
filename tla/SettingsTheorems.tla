-------------------------- MODULE SettingsTheorems --------------------------
(***************************************************************************)
(* Proofs about Settings, for any settings, texts, forms and wizards: how  *)
(* the lines of .env lie, and what each operation makes of it.             *)
(***************************************************************************)
EXTENDS Settings, FiniteSetTheorems, SequenceTheorems, TLAPS

-----------------------------------------------------------------------------
(* Sets and sequences *)

\* Of a set of positions one is the last.
LEMMA Greatest ==
  ASSUME NEW n \in Nat, NEW S \in SUBSET (1 .. n), S # {}
  PROVE  \E i \in S : \A j \in S : j <= i
<1> DEFINE Gaps == {m \in Nat : \E i \in S : m = n - i}
<1>1. Gaps # {} /\ Gaps \subseteq Nat
  <2>1. PICK i \in S : TRUE
    OBVIOUS
  <2>2. n - i \in Gaps
    BY <2>1
  <2> QED
    BY <2>2
<1>2. PICK m \in Gaps : \A l \in Gaps : <<l, m>> \notin OpToRel(<, Nat)
  <2> HIDE DEF Gaps
  <2> QED
    BY <1>1, WFMin, NatLessThanWellFounded, Zenon
<1>3. \A l \in Gaps : ~(l < m)
  <2> HIDE DEF Gaps
  <2> QED
    BY <1>1, <1>2, Zenon DEF OpToRel
<1>4. PICK i \in S : m = n - i
  OBVIOUS
<1>5. ASSUME NEW j \in S PROVE j <= i
  <2>1. n - j \in Gaps
    BY <1>5
  <2>2. ~(n - j < n - i)
    BY <1>3, <1>4, <2>1
  <2> QED
    BY <2>2
<1> QED
  BY <1>5

\* The sequence made of a finite set holds its elements and nothing else.
LEMMA SequenceOfSet ==
  ASSUME NEW S, IsFiniteSet(S)
  PROVE  /\ SetToSeq(S) \in Seq(S)
         /\ \A x \in S : \E i \in DOMAIN SetToSeq(S) : SetToSeq(S)[i] = x
<1> DEFINE n == Cardinality(S)
<1>1. n \in Nat /\ ExistsBijection(1 .. n, S)
  BY FS_CardinalityType
<1>2. \E f \in [1 .. n -> S] : IsInjective(f)
  BY <1>1 DEF ExistsBijection, Bijection, Injection
<1>3. SetToSeq(S) \in [1 .. n -> S] /\ IsInjective(SetToSeq(S))
  BY <1>2, Zenon DEF SetToSeq
<1>4. SetToSeq(S) \in Seq(S)
  BY <1>1, <1>3
<1>5. SetToSeq(S) \in Injection(1 .. n, S)
  BY <1>3 DEF Injection
<1>6. Cardinality(1 .. n) = n
  BY <1>1, FS_Interval
<1>7. SetToSeq(S) \in Surjection(1 .. n, S)
  BY <1>5, <1>6, FS_Injection
<1> QED
  BY <1>3, <1>4, <1>7 DEF Surjection

\* A line for each of some settings: finitely many.
LEMMA FiniteLines ==
  ASSUME NEW K \in SUBSET Key, NEW line \in [K -> Line]
  PROVE  IsFiniteSet({line[k] : k \in K})
<1>1. IsFiniteSet(K)
  BY KeyAssumption, FS_Subset
<1>2. line \in Surjection(K, {line[k] : k \in K})
  BY DEF Surjection
<1> QED
  BY <1>1, <1>2, FS_Surjection

-----------------------------------------------------------------------------
(* How the lines lie in the file *)

\* The console's own lines say what it was last asked to save, and come after
\* the wizard's, whose numbers are numbers.
OwnLinesSayAsked == \A i \in DOMAIN file : ~file[i].capital => file[i].text = asked[file[i].key]

OwnLinesLast == \A i, j \in DOMAIN file : ~file[i].capital /\ file[j].capital => j < i

CapitalNumbers ==
  \A i \in DOMAIN file : file[i].capital /\ file[i].key \in Numeric => file[i].text \in Number

AskedHasLine == \A k \in Key : asked[k] # Nothing => Own(k) # {}

LinesInv ==
  /\ OwnLinesSayAsked /\ OwnLinesLast /\ CapitalNumbers /\ AskedHasLine
  /\ \A k \in Numeric : asked[k] # ""

\* The file is a sequence of lines.
LEMMA FileType ==
  ASSUME SettingsTypeOK
  PROVE  /\ Len(file) \in Nat /\ DOMAIN file = 1 .. Len(file)
         /\ \A i \in DOMAIN file : file[i] \in Line
BY LenProperties DEF SettingsTypeOK

\* What a start reads of a setting with lines is the last of them.
LEMMA LoadedLine ==
  ASSUME SettingsTypeOK, NEW k \in Key, LinesOf(k) # {}
  PROVE  \E i \in LinesOf(k) : /\ \A j \in LinesOf(k) : j <= i
                               /\ Loaded(k) = Read(file[i])
<1>1. LinesOf(k) \in SUBSET (1 .. Len(file)) /\ Len(file) \in Nat
  BY FileType DEF LinesOf
<1>2. \E i \in LinesOf(k) : \A j \in LinesOf(k) : j <= i
  BY <1>1, Greatest
<1> DEFINE last == CHOOSE i \in LinesOf(k) : \A j \in LinesOf(k) : j <= i
<1>3. last \in LinesOf(k) /\ \A j \in LinesOf(k) : j <= last
  BY <1>2, Zenon
<1>4. Loaded(k) = Read(file[last])
  BY Zenon DEF Loaded
<1> QED
  BY <1>3, <1>4

\* What is read of a line is a text.
LEMMA ReadType == ASSUME NEW line \in Line PROVE Read(line) \in Text
BY TextAssumption DEF Line, Read

\* What a start reads is a text.
LEMMA LoadedType == ASSUME SettingsTypeOK, NEW k \in Key PROVE Loaded(k) \in Text
<1>1. CASE LinesOf(k) = {}
  BY <1>1, KeyAssumption DEF Loaded
<1>2. CASE LinesOf(k) # {}
  <2>1. PICK i \in LinesOf(k) : Loaded(k) = Read(file[i])
    BY <1>2, LoadedLine
  <2>2. file[i] \in Line
    BY FileType DEF LinesOf
  <2> QED
    BY <2>1, <2>2, ReadType
<1> QED
  BY <1>1, <1>2

\* Of a setting the console saved its own line is read.
LEMMA OwnLineIsRead ==
  SettingsTypeOK /\ LinesInv =>
    \A k \in Key : asked[k] # Nothing => Loaded(k) \in {asked[k], Cut[asked[k]]}
<1> SUFFICES ASSUME SettingsTypeOK, LinesInv, NEW k \in Key, asked[k] # Nothing
             PROVE  Loaded(k) \in {asked[k], Cut[asked[k]]}
  OBVIOUS
<1>1. PICK own \in Own(k) : TRUE
  BY DEF LinesInv, AskedHasLine
<1>2. own \in LinesOf(k) /\ ~file[own].capital
  BY DEF Own
<1>3. PICK i \in LinesOf(k) : /\ \A j \in LinesOf(k) : j <= i
                              /\ Loaded(k) = Read(file[i])
  BY <1>2, LoadedLine
<1>4. i \in DOMAIN file /\ file[i].key = k /\ own \in DOMAIN file /\ own <= i
  BY <1>2, <1>3 DEF LinesOf
<1>5. ~file[i].capital
  <2>1. file[i] \in Line /\ i \in Nat /\ own \in Nat
    BY <1>4, FileType
  <2>2. file[i].capital => i < own
    BY <1>2, <1>4 DEF LinesInv, OwnLinesLast
  <2> QED
    BY <1>4, <2>1, <2>2
<1>6. file[i].text = asked[k]
  BY <1>4, <1>5 DEF LinesInv, OwnLinesSayAsked
<1> QED
  BY <1>3, <1>6 DEF Read

\* A setting whose saved text is read back as it is, is read so at a start.
LEMMA SavedIsRead == ASSUME SettingsTypeOK, LinesInv PROVE SavedSurvivesRestart
BY OwnLineIsRead DEF SavedSurvivesRestart

\* A number is read for each setting that needs one, unless something else was saved.
LEMMA NumbersAreRead == ASSUME SettingsTypeOK, LinesInv PROVE StartsAgain
<1> SUFFICES ASSUME NEW k \in Numeric, asked[k] \in Number \cup {Nothing, ""}
             PROVE  Loaded(k) \in Number
  BY DEF StartsAgain, Loads
<1>1. k \in Key /\ asked[k] # ""
  BY KeyAssumption DEF LinesInv
<1>2. CASE asked[k] # Nothing
  BY <1>1, <1>2, OwnLineIsRead, TextAssumption
<1>3. CASE LinesOf(k) = {}
  BY <1>1, <1>3, KeyAssumption DEF Loaded
<1>4. CASE asked[k] = Nothing /\ LinesOf(k) # {}
  <2>1. PICK i \in LinesOf(k) : Loaded(k) = Read(file[i])
    BY <1>1, <1>4, LoadedLine
  <2>2. i \in DOMAIN file /\ file[i].key = k /\ file[i] \in Line
    BY <2>1, FileType DEF LinesOf
  <2>3. file[i].text # Nothing /\ file[i].capital \in BOOLEAN
    BY <2>2, TextAssumption DEF Line
  <2>4. file[i].capital
    BY <1>4, <2>2, <2>3 DEF LinesInv, OwnLinesSayAsked
  <2>5. file[i].text \in Number
    BY <2>2, <2>4 DEF LinesInv, CapitalNumbers
  <2> QED
    BY <2>1, <2>5, TextAssumption DEF Read
<1> QED
  BY <1>2, <1>3, <1>4

-----------------------------------------------------------------------------
(* What write_env makes of the file *)

IsForm(u) == DOMAIN u \subseteq Key /\ \A k \in DOMAIN u : u[k] \in Text

\* Lines written anew keep their place, their name and its spelling.
LEMMA RewrittenLines ==
  ASSUME SettingsTypeOK, NEW u, IsForm(u)
  PROVE  /\ Rewritten(u) \in Seq(Line) /\ Len(Rewritten(u)) = Len(file)
         /\ \A i \in DOMAIN file :
              /\ Rewritten(u)[i].key = file[i].key
              /\ Rewritten(u)[i].capital = file[i].capital
              /\ IF file[i].key \in DOMAIN u /\ ~file[i].capital
                 THEN Rewritten(u)[i].text = u[file[i].key]
                 ELSE Rewritten(u)[i] = file[i]
<1>1. \A i \in DOMAIN file : Rewritten(u)[i] \in Line
  <2> SUFFICES ASSUME NEW i \in DOMAIN file PROVE Rewritten(u)[i] \in Line
    OBVIOUS
  <2>1. file[i] \in Line
    BY FileType
  <2> QED
    BY <2>1 DEF Rewritten, Small, Line, IsForm
<1>2. Rewritten(u) \in [1 .. Len(file) -> Line] /\ Len(file) \in Nat
  BY <1>1, FileType DEF Rewritten
<1>3. Rewritten(u) \in Seq(Line) /\ Len(Rewritten(u)) = Len(file)
  BY <1>2
<1>4. ASSUME NEW i \in DOMAIN file
      PROVE  /\ Rewritten(u)[i].key = file[i].key
             /\ Rewritten(u)[i].capital = file[i].capital
             /\ IF file[i].key \in DOMAIN u /\ ~file[i].capital
                THEN Rewritten(u)[i].text = u[file[i].key]
                ELSE Rewritten(u)[i] = file[i]
  <2>1. file[i] \in Line
    BY FileType
  <2> QED
    BY <2>1 DEF Rewritten, Small, Line
<1> QED
  BY <1>3, <1>4

\* A line is appended for each saved setting without one of the console's own.
LEMMA AppendedLines ==
  ASSUME SettingsTypeOK, NEW u, IsForm(u)
  PROVE  /\ Appended(u) \in Seq(Line)
         /\ \A i \in DOMAIN Appended(u) :
              \E k \in DOMAIN u : Own(k) = {} /\ Appended(u)[i] = Small(k, u[k], FALSE)
         /\ \A k \in DOMAIN u : Own(k) = {} =>
              \E i \in DOMAIN Appended(u) : Appended(u)[i] = Small(k, u[k], FALSE)
<1> DEFINE New == {j \in DOMAIN u : Own(j) = {}}
           line == [k \in New |-> Small(k, u[k], FALSE)]
           Lines == {Small(k, u[k], FALSE) : k \in New}
<1>1. New \in SUBSET Key /\ line \in [New -> Line]
  BY DEF IsForm, Small, Line
<1>2. Lines = {line[k] : k \in New}
  OBVIOUS
<1>3. IsFiniteSet(Lines)
  <2> HIDE DEF New, line, Lines
  <2> QED
    BY <1>1, <1>2, FiniteLines
<1>4. Lines \subseteq Line
  BY <1>1
<1>5. Appended(u) = SetToSeq(Lines)
  BY DEF Appended
<1>6. /\ Appended(u) \in Seq(Lines)
      /\ \A x \in Lines : \E i \in DOMAIN Appended(u) : Appended(u)[i] = x
  <2> HIDE DEF Lines
  <2> QED
    BY <1>3, <1>5, SequenceOfSet
<1>7. \A i \in DOMAIN Appended(u) : Appended(u)[i] \in Lines
  <2> HIDE DEF Lines
  <2> QED
    BY <1>6
<1>8. Appended(u) \in Seq(Line)
  <2> HIDE DEF Lines
  <2> QED
    BY <1>4, <1>6
<1> QED
  BY <1>6, <1>7, <1>8

\* The file after write_env: old lines in their places, appended ones after them.
LEMMA WrittenLines ==
  ASSUME SettingsTypeOK, NEW u, IsForm(u), file' = FileWith(u)
  PROVE  /\ file' \in Seq(Line)
         /\ DOMAIN file \subseteq DOMAIN file'
         /\ \A i \in DOMAIN file : file'[i] = Rewritten(u)[i]
         /\ \A i \in DOMAIN file' \ DOMAIN file :
              /\ \A j \in DOMAIN file : j < i
              /\ \E k \in DOMAIN u : Own(k) = {} /\ file'[i] = Small(k, u[k], FALSE)
         /\ \A k \in DOMAIN u : Own(k) = {} =>
              \E i \in DOMAIN file' : file'[i] = Small(k, u[k], FALSE)
<1> DEFINE old == Rewritten(u)
           new == Appended(u)
<1>1. old \in Seq(Line) /\ new \in Seq(Line) /\ Len(old) = Len(file)
  BY RewrittenLines, AppendedLines
<1>2. /\ file' \in Seq(Line) /\ Len(file') = Len(old) + Len(new)
      /\ \A i \in 1 .. Len(old) + Len(new) :
           file'[i] = IF i <= Len(old) THEN old[i] ELSE new[i - Len(old)]
  <2> HIDE DEF old, new
  <2>1. file' = old \o new
    BY DEF FileWith, old, new
  <2>2. /\ old \o new \in Seq(Line) /\ Len(old \o new) = Len(old) + Len(new)
        /\ \A i \in 1 .. Len(old) + Len(new) :
             (old \o new)[i] = IF i <= Len(old) THEN old[i] ELSE new[i - Len(old)]
    BY <1>1, ConcatProperties, Zenon
  <2> QED
    BY <2>1, <2>2, Zenon
<1>3. /\ DOMAIN file = 1 .. Len(old) /\ DOMAIN file' = 1 .. Len(old) + Len(new)
      /\ DOMAIN new = 1 .. Len(new) /\ Len(old) \in Nat /\ Len(new) \in Nat
  BY <1>1, <1>2, FileType, LenProperties
<1>4. ASSUME NEW i \in DOMAIN file' \ DOMAIN file
      PROVE  /\ \A j \in DOMAIN file : j < i
             /\ \E k \in DOMAIN u : Own(k) = {} /\ file'[i] = Small(k, u[k], FALSE)
  <2>1. \A n \in DOMAIN new : \E k \in DOMAIN u : Own(k) = {} /\ new[n] = Small(k, u[k], FALSE)
    BY AppendedLines
  <2> HIDE DEF old, new
  <2>2. i - Len(old) \in DOMAIN new /\ file'[i] = new[i - Len(old)] /\ \A j \in DOMAIN file : j < i
    BY <1>2, <1>3
  <2> QED
    BY <2>1, <2>2
<1>5. ASSUME NEW k \in DOMAIN u, Own(k) = {}
      PROVE  \E i \in DOMAIN file' : file'[i] = Small(k, u[k], FALSE)
  <2>1. PICK i \in DOMAIN new : new[i] = Small(k, u[k], FALSE)
    BY <1>5, AppendedLines
  <2> HIDE DEF old, new
  <2>2. i + Len(old) \in DOMAIN file' /\ file'[i + Len(old)] = new[i]
    BY <1>2, <1>3
  <2> QED
    BY <2>1, <2>2
<1>6. DOMAIN file \subseteq DOMAIN file' /\ \A i \in DOMAIN file : file'[i] = old[i]
  <2> HIDE DEF old, new
  <2> QED
    BY <1>2, <1>3
<1> QED
  BY <1>2, <1>4, <1>5, <1>6

\* Saving a form leaves what a start reads of other settings as it was.
LEMMA OtherSettings ==
  ASSUME SettingsTypeOK, NEW u, IsForm(u), file' = FileWith(u), NEW k \in Key \ DOMAIN u
  PROVE  Loaded(k)' = Loaded(k)
<1>0. \A i \in DOMAIN file : file'[i] = Rewritten(u)[i]
  BY WrittenLines
<1>1. \A i \in DOMAIN file : file[i].key = k => file'[i] = file[i]
  BY <1>0, RewrittenLines
<1>2. \A i \in DOMAIN file : file'[i].key = file[i].key
  BY <1>0, RewrittenLines
<1>3. \A i \in DOMAIN file' \ DOMAIN file : file'[i].key # k
  BY WrittenLines DEF Small
<1>4. LinesOf(k)' = LinesOf(k)
  BY <1>2, <1>3, WrittenLines DEF LinesOf
<1>5. \A i \in LinesOf(k) : file'[i] = file[i]
  BY <1>1 DEF LinesOf
<1>6. CASE LinesOf(k) = {}
  BY <1>4, <1>6 DEF Loaded
<1>7. CASE LinesOf(k) # {}
  <2> DEFINE last == CHOOSE i \in LinesOf(k) : \A j \in LinesOf(k) : j <= i
  <2>1. \E i \in LinesOf(k) : \A j \in LinesOf(k) : j <= i
    BY <1>7, LoadedLine
  <2>2. last \in LinesOf(k)
    BY <2>1, Zenon
  <2>3. file'[last] = file[last]
    BY <1>5, <2>2
  <2>4. Loaded(k) = Read(file[last])
    BY <1>7, Zenon DEF Loaded
  <2>5. Loaded(k)' = Read(file'[last])
    BY <1>4, <1>7 DEF Loaded, Read
  <2> QED
    BY <2>3, <2>4, <2>5
<1> QED
  BY <1>6, <1>7

\* Saving a form keeps the lines in order.
LEMMA WritesInOrder ==
  ASSUME SettingsTypeOK, LinesInv, NEW u, IsForm(u), file' = FileWith(u), Ask(u),
         \A k \in Numeric \cap DOMAIN u : u[k] # ""
  PROVE  LinesInv'
<1>1. \A k \in Key : asked'[k] = IF k \in DOMAIN u THEN u[k] ELSE asked[k]
  BY DEF Ask
<1>2. ASSUME NEW i \in DOMAIN file
      PROVE  /\ file'[i].key = file[i].key /\ file'[i].capital = file[i].capital
             /\ file[i].key \in DOMAIN u /\ ~file[i].capital => file'[i].text = u[file[i].key]
             /\ file[i].key \notin DOMAIN u \/ file[i].capital => file'[i] = file[i]
             /\ file[i].key \in Key
  <2>1. file'[i] = Rewritten(u)[i]
    BY WrittenLines
  <2>2. file[i].key \in Key
    BY FileType DEF Line
  <2>3. /\ Rewritten(u)[i].key = file[i].key
        /\ Rewritten(u)[i].capital = file[i].capital
        /\ IF file[i].key \in DOMAIN u /\ ~file[i].capital
           THEN Rewritten(u)[i].text = u[file[i].key]
           ELSE Rewritten(u)[i] = file[i]
    BY RewrittenLines
  <2> QED
    BY <2>1, <2>2, <2>3
<1>3. ASSUME NEW i \in DOMAIN file' \ DOMAIN file
      PROVE  /\ \A j \in DOMAIN file : j < i
             /\ ~file'[i].capital
             /\ file'[i].key \in Key /\ file'[i].text = asked'[file'[i].key]
  <2>1. PICK k \in DOMAIN u : file'[i] = Small(k, u[k], FALSE)
    <3>1. \A n \in DOMAIN file' \ DOMAIN file :
            \E k \in DOMAIN u : Own(k) = {} /\ file'[n] = Small(k, u[k], FALSE)
      BY WrittenLines, Zenon
    <3> QED
      BY <3>1, Zenon
  <2>2. k \in Key /\ asked'[k] = u[k]
    BY <1>1 DEF IsForm
  <2>3. file'[i].key = k /\ file'[i].text = u[k] /\ file'[i].capital = FALSE
    <3> DEFINE line == Small(k, u[k], FALSE)
    <3>1. line.key = k /\ line.text = u[k] /\ line.capital = FALSE
      BY DEF Small
    <3>2. file'[i] = line
      BY <2>1
    <3> HIDE DEF line
    <3> QED
      BY <3>1, <3>2
  <2> QED
    BY <2>2, <2>3, WrittenLines
<1>4. OwnLinesSayAsked'
  <2> SUFFICES ASSUME NEW i \in DOMAIN file', ~file'[i].capital
               PROVE  file'[i].text = asked'[file'[i].key]
    BY DEF OwnLinesSayAsked
  <2>1. CASE i \in DOMAIN file
    <3>1. file[i].key \in Key /\ file'[i].key = file[i].key /\ ~file[i].capital
      BY <1>2, <2>1
    <3>2. CASE file[i].key \in DOMAIN u
      BY <1>1, <1>2, <2>1, <3>1, <3>2
    <3>3. CASE file[i].key \notin DOMAIN u
      <4>1. file'[i] = file[i] /\ asked'[file[i].key] = asked[file[i].key]
        BY <1>1, <1>2, <2>1, <3>1, <3>3
      <4>2. file[i].text = asked[file[i].key]
        BY <2>1, <3>1 DEF LinesInv, OwnLinesSayAsked
      <4> QED
        BY <4>1, <4>2
    <3> QED
      BY <3>2, <3>3
  <2> QED
    BY <1>3, <2>1
<1>5. OwnLinesLast'
  <2> SUFFICES ASSUME NEW i \in DOMAIN file', NEW j \in DOMAIN file',
                      ~file'[i].capital, file'[j].capital
               PROVE  j < i
    BY DEF OwnLinesLast
  <2>1. j \in DOMAIN file
    BY <1>3
  <2>2. CASE i \in DOMAIN file
    BY <1>2, <2>1, <2>2 DEF LinesInv, OwnLinesLast
  <2> QED
    BY <1>3, <2>1, <2>2
<1>6. CapitalNumbers'
  <2> SUFFICES ASSUME NEW i \in DOMAIN file', file'[i].capital, file'[i].key \in Numeric
               PROVE  file'[i].text \in Number
    BY DEF CapitalNumbers
  <2>1. i \in DOMAIN file
    BY <1>3
  <2> QED
    BY <1>2, <2>1 DEF LinesInv, CapitalNumbers
<1>7. AskedHasLine'
  <2> SUFFICES ASSUME NEW k \in Key, asked'[k] # Nothing PROVE Own(k)' # {}
    BY DEF AskedHasLine
  <2>1. CASE Own(k) = {}
    <3>1. k \in DOMAIN u
      BY <1>1, <2>1 DEF LinesInv, AskedHasLine
    <3>2. PICK i \in DOMAIN file' : file'[i] = Small(k, u[k], FALSE)
      BY <2>1, <3>1, WrittenLines
    <3>3. file'[i].key = k /\ file'[i].capital = FALSE
      <4> DEFINE line == Small(k, u[k], FALSE)
      <4>1. line.key = k /\ line.capital = FALSE
        BY DEF Small
      <4>2. file'[i] = line
        BY <3>2
      <4> HIDE DEF line
      <4> QED
        BY <4>1, <4>2
    <3> QED
      BY <3>2, <3>3 DEF Own, LinesOf
  <2>2. CASE Own(k) # {}
    <3>1. PICK i \in Own(k) : TRUE
      BY <2>2
    <3>2. i \in DOMAIN file' /\ file'[i].key = k /\ ~file'[i].capital
      BY <1>2, <3>1, WrittenLines DEF Own, LinesOf
    <3> QED
      BY <3>2 DEF Own, LinesOf
  <2> QED
    BY <2>1, <2>2
<1>8. \A k \in Numeric : asked'[k] # ""
  BY <1>1, KeyAssumption DEF LinesInv
<1> QED
  BY <1>4, <1>5, <1>6, <1>7, <1>8 DEF LinesInv

-----------------------------------------------------------------------------
(* The operations *)

SettingsInv == SettingsTypeOK /\ LinesInv /\ RestartChangesNothing

\* An empty file and the defaults are a beginning.
LEMMA SettingsInitInv == SettingsInit => SettingsInv
<1> SUFFICES ASSUME SettingsInit PROVE SettingsInv
  OBVIOUS
<1>1. SettingsTypeOK
  <2>1. file \in Seq(Line)
    BY DEF SettingsInit
  <2>2. settings \in [Key -> Text] /\ asked \in [Key -> Text \cup {Nothing}]
    BY KeyAssumption DEF SettingsInit
  <2>3. up \in BOOLEAN /\ replaced \in BOOLEAN /\ unsaved \subseteq Key
    BY DEF SettingsInit
  <2>4. saves \in 0 .. MaxSaves /\ starts \in 0 .. MaxStarts
    BY BoundsAssumption DEF SettingsInit
  <2> QED
    BY <2>1, <2>2, <2>3, <2>4 DEF SettingsTypeOK
<1>2. DOMAIN file = {}
  BY DEF SettingsInit
<1>3. LinesInv
  BY <1>2, KeyAssumption, TextAssumption
  DEF SettingsInit, LinesInv, OwnLinesSayAsked, OwnLinesLast, CapitalNumbers, AskedHasLine, Nothing
<1>4. RestartChangesNothing
  BY DEF SettingsInit, RestartChangesNothing
<1> QED
  BY <1>1, <1>3, <1>4 DEF SettingsInv

\* Whatever leaves file and asked alone leaves the lines in order.
LEMMA LinesStay == LinesInv /\ UNCHANGED <<file, asked>> => LinesInv'
<1> SUFFICES ASSUME LinesInv, file' = file, asked' = asked PROVE LinesInv'
  OBVIOUS
<1>1. OwnLinesSayAsked' /\ OwnLinesLast'
  BY DEF LinesInv, OwnLinesSayAsked, OwnLinesLast
<1>2. CapitalNumbers'
  BY DEF LinesInv, CapitalNumbers
<1>3. AskedHasLine'
  BY DEF LinesInv, AskedHasLine, Own, LinesOf
<1> QED
  BY <1>1, <1>2, <1>3 DEF LinesInv

\* A start has in memory what it read.
LEMMA StartKeeps == ASSUME SettingsInv, Start PROVE SettingsInv'
<1>1. SettingsTypeOK'
  <2>1. settings' \in [Key -> Text]
    BY LoadedType DEF SettingsInv, Start
  <2>2. starts' \in 0 .. MaxStarts
    BY BoundsAssumption DEF SettingsInv, SettingsTypeOK, Start
  <2> QED
    BY <2>1, <2>2 DEF SettingsInv, SettingsTypeOK, Start
<1>2. LinesInv'
  BY LinesStay DEF SettingsInv, Start
<1>3. \A k \in Key : Loaded(k)' = Loaded(k)
  BY DEF Start, Loaded, LinesOf, Read
<1>4. RestartChangesNothing'
  BY <1>3 DEF Start, RestartChangesNothing
<1> QED
  BY <1>1, <1>2, <1>4 DEF SettingsInv

\* A server that stopped promises nothing about its memory.
LEMMA StopKeeps == ASSUME SettingsInv, Stop PROVE SettingsInv'
BY LinesStay DEF SettingsInv, SettingsTypeOK, RestartChangesNothing, Stop

\* What the wizard finds for a setting is a text.
LEMMA ExistingType == ASSUME SettingsTypeOK, NEW k \in Prompted PROVE Existing(k) \in Text
<1> DEFINE own == {i \in LinesOf(k) : file[i].capital}
<1>1. CASE own # {}
  <2>1. own \in SUBSET (1 .. Len(file)) /\ Len(file) \in Nat
    BY FileType DEF LinesOf
  <2>2. \E i \in own : \A j \in own : j <= i
    <3> HIDE DEF own
    <3> QED
      BY <1>1, <2>1, Greatest
  <2> DEFINE last == CHOOSE i \in own : \A j \in own : j <= i
  <2>3. last \in own
    <3> HIDE DEF own
    <3> QED
      BY <2>2, Zenon
  <2>4. Existing(k) = file[last].text
    BY <1>1, Zenon DEF Existing
  <2>5. file[last] \in Line
    <3> HIDE DEF last
    <3> QED
      BY <2>3, FileType DEF LinesOf
  <2> HIDE DEF last
  <2> QED
    BY <2>4, <2>5 DEF Line
<1>2. CASE own = {}
  BY <1>2, KeyAssumption, TextAssumption DEF Existing
<1> QED
  BY <1>1, <1>2

\* The wizard's file has its own lines only, with numbers where they are needed.
LEMMA WizardLines ==
  ASSUME SettingsTypeOK, NEW answers \in Answers
  PROVE  /\ WizardFile(answers) \in Seq(Line)
         /\ \A i \in DOMAIN WizardFile(answers) :
              LET line == WizardFile(answers)[i]
              IN  line.capital /\ (line.key \in Numeric => line.text \in Number)
<1> DEFINE given == {k \in Prompted : Typed(answers, k) # ""}
           short == [k \in given |-> Capital(k, Typed(answers, k))]
           full == [k \in DOMAIN Example |->
                      Capital(k, IF k \in given THEN Typed(answers, k) ELSE Example[k])]
           Good == {line \in Line : line.capital /\ (line.key \in Numeric => line.text \in Number)}
<1>1. \A k \in Prompted : Typed(answers, k) \in Text
  BY ExistingType, KeyAssumption DEF Typed
<1>2. given \in SUBSET Key /\ DOMAIN Example \in SUBSET Key
  BY KeyAssumption
<1>3. \A k \in given : short[k] \in Good
  BY <1>1, KeyAssumption DEF Capital, Line
<1>4. \A k \in DOMAIN Example : full[k] \in Good
  BY <1>1, KeyAssumption DEF Capital, Line
<1>5. ASSUME NEW K \in SUBSET Key, NEW line \in [K -> Good]
      PROVE  SetToSeq({line[k] : k \in K}) \in Seq(Good)
  <2> DEFINE Lines == {line[k] : k \in K}
  <2>1. line \in [K -> Line]
    OBVIOUS
  <2>2. Lines \subseteq Good
    OBVIOUS
  <2>3. IsFiniteSet(Lines)
    BY <2>1, FiniteLines
  <2> HIDE DEF Lines, Good
  <2>4. SetToSeq(Lines) \in Seq(Lines)
    BY <2>3, SequenceOfSet
  <2>5. SetToSeq(Lines) \in Seq(Good)
    BY <2>2, <2>4
  <2> QED
    BY <2>5 DEF Lines
<1>6. WizardFile(answers) \in {SetToSeq({short[k] : k \in given}),
                               SetToSeq({full[k] : k \in DOMAIN Example})}
  BY DEF WizardFile
<1>7. WizardFile(answers) \in Seq(Good)
  <2>1. short \in [given -> Good] /\ full \in [DOMAIN Example -> Good]
    BY <1>3, <1>4
  <2> HIDE DEF given, short, full, Good
  <2>2. SetToSeq({short[k] : k \in given}) \in Seq(Good)
    BY <1>2, <1>5, <2>1
  <2>3. SetToSeq({full[k] : k \in DOMAIN Example}) \in Seq(Good)
    BY <1>2, <1>5, <2>1
  <2> QED
    BY <1>6, <2>2, <2>3
<1>8. /\ WizardFile(answers) \in Seq(Line)
      /\ \A i \in DOMAIN WizardFile(answers) : WizardFile(answers)[i] \in Good
  <2>1. Good \subseteq Line
    OBVIOUS
  <2> HIDE DEF Good
  <2> QED
    BY <1>7, <2>1
<1> QED
  BY <1>8

\* The wizard's file is in order, and a running server knows that it is not its own.
LEMMA WizardKeeps == ASSUME SettingsInv, NEW answers \in Answers, Wizard(answers) PROVE SettingsInv'
<1>1. /\ file' \in Seq(Line)
      /\ \A i \in DOMAIN file' :
           file'[i].capital /\ (file'[i].key \in Numeric => file'[i].text \in Number)
  <2>1. file' = WizardFile(answers)
    BY DEF Wizard
  <2> QED
    BY <2>1, WizardLines DEF SettingsInv
<1>2. asked' = [k \in Key |-> Nothing]
  BY DEF Wizard
<1>3. SettingsTypeOK'
  <2>1. asked' \in [Key -> Text \cup {Nothing}]
    BY <1>2
  <2>2. starts' \in 0 .. MaxStarts
    BY BoundsAssumption DEF SettingsInv, SettingsTypeOK, Wizard
  <2> QED
    BY <1>1, <2>1, <2>2 DEF SettingsInv, SettingsTypeOK, Wizard
<1>4. OwnLinesSayAsked' /\ OwnLinesLast' /\ CapitalNumbers'
  BY <1>1 DEF OwnLinesSayAsked, OwnLinesLast, CapitalNumbers
<1>5. AskedHasLine' /\ \A k \in Numeric : asked'[k] # ""
  BY <1>2, KeyAssumption DEF AskedHasLine, Nothing
<1>6. RestartChangesNothing'
  BY DEF Wizard, RestartChangesNothing
<1> QED
  BY <1>3, <1>4, <1>5, <1>6 DEF SettingsInv, LinesInv

\* The saves are counted up to their bound.
LEMMA SavesBounded == ASSUME SettingsTypeOK, Request PROVE saves' \in 0 .. MaxSaves
BY BoundsAssumption DEF SettingsTypeOK, Request

\* A form saved in the file keeps its types and its order, and a start will
\* read of it what was saved, or that cut short.
LEMMA FormWritten ==
  ASSUME SettingsTypeOK, LinesInv, NEW u, IsForm(u), file' = FileWith(u), Ask(u), Request,
         settings' \in [Key -> Text], unsaved' \subseteq Key,
         \A k \in Numeric \cap DOMAIN u : u[k] # ""
  PROVE  /\ SettingsTypeOK' /\ LinesInv'
         /\ \A k \in Key :
              IF k \in DOMAIN u
              THEN asked'[k] = u[k] /\ asked'[k] # Nothing /\ Loaded(k)' \in {u[k], Cut[u[k]]}
              ELSE asked'[k] = asked[k] /\ Loaded(k)' = Loaded(k)
<1>1. \A k \in Key : asked'[k] = IF k \in DOMAIN u THEN u[k] ELSE asked[k]
  BY DEF Ask
<1>2. SettingsTypeOK'
  <2>1. asked' \in [Key -> Text \cup {Nothing}]
    BY DEF SettingsTypeOK, Ask, IsForm
  <2>2. file' \in Seq(Line)
    BY WrittenLines
  <2>3. saves' \in 0 .. MaxSaves
    BY SavesBounded
  <2> QED
    BY <2>1, <2>2, <2>3 DEF SettingsTypeOK, Request
<1>3. LinesInv'
  BY WritesInOrder
<1>4. (SettingsTypeOK /\ LinesInv =>
         \A k \in Key : asked[k] # Nothing => Loaded(k) \in {asked[k], Cut[asked[k]]})'
  BY OwnLineIsRead, PTL
<1>5. ASSUME NEW k \in Key, k \in DOMAIN u
      PROVE  asked'[k] = u[k] /\ asked'[k] # Nothing /\ Loaded(k)' \in {u[k], Cut[u[k]]}
  <2>1. asked'[k] = u[k] /\ u[k] \in Text
    BY <1>1, <1>5 DEF IsForm
  <2>2. asked'[k] # Nothing
    BY <2>1, TextAssumption
  <2> QED
    BY <1>2, <1>3, <1>4, <2>1, <2>2
<1>6. ASSUME NEW k \in Key, k \notin DOMAIN u
      PROVE  asked'[k] = asked[k] /\ Loaded(k)' = Loaded(k)
  BY <1>1, <1>6, OtherSettings
<1> QED
  BY <1>2, <1>3, <1>5, <1>6

\* Saving a form keeps memory and file in step.
LEMMA SaveKeeps == ASSUME SettingsInv, NEW form \in Updates, Save(form) PROVE SettingsInv'
<1> DEFINE u == Filled(form)
           Parses(k) == k \in Numeric => u[k] \in Number
<1>1. IsForm(u) /\ \A k \in Numeric \cap DOMAIN u : u[k] # ""
  BY KeyAssumption, TextAssumption DEF Filled, IsForm
<1>2. /\ file' = FileWith(u) /\ Ask(u) /\ Request /\ unsaved' = unsaved \ DOMAIN u
      /\ settings' = [k \in Key |-> IF k \in DOMAIN u /\ Parses(k) THEN u[k] ELSE settings[k]]
  BY DEF Save
<1>3. settings' \in [Key -> Text] /\ unsaved' \subseteq Key
  <2> HIDE DEF u
  <2> QED
    BY <1>1, <1>2 DEF IsForm, SettingsInv, SettingsTypeOK
<1>4. /\ SettingsTypeOK' /\ LinesInv'
      /\ \A k \in Key :
           IF k \in DOMAIN u
           THEN asked'[k] = u[k] /\ asked'[k] # Nothing /\ Loaded(k)' \in {u[k], Cut[u[k]]}
           ELSE asked'[k] = asked[k] /\ Loaded(k)' = Loaded(k)
  <2> HIDE DEF u
  <2> QED
    BY <1>1, <1>2, <1>3, FormWritten DEF SettingsInv
<1>5. RestartChangesNothing'
  <2> SUFFICES ASSUME up', ~replaced', NEW k \in Key
               PROVE  \/ settings'[k] = Loaded(k)'
                      \/ asked'[k] # Nothing /\ ~Sound(k, asked'[k])
                      \/ k \in unsaved' /\ settings'[k] = "true"
    BY DEF RestartChangesNothing, Sound
  <2> HIDE DEF u
  <2>1. CASE k \in DOMAIN u
    BY <1>2, <1>4, <2>1 DEF Sound
  <2>2. CASE k \notin DOMAIN u
    <3>1. /\ settings'[k] = settings[k] /\ asked'[k] = asked[k] /\ Loaded(k)' = Loaded(k)
          /\ up /\ ~replaced /\ (k \in unsaved => k \in unsaved')
      BY <1>2, <1>4, <2>2 DEF Request
    <3> QED
      BY <3>1 DEF SettingsInv, RestartChangesNothing
  <2> QED
    BY <2>1, <2>2
<1> QED
  BY <1>4, <1>5 DEF SettingsInv

\* A dismissal keeps memory and file in step, or remembers where it did not.
LEMMA DismissKeeps == ASSUME SettingsInv, NEW never \in BOOLEAN, Dismiss(never) PROVE SettingsInv'
<1> DEFINE u == Dismissed(never)
<1>1. /\ IsForm(u) /\ \A k \in Numeric \cap DOMAIN u : u[k] # ""
      /\ \A k \in DOMAIN u : u[k] = "true"
  BY KeyAssumption, TextAssumption DEF IsForm, Dismissed
<1> HIDE DEF u
<1>2. Request /\ settings' = [k \in Key |-> IF k \in DOMAIN u THEN u[k] ELSE settings[k]]
  BY DEF Dismiss, u
<1>3. settings' \in [Key -> Text]
  BY <1>1, <1>2 DEF IsForm, SettingsInv, SettingsTypeOK
<1>4. ASSUME file' = FileWith(u), Ask(u), unsaved' = unsaved \ DOMAIN u
      PROVE  SettingsInv'
  <2>0. unsaved' \subseteq Key
    BY <1>4 DEF SettingsInv, SettingsTypeOK
  <2>1. /\ SettingsTypeOK' /\ LinesInv'
        /\ \A k \in Key :
             IF k \in DOMAIN u
             THEN asked'[k] = u[k] /\ asked'[k] # Nothing /\ Loaded(k)' \in {u[k], Cut[u[k]]}
             ELSE asked'[k] = asked[k] /\ Loaded(k)' = Loaded(k)
    BY <1>1, <1>2, <1>3, <1>4, <2>0, FormWritten DEF SettingsInv
  <2>2. RestartChangesNothing'
    <3> SUFFICES ASSUME up', ~replaced', NEW k \in Key
                 PROVE  \/ settings'[k] = Loaded(k)'
                        \/ asked'[k] # Nothing /\ ~Sound(k, asked'[k])
                        \/ k \in unsaved' /\ settings'[k] = "true"
      BY DEF RestartChangesNothing, Sound
    <3>1. CASE k \in DOMAIN u
      <4>1. settings'[k] = u[k]
        BY <1>2, <3>1
      <4>2. asked'[k] = u[k] /\ asked'[k] # Nothing /\ Loaded(k)' \in {u[k], Cut[u[k]]}
        BY <2>1, <3>1
      <4> QED
        BY <4>1, <4>2 DEF Sound
    <3>2. CASE k \notin DOMAIN u
      <4>1. settings'[k] = settings[k] /\ (k \in unsaved => k \in unsaved')
        BY <1>2, <1>4, <3>2
      <4>2. asked'[k] = asked[k] /\ Loaded(k)' = Loaded(k)
        BY <2>1, <3>2
      <4> QED
        BY <1>2, <4>1, <4>2 DEF Request, SettingsInv, RestartChangesNothing
    <3> QED
      BY <3>1, <3>2
  <2> QED
    BY <2>1, <2>2 DEF SettingsInv
<1>5. ASSUME unsaved' = unsaved \cup DOMAIN u, UNCHANGED <<file, asked>>
      PROVE  SettingsInv'
  <2>1. SettingsTypeOK'
    <3>1. unsaved' \subseteq Key
      BY <1>1, <1>5 DEF IsForm, SettingsInv, SettingsTypeOK
    <3>2. saves' \in 0 .. MaxSaves
      BY <1>2, SavesBounded DEF SettingsInv
    <3> QED
      BY <1>2, <1>3, <1>5, <3>1, <3>2 DEF Request, SettingsInv, SettingsTypeOK
  <2>2. LinesInv'
    BY <1>5, LinesStay DEF SettingsInv
  <2>3. \A k \in Key : Loaded(k)' = Loaded(k)
    BY <1>5 DEF Loaded, LinesOf, Read
  <2>4. RestartChangesNothing'
    <3> SUFFICES ASSUME up', ~replaced', NEW k \in Key
                 PROVE  \/ settings'[k] = Loaded(k)'
                        \/ asked'[k] # Nothing /\ ~Sound(k, asked'[k])
                        \/ k \in unsaved' /\ settings'[k] = "true"
      BY DEF RestartChangesNothing, Sound
    <3>1. CASE k \in DOMAIN u
      BY <1>1, <1>2, <1>5, <3>1
    <3>2. CASE k \notin DOMAIN u
      <4>1. settings'[k] = settings[k] /\ (k \in unsaved => k \in unsaved')
        BY <1>2, <1>5, <3>2
      <4> QED
        BY <1>2, <1>5, <2>3, <4>1 DEF Request, SettingsInv, RestartChangesNothing
    <3> QED
      BY <3>1, <3>2
  <2> QED
    BY <2>1, <2>2, <2>4 DEF SettingsInv
<1> QED
  BY <1>4, <1>5 DEF Dismiss, u

\* What is left alone stays as it was.
LEMMA IdleKeeps == ASSUME SettingsInv, UNCHANGED env PROVE SettingsInv'
<1>1. SettingsTypeOK'
  BY DEF env, SettingsInv, SettingsTypeOK
<1>2. LinesInv'
  BY LinesStay DEF env, SettingsInv
<1>3. \A k \in Key : Loaded(k)' = Loaded(k)
  BY DEF env, Loaded, LinesOf, Read
<1>4. /\ settings' = settings /\ asked' = asked /\ unsaved' = unsaved
      /\ up' = up /\ replaced' = replaced
  BY DEF env
<1>5. RestartChangesNothing'
  BY <1>3, <1>4 DEF SettingsInv, RestartChangesNothing, Sound
<1> QED
  BY <1>1, <1>2, <1>5 DEF SettingsInv
=============================================================================
