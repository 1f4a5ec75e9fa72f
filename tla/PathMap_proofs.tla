--------------------------- MODULE PathMap_proofs ---------------------------
(***************************************************************************)
(* Theorems about Url, PathMap and Addresses, for texts of any characters  *)
(* and any length, and limits of any size: a reference leads where RFC     *)
(* 3986 says, the text of a URL is read as that URL, what is stored has a  *)
(* safe name below the output directory, a name that is cut included, two  *)
(* pages whose names are not cut are not stored in one file, and a link in *)
(* the mirror leads a browser to the file that it is for.  And one about   *)
(* Serve, which builds on PathMap: the preview server answers every client *)
(* in full.                                                                *)
(*                                                                         *)
(* The operators on sequences that come from the community modules pick a  *)
(* smallest or largest position by CHOOSE, or are folds; what they return  *)
(* is proved first.                                                        *)
(***************************************************************************)
EXTENDS Serve, Addresses, TLAPS, SequenceTheorems, WellFoundedInduction, FiniteSetTheorems

-----------------------------------------------------------------------------
(* Smallest and largest numbers.                                           *)

\* A set of numbers that is not empty has a smallest element, which Min returns.
LEMMA MinIsLeast ==
  ASSUME NEW T \in SUBSET Nat, T # {}
  PROVE  Min(T) \in T /\ \A y \in T : Min(T) <= y
<1>1. \E x \in T : \A y \in T : ~ (<<y, x>> \in OpToRel(<, Nat))
  BY NatLessThanWellFounded, WFMin, Zenon
<1>2. PICK x \in T : \A y \in T : ~ (<<y, x>> \in OpToRel(<, Nat))
  BY <1>1, Zenon
<1>3. \A y \in T : x <= y
  <2> SUFFICES ASSUME NEW y \in T PROVE x <= y
    OBVIOUS
  <2>1. <<y, x>> \in Nat \X Nat /\ ~ (<<y, x>> \in OpToRel(<, Nat))
    BY <1>2
  <2>2. ~ (y < x)
    BY <2>1 DEF OpToRel
  <2> QED
    BY <2>2
<1> QED
  BY <1>3 DEF Min

\* A set of numbers up to a bound that is not empty has a largest element, which Max
\* returns.
LEMMA MaxIsGreatest ==
  ASSUME NEW n \in Nat, NEW T \in SUBSET (0 .. n), T # {}
  PROVE  Max(T) \in T /\ \A y \in T : y <= Max(T)
<1> DEFINE U == {n - y : y \in T}
<1>1. U \in SUBSET Nat /\ U # {}
  <2>1. \A y \in T : n - y \in Nat
    OBVIOUS
  <2> QED
    BY <2>1
<1>2. PICK x \in T : n - x = Min(U)
  BY <1>1, MinIsLeast
<1>3. \A y \in T : n - x <= n - y
  BY <1>1, <1>2, MinIsLeast
<1>4. \A y \in T : x >= y
  BY <1>3
<1> QED
  BY <1>4 DEF Max

\* Where a character is found first.
LEMMA FindFirst ==
  ASSUME NEW S, NEW text \in Seq(S), NEW c
  PROVE  /\ Find(text, c) \in 0 .. Len(text)
         /\ Find(text, c) = 0 => \A i \in 1 .. Len(text) : text[i] # c
         /\ Find(text, c) # 0 => /\ text[Find(text, c)] = c
                                 /\ \A i \in 1 .. Find(text, c) - 1 : text[i] # c
<1> DEFINE I == {i \in 1 .. Len(text) : text[i] = c}
<1>1. Find(text, c) = IF I # {} THEN Min(I) ELSE 0
  BY DEF Find, SelectInSeq
<1>2. I \in SUBSET Nat
  OBVIOUS
<1>3. CASE I = {}
  BY <1>1, <1>3
<1>4. CASE I # {}
  <2>1. Min(I) \in I /\ \A y \in I : Min(I) <= y
    BY <1>2, <1>4, MinIsLeast
  <2>2. Min(I) \in 1 .. Len(text) /\ text[Min(I)] = c
    BY <2>1
  <2>3. \A i \in 1 .. Min(I) - 1 : text[i] # c
    <3> SUFFICES ASSUME NEW i \in 1 .. Min(I) - 1, text[i] = c PROVE FALSE
      OBVIOUS
    <3>1. i \in 1 .. Len(text)
      BY <2>2
    <3>2. i \in I
      BY <3>1
    <3> QED
      BY <2>1, <2>2, <3>2
  <2>4. Find(text, c) = Min(I)
    BY <1>1, <1>4
  <2> QED
    BY <2>2, <2>3, <2>4
<1> QED
  BY <1>3, <1>4

\* And last.
LEMMA FindLast ==
  ASSUME NEW S, NEW text \in Seq(S), NEW c
  PROVE  /\ RFind(text, c) \in 0 .. Len(text)
         /\ RFind(text, c) # 0 => text[RFind(text, c)] = c
<1> DEFINE I == {i \in 1 .. Len(text) : text[i] = c}
<1>1. RFind(text, c) = IF I # {} THEN Max(I) ELSE 0
  BY DEF RFind, SelectLastInSeq
<1>2. I \in SUBSET (0 .. Len(text)) /\ Len(text) \in Nat
  OBVIOUS
<1>3. CASE I # {}
  <2>1. Max(I) \in I
    BY <1>2, <1>3, MaxIsGreatest
  <2> QED
    BY <1>1, <1>3, <2>1
<1> QED
  BY <1>1, <1>3

\* The part of a text in front of a character.
LEMMA Head1Begins ==
  ASSUME NEW S, NEW text \in Seq(S), NEW c, text # <<>>, text[1] # c
  PROVE  Head1(text, c) # <<>> /\ Head1(text, c)[1] = text[1]
<1> DEFINE n == Find(text, c)
<1>1. n \in 0 .. Len(text) /\ n # 1 /\ Len(text) \in Nat \ {0}
  BY FindFirst
<1>2. CASE n = 0
  BY <1>2 DEF Head1
<1>3. CASE n # 0
  <2>1. n - 1 \in 1 .. Len(text)
    BY <1>1, <1>3
  <2>2. \A i \in 1 .. n - 1 : text[i] \in S
    BY <2>1
  <2>3. /\ Len(SubSeq(text, 1, n - 1)) = n - 1
        /\ SubSeq(text, 1, n - 1)[1] = text[1]
    BY <2>1, <2>2, SubSeqProperties
  <2>4. Head1(text, c) = SubSeq(text, 1, n - 1)
    BY <1>3 DEF Head1, Before
  <2> QED
    BY <2>1, <2>3, <2>4
<1> QED
  BY <1>2, <1>3

\* A function on 1 .. n is a sequence.
LEMMA FunctionIsSeq ==
  ASSUME NEW T, NEW n \in Nat, NEW f \in [1 .. n -> T]
  PROVE  f \in Seq(T) /\ Len(f) = n
OBVIOUS

\* Short sequences.
LEMMA ShortSeqs ==
  ASSUME NEW T, NEW a \in T, NEW b \in T
  PROVE  <<>> \in Seq(T) /\ <<a, b>> \in Seq(T)
OBVIOUS

-----------------------------------------------------------------------------
(* Names.                                                                  *)

\* What is left of a name without its trailing dots and spaces; when that is all of it,
\* the name does not end in one.
LEMMA TrimmedEnds ==
  ASSUME NEW S, NEW name \in Seq(S)
  PROVE  /\ Trimmed(name) \in Seq(S)
         /\ Len(Trimmed(name)) <= Len(name)
         /\ \A i \in 1 .. Len(Trimmed(name)) : Trimmed(name)[i] = name[i]
         /\ Trimmed(name) = name /\ name # <<>> => name[Len(name)] \notin Dropped
<1> DEFINE kept == {i \in DOMAIN name : name[i] \notin Dropped}
           last == CHOOSE i \in kept : \A j \in kept : i >= j
<1>1. Trimmed(name) = IF kept = {} THEN <<>> ELSE SubSeq(name, 1, last)
  BY DEF Trimmed
<1>2. Len(name) \in Nat /\ DOMAIN name = 1 .. Len(name)
  OBVIOUS
<1>3. kept \in SUBSET (0 .. Len(name)) /\ last = Max(kept)
  BY <1>2 DEF Max
<1>4. CASE kept = {}
  <2>1. Trimmed(name) = <<>>
    BY <1>1, <1>4
  <2> HIDE DEF kept, last
  <2> QED
    BY <1>2, <2>1
<1>5. CASE kept # {}
  <2>1. last \in kept
    <3> HIDE DEF kept, last
    <3> QED
      BY <1>2, <1>3, <1>5, MaxIsGreatest
  <2>2. last \in 1 .. Len(name) /\ name[last] \notin Dropped
    BY <1>2, <2>1
  <2> HIDE DEF kept, last
  <2>3. \A i \in 1 .. last : name[i] \in S
    BY <1>2, <2>2
  <2>4. /\ SubSeq(name, 1, last) \in Seq(S)
        /\ Len(SubSeq(name, 1, last)) = last
        /\ \A i \in 1 .. last : SubSeq(name, 1, last)[i] = name[i]
    BY <1>2, <2>2, <2>3, SubSeqProperties
  <2>5. Trimmed(name) = SubSeq(name, 1, last)
    BY <1>1, <1>5
  <2>6. Trimmed(name) = name => name[Len(name)] \notin Dropped
    <3> SUFFICES ASSUME Trimmed(name) = name PROVE name[Len(name)] \notin Dropped
      OBVIOUS
    <3>1. Len(name) = last
      BY <2>4, <2>5
    <3> QED
      BY <2>2, <3>1
  <2>7. Len(Trimmed(name)) = last
    BY <2>4, <2>5
  <2>8. Len(Trimmed(name)) <= Len(name)
    BY <1>2, <2>2, <2>7
  <2> QED
    BY <2>4, <2>5, <2>6, <2>7, <2>8
<1> QED
  BY <1>4, <1>5

\* The underscore may stand anywhere.
LEMMA UnderscoreIsFine ==
  Underscore \notin Forbidden /\ Underscore \notin Dropped /\ Underscore # "."
BY DEF Underscore, Forbidden, Dropped, Space

\* The three steps of sanitize_path_component(): forbidden characters are replaced, an
\* ending that Windows would drop is marked, and so is a name of a device.
Clean(component) ==
  [i \in DOMAIN component |-> IF component[i] \in Forbidden THEN Underscore ELSE component[i]]
Marked(name) == IF Trimmed(name) = name THEN name ELSE Append(Trimmed(name), Underscore)
Undeviced(name) == IF Head1(name, ".") \in Reserved THEN <<Underscore>> \o name ELSE name

\* A text without the characters that are forbidden in a name.
Allowed(S, name) == name \in Seq(S) /\ \A i \in 1 .. Len(name) : name[i] \notin Forbidden

LEMMA CleanAllowed ==
  ASSUME NEW S, Underscore \in S, NEW component \in Seq(S)
  PROVE  Allowed(S, Clean(component))
<1>1. DOMAIN component = 1 .. Len(component) /\ Len(component) \in Nat
  OBVIOUS
<1>2. \A i \in 1 .. Len(component) : component[i] \in S
  OBVIOUS
<1>3. Clean(component) \in [1 .. Len(component) -> S]
  BY <1>1, <1>2 DEF Clean
<1>4. Clean(component) \in Seq(S) /\ Len(Clean(component)) = Len(component)
  BY <1>1, <1>3
<1>5. \A i \in 1 .. Len(component) : Clean(component)[i] \notin Forbidden
  BY <1>1, UnderscoreIsFine DEF Clean
<1> QED
  BY <1>4, <1>5 DEF Allowed

LEMMA MarkedEnds ==
  ASSUME NEW S, Underscore \in S, NEW name, Allowed(S, name)
  PROVE  /\ Allowed(S, Marked(name))
         /\ Marked(name) # <<>> => Marked(name)[Len(Marked(name))] \notin Dropped
<1>1. CASE Trimmed(name) = name
  BY <1>1, TrimmedEnds DEF Marked, Allowed
<1>2. CASE Trimmed(name) # name
  <2> DEFINE t == Trimmed(name)
  <2>1. t \in Seq(S) /\ Len(t) <= Len(name) /\ \A i \in 1 .. Len(t) : t[i] = name[i]
    BY TrimmedEnds DEF Allowed
  <2>2. /\ Append(t, Underscore) \in Seq(S) /\ Len(Append(t, Underscore)) = Len(t) + 1
        /\ \A i \in 1 .. Len(t) : Append(t, Underscore)[i] = t[i]
        /\ Append(t, Underscore)[Len(t) + 1] = Underscore
    BY <2>1, AppendProperties
  <2>3. Len(name) \in Nat /\ Len(t) \in Nat
    BY <2>1 DEF Allowed
  <2>4. \A i \in 1 .. Len(t) + 1 : Append(t, Underscore)[i] \notin Forbidden
    <3> SUFFICES ASSUME NEW i \in 1 .. Len(t) + 1 PROVE Append(t, Underscore)[i] \notin Forbidden
      OBVIOUS
    <3>1. CASE i = Len(t) + 1
      BY <2>2, <3>1, UnderscoreIsFine
    <3>2. CASE i # Len(t) + 1
      <4>1. i \in 1 .. Len(t) /\ i \in 1 .. Len(name)
        BY <2>1, <2>3, <3>2
      <4> QED
        BY <2>1, <2>2, <4>1 DEF Allowed
    <3> QED
      BY <3>1, <3>2
  <2>5. Marked(name) = Append(t, Underscore)
    BY <1>2 DEF Marked
  <2>6. Append(t, Underscore)[Len(Append(t, Underscore))] \notin Dropped
    BY <2>2, UnderscoreIsFine
  <2> QED
    BY <2>2, <2>4, <2>5, <2>6 DEF Allowed
<1> QED
  BY <1>1, <1>2

LEMMA UndevicedIsNone ==
  ASSUME NEW S, Underscore \in S, NEW name, Allowed(S, name),
         name # <<>> => name[Len(name)] \notin Dropped
  PROVE  /\ Allowed(S, Undeviced(name))
         /\ Undeviced(name) # <<>> => Undeviced(name)[Len(Undeviced(name))] \notin Dropped
         /\ Head1(Undeviced(name), ".") \notin Reserved
<1>1. CASE Head1(name, ".") \in Reserved
  <2> DEFINE u == <<Underscore>> \o name
  <2>1. Undeviced(name) = u
    BY <1>1 DEF Undeviced
  <2>2. name \in Seq(S) /\ Len(name) \in Nat /\ <<Underscore>> \in Seq(S) /\ Len(<<Underscore>>) = 1
    BY DEF Allowed
  <2>3. /\ u \in Seq(S) /\ Len(u) = 1 + Len(name)
        /\ \A i \in 1 .. 1 + Len(name) : u[i] = IF i <= 1 THEN <<Underscore>>[i] ELSE name[i - 1]
    BY <2>2, ConcatProperties
  <2>4. u[1] = Underscore /\ u # <<>>
    BY <2>2, <2>3
  <2>5. \A i \in 1 .. Len(u) : u[i] \notin Forbidden
    <3> SUFFICES ASSUME NEW i \in 1 .. Len(u) PROVE u[i] \notin Forbidden
      OBVIOUS
    <3>1. CASE i = 1
      BY <2>4, <3>1, UnderscoreIsFine
    <3>2. CASE i # 1
      <4>1. i - 1 \in 1 .. Len(name) /\ u[i] = name[i - 1]
        BY <2>2, <2>3, <3>2
      <4> QED
        BY <4>1 DEF Allowed
    <3> QED
      BY <3>1, <3>2
  <2>6. u[Len(u)] \notin Dropped
    <3>1. CASE name = <<>>
      BY <2>2, <2>3, <2>4, <3>1, UnderscoreIsFine
    <3>2. CASE name # <<>>
      <4>1. Len(name) >= 1
        BY <2>2, <3>2
      <4>2. u[Len(u)] = name[Len(name)]
        BY <2>2, <2>3, <4>1
      <4> QED
        BY <3>2, <4>2
    <3> QED
      BY <3>1, <3>2
  <2>7. Head1(u, ".") # <<>> /\ Head1(u, ".")[1] = Underscore
    BY <2>3, <2>4, Head1Begins, UnderscoreIsFine
  <2>8. Head1(u, ".") \notin Reserved
    BY <2>7, PathMapAssumption
  <2> QED
    BY <2>1, <2>3, <2>5, <2>6, <2>8 DEF Allowed
<1>2. CASE Head1(name, ".") \notin Reserved
  BY <1>2 DEF Undeviced
<1> QED
  BY <1>1, <1>2

\* A name of any length that no file system shortens, and that is no way up or down and no
\* device.
WellNamed(name) ==
  /\ name \notin {<<>>, Dot, DotDot}
  /\ \A i \in DOMAIN name : name[i] \notin Forbidden
  /\ Last(name) \notin Dropped
  /\ Head1(name, ".") \notin Reserved

\* A text that begins with "_" and ends well is a good name.
LEMMA MarkedIsGood ==
  ASSUME NEW S, NEW word \in Seq(S), word # <<>>, word[1] = Underscore,
         \A i \in 1 .. Len(word) : word[i] \notin Forbidden,
         word[Len(word)] \notin Dropped
  PROVE  WellNamed(word)
<1>1. Head1(word, ".") \notin Reserved
  <2>1. Head1(word, ".") # <<>> /\ Head1(word, ".")[1] = Underscore
    BY Head1Begins, UnderscoreIsFine
  <2> QED
    BY <2>1, PathMapAssumption
<1>2. Last(word) \notin Dropped
  BY DEF Last
<1>3. Dot[1] # Underscore /\ DotDot[1] # Underscore
  BY DEF Dot, DotDot, Underscore
<1>4. DOMAIN word = 1 .. Len(word)
  OBVIOUS
<1> QED
  BY <1>1, <1>2, <1>3, <1>4 DEF WellNamed

LEMMA UnderscoredIsGood ==
  ASSUME NEW c, c \notin Forbidden, c \notin Dropped
  PROVE  WellNamed(<<Underscore, c>>)
<1> DEFINE word == <<Underscore, c>>
<1>1. word \in Seq({Underscore, c}) /\ Len(word) = 2 /\ word[1] = Underscore /\ word[2] = c
  OBVIOUS
<1>2. word # <<>> /\ word[Len(word)] \notin Dropped
  BY <1>1
<1>3. \A i \in 1 .. Len(word) : word[i] \notin Forbidden
  BY <1>1, UnderscoreIsFine
<1> HIDE DEF word
<1>4. WellNamed(word)
  BY <1>1, <1>2, <1>3, MarkedIsGood
<1> QED
  BY <1>4 DEF word

\* The marks that stand for "." and "..", and for no name at all, are good names.
LEMMA WordsAreGood ==
  /\ WellNamed(<<Underscore>>)
  /\ WellNamed(<<Underscore, "dot">>) /\ WellNamed(<<Underscore, "dotdot">>)
<1>1. Underscore \notin Forbidden /\ Underscore \notin Dropped
  BY UnderscoreIsFine
<1>3. WellNamed(<<Underscore>>)
  <2> DEFINE word == <<Underscore>>
  <2>1. word \in Seq({Underscore}) /\ Len(word) = 1 /\ word[1] = Underscore
    OBVIOUS
  <2>2. word # <<>> /\ word[Len(word)] \notin Dropped
    BY <1>1, <2>1
  <2>3. \A i \in 1 .. Len(word) : word[i] \notin Forbidden
    BY <1>1, <2>1
  <2> HIDE DEF word
  <2>4. WellNamed(word)
    BY <2>1, <2>2, <2>3, MarkedIsGood
  <2> QED
    BY <2>4 DEF word
<1>4. "dot" \notin Forbidden /\ "dot" \notin Dropped
  BY DEF Forbidden, Dropped, Space
<1>5. "dotdot" \notin Forbidden /\ "dotdot" \notin Dropped
  BY DEF Forbidden, Dropped, Space
<1> QED
  BY <1>3, <1>4, <1>5, UnderscoredIsGood

\* What sanitize_path_component() does before it cuts: a good name, whatever it is given.
LEMMA NamedIsGood ==
  ASSUME NEW S, Underscore \in S, NEW component \in Seq(S)
  PROVE  WellNamed(Named(component))
<1> DEFINE clean == Clean(component)
           marked == Marked(clean)
           named == Undeviced(marked)
<1>1. Allowed(S, clean)
  BY CleanAllowed
<1>2. Allowed(S, marked) /\ (marked # <<>> => marked[Len(marked)] \notin Dropped)
  BY <1>1, MarkedEnds
<1>3. /\ Allowed(S, named) /\ (named # <<>> => named[Len(named)] \notin Dropped)
      /\ Head1(named, ".") \notin Reserved
  BY <1>2, UndevicedIsNone
<1>4. Named(component) =
        CASE clean = <<".">>      -> <<Underscore, "dot">>
          [] clean = <<".", ".">> -> <<Underscore, "dotdot">>
          [] OTHER                -> IF named = <<>> THEN <<Underscore>> ELSE named
  BY DEF Named, Clean, Marked, Undeviced
<1>5. Named(component) \in {<<Underscore, "dot">>, <<Underscore, "dotdot">>, <<Underscore>>}
        \/ (Named(component) = named /\ named # <<>>)
  <2> HIDE DEF clean, named
  <2> QED
    BY <1>4
<1>6. ASSUME named # <<>> PROVE WellNamed(named)
  <2>1. named \in Seq(S) /\ DOMAIN named = 1 .. Len(named)
    BY <1>3 DEF Allowed
  <2>2. named \notin {<<>>, Dot, DotDot}
    <3>1. Dot[Len(Dot)] = "." /\ DotDot[Len(DotDot)] = "."
      BY DEF Dot, DotDot
    <3>2. "." \in Dropped
      BY DEF Dropped, Space
    <3>3. named[Len(named)] \notin Dropped
      BY <1>3, <1>6
    <3> QED
      BY <1>6, <3>1, <3>2, <3>3
  <2>3. \A i \in DOMAIN named : named[i] \notin Forbidden
    BY <1>3, <2>1 DEF Allowed
  <2>4. Last(named) \notin Dropped
    BY <1>3, <1>6 DEF Last
  <2> QED
    BY <1>3, <2>2, <2>3, <2>4 DEF WellNamed
<1> QED
  BY <1>5, <1>6, WordsAreGood

\* And a text of the same characters.
LEMMA NamedIsText ==
  ASSUME NEW S, Underscore \in S, "dot" \in S, "dotdot" \in S, NEW component \in Seq(S)
  PROVE  Named(component) \in Seq(S)
<1> DEFINE clean == Clean(component)
           marked == Marked(clean)
           named == Undeviced(marked)
<1>1. Allowed(S, named)
  BY CleanAllowed, MarkedEnds, UndevicedIsNone
<1>2. named \in Seq(S)
  BY <1>1 DEF Allowed
<1>3. Named(component) =
        CASE clean = <<".">>      -> <<Underscore, "dot">>
          [] clean = <<".", ".">> -> <<Underscore, "dotdot">>
          [] OTHER                -> IF named = <<>> THEN <<Underscore>> ELSE named
  BY DEF Named, Clean, Marked, Undeviced
<1>4. \/ Named(component) \in {<<Underscore, "dot">>, <<Underscore, "dotdot">>, <<Underscore>>}
      \/ Named(component) = named
  <2> HIDE DEF clean, named
  <2> QED
    BY <1>3
<1>5. \A c \in S : <<Underscore, c>> \in Seq(S) /\ <<Underscore>> \in Seq(S)
  OBVIOUS
<1> HIDE DEF named
<1> QED
  BY <1>2, <1>4, <1>5

\* Two texts that begin alike have one part in front of a character, if it is short.
LEMMA HeadsAlike ==
  ASSUME NEW S, NEW a \in Seq(S), NEW b \in Seq(S), NEW c, NEW n \in Nat,
         n <= Len(a), n <= Len(b), \A i \in 1 .. n : a[i] = b[i],
         Len(Head1(a, c)) < n
  PROVE  Head1(b, c) = Head1(a, c)
<1> DEFINE m == Find(a, c)
           k == Find(b, c)
<1>1. /\ m \in 0 .. Len(a) /\ Len(a) \in Nat
      /\ m # 0 => a[m] = c /\ \A i \in 1 .. m - 1 : a[i] # c
  BY FindFirst
<1>2. /\ k \in 0 .. Len(b) /\ Len(b) \in Nat
      /\ k = 0 => \A i \in 1 .. Len(b) : b[i] # c
      /\ k # 0 => b[k] = c /\ \A i \in 1 .. k - 1 : b[i] # c
  BY FindFirst
<1>3. m # 0
  BY <1>1 DEF Head1
<1>4. Head1(a, c) = SubSeq(a, 1, m - 1)
  BY <1>3 DEF Head1, Before
<1> HIDE DEF m, k
<1>5. \A i \in 1 .. m - 1 : a[i] \in S
  BY <1>1
<1>6. Len(SubSeq(a, 1, m - 1)) = m - 1
  BY <1>1, <1>3, <1>5, SubSeqProperties
<1>7. m \in 1 .. n
  BY <1>1, <1>3, <1>4, <1>6
<1>8. b[m] = c /\ \A i \in 1 .. m - 1 : b[i] # c
  BY <1>1, <1>7
<1>9. k = m
  <2>1. m \in 1 .. Len(b)
    BY <1>2, <1>7
  <2>2. k # 0
    BY <1>2, <1>8, <2>1
  <2>3. ~ (k < m)
    <3> SUFFICES ASSUME k < m PROVE FALSE
      OBVIOUS
    <3>1. k \in 1 .. m - 1
      BY <1>2, <1>7, <2>2
    <3> QED
      BY <1>2, <1>8, <2>2, <3>1
  <2>4. ~ (m < k)
    <3> SUFFICES ASSUME m < k PROVE FALSE
      OBVIOUS
    <3>1. m \in 1 .. k - 1
      BY <1>2, <1>7, <2>2
    <3> QED
      BY <1>2, <1>8, <2>2, <3>1
  <2> QED
    BY <1>2, <1>7, <2>3, <2>4
<1>10. SubSeq(b, 1, m - 1) = SubSeq(a, 1, m - 1)
  <2>1. \A i \in 1 .. m - 1 : b[i] = a[i]
    BY <1>7
  <2> QED
    BY <1>7, <2>1
<1>11. Head1(b, c) = SubSeq(b, 1, m - 1)
  BY <1>7, <1>9 DEF Head1, Before, k
<1> QED
  BY <1>4, <1>10, <1>11

\* An extension is the end of its name.
LEMMA ExtensionIs ==
  ASSUME NEW S, NEW name \in Seq(S), NEW limit \in Nat
  PROVE  /\ Extension(name, limit) \in Seq(S)
         /\ Len(Extension(name, limit)) <= limit
         /\ Len(Extension(name, limit)) <= Len(name)
         /\ \A i \in 1 .. Len(Extension(name, limit)) :
              Extension(name, limit)[i] = name[Len(name) - Len(Extension(name, limit)) + i]
         /\ Extension(name, limit) # <<>> => Extension(name, limit)[1] = "."
<1> DEFINE dot == RFind(name, ".")
           extension == Extension(name, limit)
<1>1. dot \in 0 .. Len(name) /\ Len(name) \in Nat /\ (dot # 0 => name[dot] = ".")
  BY FindLast
<1>2. extension = IF dot # 0 /\ Len(name) - dot + 1 <= limit THEN SubSeq(name, dot, Len(name)) ELSE <<>>
  BY DEF Extension, From
<1> HIDE DEF dot, extension
<1>3. CASE ~ (dot # 0 /\ Len(name) - dot + 1 <= limit)
  <2>1. extension = <<>>
    BY <1>2, <1>3
  <2> QED
    BY <1>1, <2>1 DEF extension
<1>4. CASE dot # 0 /\ Len(name) - dot + 1 <= limit
  <2>1. \A i \in dot .. Len(name) : name[i] \in S
    BY <1>1, <1>4
  <2>2. /\ extension \in Seq(S) /\ Len(extension) = Len(name) - dot + 1
        /\ \A i \in 1 .. Len(name) - dot + 1 : extension[i] = name[dot + i - 1]
    BY <1>1, <1>2, <1>4, <2>1, SubSeqProperties
  <2>3. \A i \in 1 .. Len(extension) : extension[i] = name[Len(name) - Len(extension) + i]
    <3> SUFFICES ASSUME NEW i \in 1 .. Len(extension)
                 PROVE  extension[i] = name[Len(name) - Len(extension) + i]
      OBVIOUS
    <3>1. Len(name) - Len(extension) + i = dot + i - 1
      BY <1>1, <2>2
    <3> QED
      BY <2>2, <3>1
  <2>4. extension[1] = "."
    <3>1. 1 \in 1 .. Len(name) - dot + 1 /\ dot + 1 - 1 = dot
      BY <1>1, <1>4
    <3> QED
      BY <1>1, <1>4, <2>2, <3>1
  <2> QED
    BY <1>1, <1>4, <2>2, <2>3, <2>4 DEF extension
<1> QED
  BY <1>3, <1>4

\* The limits, as far as they matter to names.
LEMMA NameLimits ==
  /\ NameLimit \in Nat /\ CutExtension \in Nat /\ ExtensionLimit \in Nat
  /\ PrefixLimit \in Nat /\ PathLimit \in Nat
  /\ 2 < PrefixLimit /\ PrefixLimit <= NameLimit
  /\ 2 + CutExtension < NameLimit /\ ExtensionLimit < NameLimit
  /\ PrefixLimit + ExtensionLimit + 5 <= PathLimit /\ NameLimit <= PathLimit
BY PathMapAssumption

LEMMA LongIsNoDot ==
  ASSUME NEW name, NEW n \in Nat, Len(name) = n, 2 < n
  PROVE  name \notin {<<>>, Dot, DotDot}
<1>1. Len(<<>>) = 0 /\ Len(Dot) = 1 /\ Len(DotDot) = 2
  BY DEF Dot, DotDot
<1>2. name # <<>>
  BY <1>1
<1>3. ASSUME name = Dot PROVE FALSE
  <2>1. Len(name) = Len(Dot)
    BY <1>3, Zenon
  <2> QED
    BY <1>1, <2>1
<1>4. ASSUME name = DotDot PROVE FALSE
  <2>1. Len(name) = Len(DotDot)
    BY <1>4, Zenon
  <2> QED
    BY <1>1, <2>1
<1> QED
  BY <1>2, <1>3, <1>4, Zenon

\* A name that is cut keeps its beginning and its end.
LEMMA CutIs ==
  ASSUME NEW S, NEW name \in Seq(S), Len(name) > NameLimit
  PROVE  /\ Cut(name) \in Seq(S) /\ Len(Cut(name)) = NameLimit
         /\ \A i \in 1 .. NameLimit - CutExtension : Cut(name)[i] = name[i]
         /\ \A i \in 1 .. NameLimit : \E j \in 1 .. Len(name) : Cut(name)[i] = name[j]
<1> DEFINE extension == Extension(name, CutExtension)
           e == Len(extension)
           k == NameLimit - e
           beginning == SubSeq(name, 1, k)
<1>1. /\ extension \in Seq(S) /\ e \in Nat /\ e <= CutExtension /\ e <= Len(name) /\ Len(name) \in Nat
      /\ \A i \in 1 .. e : extension[i] = name[Len(name) - e + i]
  BY NameLimits, ExtensionIs
<1>2. Cut(name) = beginning \o extension
  <2>1. ~ (Len(name) <= NameLimit)
    BY <1>1, NameLimits
  <2> QED
    BY <2>1 DEF Cut
<1> HIDE DEF extension
<1>3. k \in 1 .. NameLimit /\ NameLimit - CutExtension <= k /\ k < Len(name)
  BY <1>1, NameLimits
<1> HIDE DEF k
<1>4. \A i \in 1 .. k : name[i] \in S
  BY <1>1, <1>3
<1>5. beginning \in Seq(S) /\ Len(beginning) = k /\ \A i \in 1 .. k : beginning[i] = name[i]
  BY <1>1, <1>3, <1>4, SubSeqProperties
<1> HIDE DEF beginning
<1>6. /\ beginning \o extension \in Seq(S) /\ Len(beginning \o extension) = k + e
      /\ \A i \in 1 .. k + e : (beginning \o extension)[i] = IF i <= k THEN beginning[i] ELSE extension[i - k]
  BY <1>1, <1>5, ConcatProperties
<1>7. k + e = NameLimit
  BY <1>1, NameLimits DEF k
<1>8. \A i \in 1 .. k : Cut(name)[i] = name[i]
  <2> SUFFICES ASSUME NEW i \in 1 .. k PROVE Cut(name)[i] = name[i]
    OBVIOUS
  <2>1. i \in 1 .. k + e /\ i <= k
    BY <1>1, <1>3
  <2> QED
    BY <1>2, <1>5, <1>6, <2>1
<1>9. ASSUME NEW i \in 1 .. NameLimit
      PROVE  \E j \in 1 .. Len(name) : Cut(name)[i] = name[j]
  <2>1. CASE i <= k
    <3>1. i \in 1 .. k /\ i \in 1 .. Len(name)
      BY <1>1, <1>3, <2>1
    <3> QED
      BY <1>8, <3>1
  <2>2. CASE i > k
    <3>1. i \in 1 .. k + e /\ ~ (i <= k) /\ i - k \in 1 .. e
      BY <1>1, <1>3, <1>7, <2>2
    <3>2. Cut(name)[i] = extension[i - k]
      BY <1>2, <1>6, <3>1
    <3>3. Len(name) - e + (i - k) \in 1 .. Len(name)
      BY <1>1, <1>3, <3>1
    <3> QED
      BY <1>1, <3>1, <3>2, <3>3
  <2> QED
    BY <1>3, <2>1, <2>2
<1>10. \A i \in 1 .. NameLimit - CutExtension : i \in 1 .. k
  BY <1>3, NameLimits
<1> QED
  BY <1>2, <1>6, <1>7, <1>8, <1>9, <1>10

\* What is left of a good name is safe, and ends well if it has not been cut.
LEMMA CutIsSafe ==
  ASSUME NEW S, NEW name \in Seq(S), WellNamed(name)
  PROVE  Cut(name) \in Seq(S) /\ SafeName(Cut(name)) /\ EndsWell(Cut(name))
<1>1. Len(name) \in Nat /\ DOMAIN name = 1 .. Len(name)
  OBVIOUS
<1>2. CASE Len(name) <= NameLimit
  <2>1. Cut(name) = name
    BY <1>2 DEF Cut
  <2> QED
    BY <1>2, <2>1 DEF WellNamed, SafeName, EndsWell
<1>3. CASE Len(name) > NameLimit
  <2> DEFINE cut == Cut(name)
  <2>1. /\ cut \in Seq(S) /\ Len(cut) = NameLimit
        /\ \A i \in 1 .. NameLimit - CutExtension : cut[i] = name[i]
        /\ \A i \in 1 .. NameLimit : \E j \in 1 .. Len(name) : cut[i] = name[j]
    BY <1>3, CutIs
  <2> HIDE DEF cut
  <2>2. cut \notin {<<>>, Dot, DotDot}
    <3>1. NameLimit \in Nat /\ 2 < NameLimit
      BY NameLimits
    <3> QED
      BY <2>1, <3>1, LongIsNoDot
  <2>3. DOMAIN cut = 1 .. NameLimit
    BY <2>1
  <2>4. \A i \in DOMAIN cut : cut[i] \notin Forbidden
    BY <1>1, <2>1, <2>3 DEF WellNamed
  <2>5. Head1(cut, ".") \notin Reserved
    <3> SUFFICES ASSUME Head1(cut, ".") \in Reserved PROVE FALSE
      OBVIOUS
    <3>1. Len(Head1(cut, ".")) + CutExtension < NameLimit
      BY PathMapAssumption
    <3>2. Head1(cut, ".") \in Seq(S)
      <4>1. Find(cut, ".") \in 0 .. Len(cut) /\ Len(cut) \in Nat
        BY <2>1, FindFirst
      <4>2. \A i \in 1 .. Find(cut, ".") - 1 : cut[i] \in S
        BY <2>1, <4>1
      <4>3. Find(cut, ".") # 0 => SubSeq(cut, 1, Find(cut, ".") - 1) \in Seq(S)
        BY <2>1, <4>1, <4>2, SubSeqProperties
      <4> QED
        BY <2>1, <4>3 DEF Head1, Before
    <3>3. Len(Head1(cut, ".")) < NameLimit - CutExtension /\ NameLimit - CutExtension \in Nat
      BY <3>1, <3>2, NameLimits
    <3>4. NameLimit - CutExtension <= Len(cut) /\ NameLimit - CutExtension <= Len(name)
      BY <1>1, <1>3, <2>1, NameLimits
    <3>5. Head1(name, ".") = Head1(cut, ".")
      BY <2>1, <3>3, <3>4, HeadsAlike
    <3> QED
      BY <3>5 DEF WellNamed
  <2>6. Len(cut) <= NameLimit
    BY <2>1, NameLimits
  <2> QED
    BY <2>1, <2>2, <2>4, <2>5, <2>6 DEF SafeName, EndsWell, cut
<1> QED
  BY <1>1, <1>2, <1>3, NameLimits

\* sanitize_path_component() returns a safe name, whatever it is given: one that is not too
\* long, and that Windows takes as it is unless it has been cut.
THEOREM SanitizeIsSafe ==
  ASSUME NEW S, Underscore \in S, NEW component \in Seq(S)
  PROVE  SafeName(Sanitize(component)) /\ EndsWell(Sanitize(component))
<1> DEFINE T == S \cup {"dot", "dotdot"}
<1>1. Underscore \in T /\ "dot" \in T /\ "dotdot" \in T /\ component \in Seq(T)
  OBVIOUS
<1> HIDE DEF T
<1>2. Named(component) \in Seq(T) /\ WellNamed(Named(component))
  BY <1>1, NamedIsGood, NamedIsText
<1> QED
  BY <1>2, CutIsSafe DEF Sanitize

\* And a text of the same characters.
LEMMA SanitizeIsText ==
  ASSUME NEW S, Underscore \in S, "dot" \in S, "dotdot" \in S, NEW component \in Seq(S)
  PROVE  Sanitize(component) \in Seq(S)
<1>1. Named(component) \in Seq(S) /\ WellNamed(Named(component))
  BY NamedIsGood, NamedIsText
<1> QED
  BY <1>1, CutIsSafe DEF Sanitize

\* A name consists of its stem and its ending, and the stem is not empty.
LEMMA EndingIs ==
  ASSUME NEW S, NEW name \in Seq(S)
  PROVE  /\ Ending(name) \in Seq(S) /\ Len(Ending(name)) <= ExtensionLimit
         /\ Stem(name) \in Seq(S) /\ Stem(name) \o Ending(name) = name
         /\ name # <<>> => Stem(name) # <<>> /\ Stem(name)[1] = name[1]
         /\ Ending(name) # <<>> => Ending(name)[1] = "."
<1> DEFINE ending == Ending(name)
           n == Len(name) - Len(ending)
           stem == SubSeq(name, 1, n)
           dot == RFind(name, ".")
<1>1. /\ ending \in Seq(S) /\ Len(ending) \in Nat
      /\ Len(ending) <= ExtensionLimit /\ Len(ending) <= Len(name)
      /\ \A i \in 1 .. Len(ending) : ending[i] = name[Len(name) - Len(ending) + i]
      /\ ending # <<>> => ending[1] = "."
  <2>1. CASE dot = 1
    <3>1. ending = <<>>
      BY <2>1 DEF Ending
    <3>2. <<>> \in Seq(S) /\ Len(<<>>) = 0 /\ Len(name) \in Nat
      OBVIOUS
    <3> HIDE DEF ending
    <3> QED
      BY <3>1, <3>2, NameLimits
  <2>2. CASE dot # 1
    <3>1. ending = Extension(name, ExtensionLimit)
      BY <2>2 DEF Ending
    <3> HIDE DEF ending
    <3> QED
      BY <3>1, ExtensionIs, NameLimits
  <2> QED
    BY <2>1, <2>2
<1>2. Len(name) \in Nat /\ n \in 0 .. Len(name) /\ Len(ending) = Len(name) - n
  BY <1>1
<1>3. name # <<>> => n # 0
  <2>1. dot \in 0 .. Len(name)
    BY FindLast
  <2>2. ending = IF dot = 1 THEN <<>> ELSE Extension(name, ExtensionLimit)
    BY DEF Ending
  <2>3. CASE dot \in {0, 1}
    <3>1. ending = <<>>
      BY <2>2, <2>3 DEF Extension
    <3> HIDE DEF ending
    <3> QED
      BY <1>2, <3>1
  <2>4. CASE dot \notin {0, 1}
    <3>1. ending \in {<<>>, SubSeq(name, dot, Len(name))}
      BY <2>2, <2>4 DEF Extension, From
    <3>2. dot \in 2 .. Len(name) /\ \A i \in dot .. Len(name) : name[i] \in S
      BY <1>2, <2>1, <2>4
    <3>3. Len(SubSeq(name, dot, Len(name))) = Len(name) - dot + 1
      BY <1>2, <3>2, SubSeqProperties
    <3> HIDE DEF ending, dot
    <3> QED
      BY <1>2, <3>1, <3>2, <3>3
  <2> QED
    BY <2>1, <2>3, <2>4
<1> HIDE DEF n, ending
<1>4. \A i \in 1 .. n : name[i] \in S
  BY <1>2
<1>5. stem \in Seq(S) /\ Len(stem) = n /\ \A i \in 1 .. n : stem[i] = name[i]
  BY <1>2, <1>4, SubSeqProperties
<1> HIDE DEF stem
<1>6. stem \o ending = name
  <2>1. /\ stem \o ending \in Seq(S) /\ Len(stem \o ending) = n + Len(ending)
        /\ \A i \in 1 .. n + Len(ending) :
             (stem \o ending)[i] = IF i <= n THEN stem[i] ELSE ending[i - n]
    BY <1>1, <1>5, ConcatProperties
  <2>2. \A i \in 1 .. Len(name) : (stem \o ending)[i] = name[i]
    <3> SUFFICES ASSUME NEW i \in 1 .. Len(name) PROVE (stem \o ending)[i] = name[i]
      OBVIOUS
    <3>1. CASE i <= n
      <4>1. i \in 1 .. n /\ i \in 1 .. n + Len(ending)
        BY <1>2, <3>1
      <4> QED
        BY <1>5, <2>1, <3>1, <4>1
    <3>2. CASE ~ (i <= n)
      <4>1. /\ i - n \in 1 .. Len(ending) /\ i \in 1 .. n + Len(ending)
            /\ Len(name) - Len(ending) + (i - n) = i
        BY <1>2, <3>2
      <4>2. (stem \o ending)[i] = ending[i - n]
        BY <2>1, <3>2, <4>1
      <4>3. ending[i - n] = name[Len(name) - Len(ending) + (i - n)]
        BY <1>1, <4>1
      <4> QED
        BY <4>1, <4>2, <4>3
    <3> QED
      BY <3>1, <3>2
  <2>3. Len(stem \o ending) = Len(name)
    BY <1>2, <2>1
  <2> QED
    BY <2>1, <2>2, <2>3, SeqEqual
<1>7. name # <<>> => stem # <<>> /\ stem[1] = name[1]
  BY <1>2, <1>3, <1>5
<1>8. Stem(name) = stem
  BY DEF Stem, stem, n, ending
<1> QED
  BY <1>1, <1>5, <1>6, <1>7, <1>8 DEF ending

\* The file name is a sanitised text.
LEMMA LeafIsSanitized ==
  ASSUME NEW S, Words \subseteq S, NEW name \in Seq(S), NEW query, ShortHash(query) \in S, NEW kind
  PROVE  \E text \in Seq(S) : Leaf(name, query, kind) = Sanitize(text)
<1> DEFINE hash == IF query \in {None, <<>>} THEN <<>> ELSE <<"@", ShortHash(query)>>
           stem == Stem(name)
           ending == Ending(name)
           page == kind = "html" /\ ~IsHtml(ending)
           none == ending = <<>>
           added == CASE page                       -> <<".", "html">>
                      [] kind = "css" /\ none       -> <<".", "css">>
                      [] kind = "js" /\ none        -> <<".", "js">>
                      [] kind = "manifest" /\ none  -> <<".", "webmanifest">>
                      [] OTHER                      -> <<>>
<1>1. Leaf(name, query, kind) = Sanitize(stem \o hash \o ending \o added)
  BY DEF Leaf
<1>2. stem \in Seq(S) /\ ending \in Seq(S)
  BY EndingIs
<1>3. hash \in Seq(S)
  <2>1. "@" \in S
    BY DEF Words
  <2> QED
    BY <2>1
<1>4. added \in Seq(S)
  <2>1. /\ <<".", "html">> \in Seq(S) /\ <<".", "css">> \in Seq(S) /\ <<".", "js">> \in Seq(S)
        /\ <<".", "webmanifest">> \in Seq(S) /\ <<>> \in Seq(S)
    BY DEF Words
  <2> HIDE DEF page, none
  <2> QED
    BY <2>1
<1> HIDE DEF stem, hash, ending, added
<1>5. stem \o hash \in Seq(S)
  BY <1>2, <1>3, ConcatProperties
<1> DEFINE front == stem \o hash
<1> HIDE DEF front
<1>6. front \o ending \in Seq(S)
  BY <1>2, <1>5, ConcatProperties DEF front
<1> DEFINE most == front \o ending
<1> HIDE DEF most
<1>7. most \o added \in Seq(S)
  BY <1>4, <1>6, ConcatProperties DEF most
<1> QED
  BY <1>1, <1>7 DEF front, most

\* Names that every file system takes as they are.
SafeNames(S) == {name \in Seq(S) : SafeName(name)}
WholeNames(S) == {name \in SafeNames(S) : EndsWell(name)}

LEMMA UnderscoredIsWhole ==
  ASSUME NEW S, Underscore \in S, NEW c \in S, c \notin Forbidden, c \notin Dropped
  PROVE  <<Underscore, c>> \in WholeNames(S)
<1> DEFINE word == <<Underscore, c>>
<1>1. WellNamed(word)
  BY UnderscoredIsGood
<1>2. word \in Seq(S) /\ Len(word) = 2 /\ Last(word) = c
  BY DEF Last
<1> HIDE DEF word
<1>3. SafeName(word)
  BY <1>1, <1>2, NameLimits DEF WellNamed, SafeName
<1>4. EndsWell(word)
  BY <1>2 DEF EndsWell
<1> QED
  BY <1>2, <1>3, <1>4 DEF SafeNames, WholeNames, word

\* A host stays a text without its brackets.
LEMMA BareIsText ==
  ASSUME NEW S, NEW host \in Seq(S)
  PROVE  Bare(host) \in Seq(S)
<1>1. Len(host) \in Nat /\ \A i \in 2 .. Len(host) - 1 : host[i] \in S
  OBVIOUS
<1>2. SubSeq(host, 2, Len(host) - 1) \in Seq(S)
  BY <1>1, SubSeqProperties
<1> QED
  BY <1>2 DEF Bare

\* Every component of a path is a safe name, whatever the URL and whatever its segments
\* decode to, as long as the path is not shortened.
LEMMA FullPathIsSafe ==
  ASSUME NEW S, Words \subseteq S, \A e \in DOMAIN Unescaped : Unescaped[e] \in S,
         NEW url, NEW primary, NEW kind,
         url.scheme \in S, url.host \in Seq(S), ShowPort(url.port) \in S,
         ShortHash(url.query) \in S, Segments(url.path) \in Seq(Seq(S)),
         Last(url.path) = "/" \/ Segments(url.path) # <<>>
  PROVE  FullPath(url, primary, kind) \in Seq(WholeNames(S)) \ {<<>>}
<1> DEFINE Names == WholeNames(S)
           segments == Segments(url.path)
           decoded == [i \in DOMAIN segments |-> Sanitize(Decode(segments[i]))]
           external == IF SameOrigin(url, primary) THEN <<>> ELSE ExternalDir(url)
           names == external \o decoded
           directory == Last(url.path) = "/"
           above == IF directory THEN names ELSE Front(names)
           leaf == Leaf(IF directory THEN <<"index", ".", "html">> ELSE Last(names), url.query, kind)
<1>1. \A c \in Words : c \in S
  OBVIOUS
<1>2. Underscore \in S /\ "dot" \in S /\ "dotdot" \in S
  BY <1>1 DEF Words
<1>3. \A name \in Seq(S) : Sanitize(name) \in Names
  BY <1>2, SanitizeIsSafe, SanitizeIsText DEF SafeNames, WholeNames
<1>4. decoded \in Seq(Names) /\ Len(decoded) = Len(segments)
  <2>1. \A i \in DOMAIN segments : Sanitize(Decode(segments[i])) \in Names
    <3> SUFFICES ASSUME NEW i \in DOMAIN segments PROVE Sanitize(Decode(segments[i])) \in Names
      OBVIOUS
    <3> DEFINE s == segments[i]
    <3>1. s \in Seq(S)
      OBVIOUS
    <3> HIDE DEF s
    <3>2. DOMAIN s = 1 .. Len(s) /\ Len(s) \in Nat /\ \A k \in 1 .. Len(s) : s[k] \in S
      BY <3>1
    <3>3. Decode(s) \in [1 .. Len(s) -> S]
      BY <3>2 DEF Decode
    <3>4. Decode(s) \in Seq(S)
      BY <3>2, <3>3, FunctionIsSeq
    <3> QED
      BY <1>3, <3>4 DEF s
  <2>2. DOMAIN segments = 1 .. Len(segments) /\ Len(segments) \in Nat
    OBVIOUS
  <2> HIDE DEF segments, Names
  <2>3. decoded \in [1 .. Len(segments) -> Names]
    BY <2>1, <2>2
  <2> HIDE DEF decoded
  <2> QED
    BY <2>2, <2>3, FunctionIsSeq
<1>5. external \in Seq(Names)
  <2>1. <<Underscore, "external">> \in Names
    <3>1. "external" \in S /\ "external" \notin Forbidden /\ "external" \notin Dropped
      BY <1>1 DEF Words, Forbidden, Dropped, Space
    <3> QED
      BY <1>2, <3>1, UnderscoredIsWhole
  <2> DEFINE scheme == IF url.scheme = "https" THEN <<>> ELSE <<url.scheme, "_">>
             port == IF url.port = 0 THEN <<>> ELSE <<"_", ShowPort(url.port)>>
  <2>2. "_" \in S
    BY <1>2 DEF Underscore
  <2>3. scheme \in Seq(S) /\ port \in Seq(S)
    <3> DEFINE underscore == "_"
    <3>1. underscore \in S
      BY <2>2
    <3>2. /\ scheme = <<>> \/ scheme = <<url.scheme, underscore>>
          /\ port = <<>> \/ port = <<underscore, ShowPort(url.port)>>
      OBVIOUS
    <3> HIDE DEF underscore, scheme, port
    <3> QED
      BY <3>1, <3>2, ShortSeqs
  <2> HIDE DEF scheme, port
  <2>4. scheme \o Bare(url.host) \in Seq(S)
    <3>1. Bare(url.host) \in Seq(S)
      BY BareIsText
    <3> QED
      BY <2>3, <3>1, ConcatProperties
  <2>5. scheme \o Bare(url.host) \o port \in Seq(S)
    BY <2>3, <2>4, ConcatProperties
  <2>6. Sanitize(scheme \o Bare(url.host) \o port) \in Names
    BY <1>3, <2>5
  <2>7. ExternalDir(url) = << <<Underscore, "external">>, Sanitize(scheme \o Bare(url.host) \o port) >>
    BY DEF ExternalDir, scheme, port, Underscore
  <2> HIDE DEF Names
  <2> QED
    BY <2>1, <2>6, <2>7
<1>6. /\ names \in Seq(Names) /\ Len(names) >= Len(segments)
      /\ Len(names) \in Nat /\ Len(segments) \in Nat
  <2>1. Len(segments) \in Nat
    OBVIOUS
  <2> HIDE DEF Names, external, decoded, segments
  <2> QED
    BY <1>4, <1>5, <2>1, ConcatProperties
<1>7. ~ directory => Len(names) # 0
  <2>1. ~ directory => segments # <<>> /\ segments \in Seq(Seq(S))
    OBVIOUS
  <2> HIDE DEF Names, names, segments, directory
  <2> QED
    BY <1>6, <2>1
<1>8. above \in Seq(Names)
  <2> HIDE DEF Names, names, directory
  <2>1. \A i \in 1 .. Len(names) - 1 : names[i] \in Names
    BY <1>6
  <2>2. Front(names) \in Seq(Names)
    BY <1>6, <2>1, SubSeqProperties DEF Front
  <2> QED
    BY <1>6, <2>2
<1>9. leaf \in Names
  <2> DEFINE base == IF directory THEN <<"index", ".", "html">> ELSE Last(names)
  <2>1. base \in Seq(S)
    <3>1. <<"index", ".", "html">> \in Seq(S)
      BY <1>1 DEF Words
    <3>2. ~ directory => Last(names) \in Names
      <4> HIDE DEF Names, names, directory
      <4> QED
        BY <1>6, <1>7 DEF Last
    <3> QED
      BY <3>1, <3>2 DEF SafeNames, WholeNames
  <2> HIDE DEF base, Names
  <2>2. \E text \in Seq(S) : Leaf(base, url.query, kind) = Sanitize(text)
    <3> DEFINE query == url.query
    <3>1. ShortHash(query) \in S
      OBVIOUS
    <3> HIDE DEF query
    <3>2. \E text \in Seq(S) : Leaf(base, query, kind) = Sanitize(text)
      BY ONLY <2>1, <3>1, Words \subseteq S, LeafIsSanitized
    <3> QED
      BY <3>2 DEF query
  <2>3. Leaf(base, url.query, kind) \in Names
    BY <1>3, <2>2
  <2> QED
    BY <2>3 DEF base
<1>10. FullPath(url, primary, kind) = Append(above, leaf)
  BY DEF FullPath
<1> HIDE DEF above, leaf, Names
<1>11. Append(above, leaf) \in Seq(Names) /\ Append(above, leaf) # <<>>
  BY <1>8, <1>9, AppendProperties
<1> QED
  BY <1>10, <1>11 DEF Names

-----------------------------------------------------------------------------
(* Links.                                                                  *)

\* There is a longest common directory of two paths.
LEMMA CommonDirsShared ==
  ASSUME NEW S, NEW from \in Seq(S), NEW to \in Seq(S), from # <<>>, to # <<>>
  PROVE  /\ CommonDirs(from, to) \in 0 .. Len(from) - 1
         /\ CommonDirs(from, to) < Len(to)
         /\ SubSeq(from, 1, CommonDirs(from, to)) = SubSeq(to, 1, CommonDirs(from, to))
<1> DEFINE shared(n) == n < Len(to) /\ SubSeq(from, 1, n) = SubSeq(to, 1, n)
           T == {n \in 0 .. Len(from) - 1 : shared(n)}
<1>1. Len(from) \in Nat \ {0} /\ Len(to) \in Nat \ {0}
  OBVIOUS
<1>2. 0 \in T
  <2>1. SubSeq(from, 1, 0) = <<>> /\ SubSeq(to, 1, 0) = <<>>
    BY SubSeqEmpty
  <2> QED
    BY <1>1, <2>1
<1>3. T \in SUBSET (0 .. Len(from))
  BY <1>1
<1>4. Max(T) \in T /\ \A m \in T : m <= Max(T)
  <2> HIDE DEF T
  <2> QED
    BY <1>1, <1>2, <1>3, MaxIsGreatest
<1>5. /\ Max(T) \in 0 .. Len(from) - 1 /\ shared(Max(T))
      /\ \A m \in 0 .. Len(from) - 1 : shared(m) => m <= Max(T)
  BY <1>4
<1>6. CommonDirs(from, to) =
        CHOOSE n \in 0 .. Len(from) - 1 :
          shared(n) /\ \A m \in 0 .. Len(from) - 1 : shared(m) => m <= n
  BY DEF CommonDirs
<1> HIDE DEF T
<1>7. CommonDirs(from, to) \in 0 .. Len(from) - 1 /\ shared(CommonDirs(from, to))
  <2> HIDE DEF shared
  <2> QED
    BY <1>5, <1>6
<1> QED
  BY <1>7

\* relative_link(): climbing from the directory of a document, and going down again, leads
\* to the file that the link is for, wherever the two are.
THEOREM LinkLeadsBack ==
  ASSUME NEW S, NEW from \in Seq(S), NEW to \in Seq(S), from # <<>>, to # <<>>
  PROVE  Follow(from, Climb(from, to), Descent(from, to)) = to
<1> DEFINE n == CommonDirs(from, to)
<1>1. /\ n \in 0 .. Len(from) - 1 /\ n < Len(to)
      /\ SubSeq(from, 1, n) = SubSeq(to, 1, n)
  BY CommonDirsShared
<1>2. Len(from) \in Nat /\ Len(to) \in Nat /\ n \in Nat
  BY <1>1
<1>3. Len(from) - 1 - (Len(from) - 1 - n) = n
  BY <1>2
<1>4. Follow(from, Climb(from, to), Descent(from, to))
        = SubSeq(from, 1, n) \o SubSeq(to, n + 1, Len(to))
  BY <1>3 DEF Follow, Climb, Descent
<1> HIDE DEF n
<1>5. SubSeq(to, 1, n) \o SubSeq(to, n + 1, Len(to)) = SubSeq(to, 1, Len(to))
  <2>1. 1 \in 1 .. Len(to) + 1 /\ n \in 1 - 1 .. Len(to) /\ Len(to) \in n .. Len(to)
    BY <1>1, <1>2
  <2> QED
    BY <2>1, ConcatAdjacentSubSeq
<1> QED
  BY <1>1, <1>4, <1>5, SubSeqFull

\* It climbs no further than the root of the mirror.
THEOREM LinkStaysInside ==
  ASSUME NEW S, NEW from \in Seq(S), NEW to \in Seq(S), from # <<>>, to # <<>>
  PROVE  Climb(from, to) \in 0 .. Len(from) - 1
<1>1. CommonDirs(from, to) \in 0 .. Len(from) - 1 /\ Len(from) \in Nat
  BY CommonDirsShared
<1> QED
  BY <1>1 DEF Climb

-----------------------------------------------------------------------------
(* Induction over numbers, and folds.                                      *)

\* A set that contains 0 and with each number the next contains all.
LEMMA AllNumbers ==
  ASSUME NEW N \in Nat, NEW T, 0 \in T, \A n \in 0 .. N - 1 : n \in T => n + 1 \in T
  PROVE  0 .. N \subseteq T
<1> DEFINE bad == {n \in 0 .. N : n \notin T}
<1>1. ASSUME bad # {} PROVE FALSE
  <2>0. bad \in SUBSET Nat
    OBVIOUS
  <2>1. PICK n \in bad : \A m \in bad : n <= m
    BY <1>1, <2>0, MinIsLeast
  <2>2. n # 0 /\ n - 1 \in 0 .. N - 1 /\ n - 1 \in 0 .. N /\ (n - 1) + 1 = n /\ ~(n <= n - 1)
    BY <2>1
  <2>3. n - 1 \notin bad
    BY <2>1, <2>2
  <2>4. n - 1 \in T
    BY <2>2, <2>3
  <2>5. n \in T
    BY <2>2, <2>4
  <2> QED
    BY <2>1, <2>5
<1> QED
  BY <1>1

\* A function that takes its values one after the other, each from the one before.
StepByStep(f, N, base, step) == f[0] = base /\ \A n \in 1 .. N : f[n] = step[<<f[n - 1], n>>]

\* There is one.
LEMMA FoldExists ==
  ASSUME NEW T, NEW N \in Nat, NEW base \in T, NEW step \in [T \X (1 .. N) -> T]
  PROVE  \E f \in [0 .. N -> T] : StepByStep(f, N, base, step)
<1> DEFINE Right(f, n) == f[n] = IF n = 0 THEN base ELSE step[<<f[n - 1], n>>]
           good == {m \in 0 .. N : \E f \in [0 .. N -> T] : \A n \in 0 .. m : Right(f, n)}
<1>1. 0 \in good
  <2> DEFINE f == [n \in 0 .. N |-> base]
  <2>1. f \in [0 .. N -> T] /\ f[0] = base /\ 0 \in 0 .. N
    OBVIOUS
  <2> HIDE DEF f
  <2>2. \A n \in 0 .. 0 : Right(f, n)
    BY <2>1
  <2> QED
    BY <2>1, <2>2
<1>2. ASSUME NEW m \in 0 .. N - 1, m \in good PROVE m + 1 \in good
  <2>1. PICK f \in [0 .. N -> T] : \A n \in 0 .. m : Right(f, n)
    BY <1>2
  <2>2. m \in 0 .. N /\ m + 1 \in 1 .. N /\ m + 1 \in 0 .. N /\ m + 1 # 0 /\ (m + 1) - 1 = m
    OBVIOUS
  <2>3. step[<<f[m], m + 1>>] \in T
    BY <2>2
  <2> DEFINE new == step[<<f[m], m + 1>>]
             g == [f EXCEPT ![m + 1] = new]
  <2>4. g \in [0 .. N -> T] /\ g[m + 1] = new /\ \A n \in 0 .. m : g[n] = f[n]
    BY <2>2, <2>3
  <2> HIDE DEF g
  <2>5. ASSUME NEW n \in 0 .. m PROVE Right(g, n)
    <3>1. Right(f, n) /\ g[n] = f[n]
      BY <2>1, <2>4
    <3>2. n = 0 \/ n - 1 \in 0 .. m
      BY <2>2
    <3>3. n = 0 \/ g[n - 1] = f[n - 1]
      BY <2>4, <3>2
    <3> QED
      BY <3>1, <3>3, Zenon
  <2>6. Right(g, m + 1)
    <3>1. g[m] = f[m]
      BY <2>2, <2>4
    <3> QED
      BY <2>2, <2>4, <3>1
  <2>7. \A n \in 0 .. m + 1 : Right(g, n)
    <3>1. \A n \in 0 .. m + 1 : n \in 0 .. m \/ n = m + 1
      BY <2>2
    <3> QED
      BY <2>5, <2>6, <3>1
  <2> QED
    BY <2>2, <2>4, <2>7
<1>3. N \in good
  <2>1. N \in 0 .. N
    OBVIOUS
  <2> HIDE DEF good
  <2>2. 0 .. N \subseteq good
    BY <1>1, <1>2, AllNumbers
  <2> QED
    BY <2>1, <2>2
<1>4. PICK f \in [0 .. N -> T] : \A n \in 0 .. N : Right(f, n)
  BY <1>3
<1>5. f[0] = base
  <2>1. 0 \in 0 .. N
    OBVIOUS
  <2> QED
    BY <1>4, <2>1
<1>6. ASSUME NEW n \in 1 .. N PROVE f[n] = step[<<f[n - 1], n>>]
  <2>1. n \in 0 .. N /\ n # 0
    OBVIOUS
  <2> QED
    BY <1>4, <2>1
<1> QED
  BY <1>5, <1>6 DEF StepByStep

-----------------------------------------------------------------------------
(* Pieces put together.                                                    *)

\* A function that puts the pieces together one after the other.
Gathers(f, pieces) ==
  f = [i \in 1 .. Len(pieces) |-> IF i = 1 THEN pieces[i] ELSE f[i - 1] \o pieces[i]]

\* There is one.
LEMMA GathersExists ==
  ASSUME NEW S, NEW pieces \in Seq(Seq(S)), pieces # <<>>
  PROVE  \E f \in [1 .. Len(pieces) -> Seq(S)] : Gathers(f, pieces)
<1> DEFINE L == Len(pieces)
           T == Seq(S)
           step == [x \in T \X (1 .. L) |-> IF x[2] = 1 THEN pieces[1] ELSE x[1] \o pieces[x[2]]]
<1>1. L \in Nat /\ <<>> \in T /\ \A i \in 1 .. L : pieces[i] \in T
  OBVIOUS
<1>2. step \in [T \X (1 .. L) -> T]
  BY <1>1
<1>3. \A t \in T, i \in 1 .. L : step[<<t, i>>] = IF i = 1 THEN pieces[i] ELSE t \o pieces[i]
  OBVIOUS
<1> HIDE DEF step, T, L
<1>4. PICK f \in [0 .. L -> T] : StepByStep(f, L, <<>>, step)
  BY <1>1, <1>2, FoldExists
<1> DEFINE g == [i \in 1 .. L |-> f[i]]
<1>5. g \in [1 .. L -> T]
  BY <1>1, <1>4
<1>6. ASSUME NEW i \in 1 .. L PROVE g[i] = IF i = 1 THEN pieces[i] ELSE g[i - 1] \o pieces[i]
  <2>1. i - 1 \in 0 .. L /\ (i = 1 \/ i - 1 \in 1 .. L)
    BY <1>1
  <2>2. f[i] = step[<<f[i - 1], i>>] /\ f[i - 1] \in T
    BY <1>4, <2>1 DEF StepByStep
  <2> QED
    BY <1>3, <2>1, <2>2
<1>7. g = [i \in 1 .. L |-> IF i = 1 THEN pieces[i] ELSE g[i - 1] \o pieces[i]]
  BY <1>6
<1> QED
  BY <1>5, <1>7 DEF Gathers, L, T

\* It puts the first pieces together in the same way, whatever comes after them.
LEMMA GathersAgree ==
  ASSUME NEW f, NEW g, NEW p, NEW q, Len(p) \in Nat, Len(q) \in Nat,
         Gathers(f, p), Gathers(g, q), Len(p) <= Len(q),
         \A i \in 1 .. Len(p) : p[i] = q[i]
  PROVE  \A i \in 1 .. Len(p) : f[i] = g[i]
<1> DEFINE bad == {i \in 1 .. Len(p) : f[i] # g[i]}
<1>1. SUFFICES ASSUME bad # {} PROVE FALSE
  OBVIOUS
<1>2. bad \in SUBSET Nat
  OBVIOUS
<1>3. PICK i \in bad : \A j \in bad : i <= j
  BY <1>1, <1>2, MinIsLeast
<1>4. i \in 1 .. Len(p) /\ i \in 1 .. Len(q) /\ p[i] = q[i]
  BY <1>3
<1>5. f[i] = IF i = 1 THEN p[i] ELSE f[i - 1] \o p[i]
  BY <1>4, Zenon DEF Gathers
<1>6. g[i] = IF i = 1 THEN q[i] ELSE g[i - 1] \o q[i]
  BY <1>4, Zenon DEF Gathers
<1>7. i # 1
  BY <1>3, <1>4, <1>5, <1>6
<1>8. f[i - 1] = g[i - 1]
  BY <1>3, <1>4, <1>7
<1>9. QED
  BY <1>3, <1>4, <1>5, <1>6, <1>7, <1>8

\* FlattenSeq is what such a function ends with.
LEMMA Flattened ==
  ASSUME NEW S, NEW pieces \in Seq(Seq(S)), pieces # <<>>
  PROVE  \E f \in [1 .. Len(pieces) -> Seq(S)] :
           Gathers(f, pieces) /\ FlattenSeq(pieces) = f[Len(pieces)]
<1>1. Len(pieces) \in Nat \ {0}
  OBVIOUS
<1>2. PICK f \in [1 .. Len(pieces) -> Seq(S)] : Gathers(f, pieces)
  BY GathersExists
<1>3. PICK g : Gathers(g, pieces) /\ FlattenSeq(pieces) = g[Len(pieces)]
  <2>1. Len(pieces) # 0
    BY <1>1
  <2>2. QED
    BY <1>2, <2>1 DEF FlattenSeq, Gathers
<1>4. f[Len(pieces)] = g[Len(pieces)]
  <2>1. \A i \in 1 .. Len(pieces) : f[i] = g[i]
    <3>1. Len(pieces) <= Len(pieces) /\ Len(pieces) \in Nat
      BY <1>1
    <3>2. QED
      BY <1>2, <1>3, <3>1, GathersAgree, Zenon
  <2>2. QED
    BY <1>1, <2>1
<1>5. QED
  BY <1>2, <1>3, <1>4

LEMMA FlattenNone == FlattenSeq(<<>>) = <<>>
BY DEF FlattenSeq

\* One piece more is put at the end.
LEMMA FlattenOneMore ==
  ASSUME NEW S, NEW parts \in Seq(Seq(S)), NEW part \in Seq(S)
  PROVE  /\ FlattenSeq(parts) \in Seq(S)
         /\ FlattenSeq(Append(parts, part)) = FlattenSeq(parts) \o part
<1> DEFINE more == Append(parts, part)
           n == Len(parts)
<1>1. /\ more \in Seq(Seq(S)) /\ more # <<>> /\ Len(more) = n + 1 /\ more[n + 1] = part /\ n \in Nat
      /\ \A i \in 1 .. n : parts[i] = more[i]
  BY AppendProperties
<1>2. n + 1 \in 1 .. Len(more) /\ (n + 1) - 1 = n
  BY <1>1
<1> HIDE DEF more
<1>3. PICK g \in [1 .. Len(more) -> Seq(S)] : Gathers(g, more) /\ FlattenSeq(more) = g[Len(more)]
  BY <1>1, Flattened
<1>4. FlattenSeq(more) = IF n + 1 = 1 THEN part ELSE g[(n + 1) - 1] \o part
  BY <1>1, <1>2, <1>3, Zenon DEF Gathers
<1>5. CASE parts = <<>>
  <2>1. n = 0 /\ FlattenSeq(parts) = <<>>
    BY <1>5, FlattenNone
  <2> QED
    BY <1>4, <2>1 DEF more
<1>6. CASE parts # <<>>
  <2>1. n \in 1 .. n /\ n + 1 # 1 /\ n <= Len(more) /\ Len(more) \in Nat
    BY <1>1, <1>6
  <2>2. PICK f \in [1 .. n -> Seq(S)] : Gathers(f, parts) /\ FlattenSeq(parts) = f[n]
    BY <1>6, Flattened
  <2>3. \A i \in 1 .. Len(parts) : f[i] = g[i]
    <3>1. /\ Gathers(f, parts) /\ Gathers(g, more)
          /\ Len(parts) <= Len(more) /\ Len(parts) \in Nat /\ Len(more) \in Nat
          /\ \A i \in 1 .. Len(parts) : parts[i] = more[i]
      BY <1>1, <1>3, <2>1, <2>2
    <3> QED
      BY <3>1, GathersAgree
  <2>4. f[n] = g[n] /\ f[n] \in Seq(S)
    BY <2>1, <2>2, <2>3
  <2> QED
    BY <1>2, <1>4, <2>1, <2>2, <2>4, Zenon DEF more
<1> QED
  BY <1>5, <1>6

\* What the first n of the pieces make.
Begun(pieces, n) == IF n = 0 THEN <<>> ELSE FlattenSeq(SubSeq(pieces, 1, n))

LEMMA OneMore ==
  ASSUME NEW S, NEW pieces \in Seq(Seq(S)), NEW n \in 0 .. Len(pieces) - 1
  PROVE  /\ Begun(pieces, n) \in Seq(S)
         /\ Begun(pieces, n + 1) = Begun(pieces, n) \o pieces[n + 1]
<1> DEFINE p == SubSeq(pieces, 1, n)
<1>0. n \in Nat /\ n + 1 \in 1 .. Len(pieces) /\ n + 1 # 0 /\ (n + 1) - 1 = n /\ pieces[n + 1] \in Seq(S)
  OBVIOUS
<1>1. p \in Seq(Seq(S)) /\ (n = 0 => p = <<>>) /\ SubSeq(pieces, 1, n + 1) = Append(p, pieces[n + 1])
  <2>1. p \in Seq(Seq(S)) /\ Len(p) = n /\ \A i \in 1 .. n : p[i] = pieces[i]
    BY <1>0
  <2> DEFINE q == SubSeq(pieces, 1, n + 1)
             more == Append(p, pieces[n + 1])
  <2>2. q \in Seq(Seq(S)) /\ Len(q) = n + 1 /\ \A i \in 1 .. n + 1 : q[i] = pieces[i]
    BY <1>0
  <2> HIDE DEF p, q
  <2>3. /\ more \in Seq(Seq(S)) /\ Len(more) = n + 1
        /\ \A i \in 1 .. n + 1 : more[i] = IF i = n + 1 THEN pieces[i] ELSE p[i]
    BY <1>0, <2>1, AppendProperties
  <2> HIDE DEF more
  <2>4. \A i \in 1 .. n + 1 : q[i] = more[i]
    <3>1. \A i \in 1 .. n + 1 : i = n + 1 \/ i \in 1 .. n
      BY <1>0
    <3> QED
      BY <2>1, <2>2, <2>3, <3>1
  <2>5. q = more
    BY <2>2, <2>3, <2>4, SeqEqual, SMTT(30)
  <2> QED
    BY <2>1, <2>5 DEF q, more
<1> HIDE DEF p
<1>2. Begun(pieces, n) = FlattenSeq(p)
  BY <1>1, FlattenNone DEF Begun, p
<1> QED
  BY <1>0, <1>1, <1>2, FlattenOneMore DEF Begun

-----------------------------------------------------------------------------
(* The preview server.                                                     *)

\* The variables are functions of the clients.
Shape ==
  /\ DOMAIN client = Clients /\ DOMAIN request = Clients /\ DOMAIN unsent = Clients
  /\ DOMAIN buffered = Clients /\ DOMAIN thread = Clients /\ DOMAIN got = Clients
  /\ DOMAIN reply = Clients /\ DOMAIN delivered = Clients
  /\ \A c \in Clients : request[c] \in Requests

\* A client has a thread from when it is accepted.
Attended(c) ==
  /\ client[c] \in {"new", "waiting", "open", "closed"}
  /\ client[c] \in {"new", "waiting"} => thread[c] = "none"
  /\ client[c] = "open" =>
       thread[c] \in {"recv", "parse", "head", "body", "close", "done"}

\* Until the request is complete, what was read and what is there to be read are the
\* pieces that were sent, in order.
Reading(c) ==
  client[c] # "closed" /\ thread[c] \in {"none", "recv"} =>
    /\ delivered[c] = <<>>
    /\ got[c] \in Seq(STRING) /\ buffered[c] \in Seq(STRING)
    /\ \E n \in 0 .. Len(request[c].pieces) :
         /\ unsent[c] = SubSeq(request[c].pieces, n + 1, Len(request[c].pieces))
         /\ got[c] \o buffered[c] = Begun(request[c].pieces, n)

\* Then it was all sent and all read, and so much of the answer to it is delivered as the
\* thread has gone through.
Replying(c) ==
  client[c] = "open" /\ thread[c] # "recv" =>
    /\ unsent[c] = <<>> /\ got[c] = FlattenSeq(request[c].pieces)
    /\ thread[c] # "parse" => reply[c] = request[c].answer
    /\ delivered[c] = CASE thread[c] \in {"parse", "head"} -> <<>>
                        [] thread[c] = "body" -> <<"head">>
                        [] OTHER -> IF reply[c].body THEN <<"head", "body">> ELSE <<"head">>
    /\ thread[c] = "body" => reply[c].body

ServeInv == Shape /\ \A c \in Clients : Attended(c) /\ Reading(c) /\ Replying(c)

\* The pieces of a request, and the answer to it.
LEMMA RequestWhole ==
  ASSUME WholeRequests, NEW r \in Requests
  PROVE  /\ r.pieces \in Seq(Seq(STRING)) /\ Len(r.pieces) \in Nat \ {0}
         /\ \A n \in 1 .. Len(r.pieces) :
              /\ Begun(r.pieces, n) \in Seq(STRING) /\ Begun(r.pieces, n) # <<>>
              /\ Complete(Begun(r.pieces, n)) <=> n = Len(r.pieces)
         /\ Begun(r.pieces, Len(r.pieces)) = FlattenSeq(r.pieces)
         /\ FlattenSeq(r.pieces) # <<>>
         /\ Answer[FlattenSeq(r.pieces)] = r.answer
<1> DEFINE p == r.pieces
<1>1. /\ p \in Seq(Seq(STRING) \ {<<>>}) /\ p # <<>>
      /\ \A n \in 1 .. Len(p) : Complete(FlattenSeq(SubSeq(p, 1, n))) <=> n = Len(p)
      /\ Answered(FlattenSeq(p)) = r.answer
  BY Zenon DEF WholeRequests
<1> HIDE DEF p
<1>2. Len(p) \in Nat \ {0} /\ \A i \in 1 .. Len(p) : p[i] \in Seq(STRING) /\ p[i] # <<>>
  BY <1>1
<1>3. p \in Seq(Seq(STRING))
  BY <1>1
<1>4. ASSUME NEW n \in 1 .. Len(p)
      PROVE  /\ Begun(p, n) = FlattenSeq(SubSeq(p, 1, n))
             /\ Begun(p, n) \in Seq(STRING) /\ Begun(p, n) # <<>>
             /\ Complete(Begun(p, n)) <=> n = Len(p)
  <2>1. n # 0 /\ n - 1 \in 0 .. Len(p) - 1 /\ (n - 1) + 1 = n
    BY <1>2
  <2>2. Begun(p, n) = FlattenSeq(SubSeq(p, 1, n))
    BY <2>1 DEF Begun
  <2>3. Begun(p, n - 1) \in Seq(STRING) /\ Begun(p, n) = Begun(p, n - 1) \o p[n]
    BY <1>3, <2>1, OneMore
  <2>4. p[n] \in Seq(STRING) /\ p[n] # <<>>
    BY <1>2
  <2>5. Begun(p, n) \in Seq(STRING) /\ Begun(p, n) # <<>>
    BY <2>3, <2>4
  <2>6. QED
    BY <1>1, <2>2, <2>5
<1>5. SubSeq(p, 1, Len(p)) = p
  BY <1>3
<1>6. Len(p) \in 1 .. Len(p)
  BY <1>2
<1>7. Begun(p, Len(p)) = FlattenSeq(p)
  BY <1>4, <1>5, <1>6
<1>8. Answer[FlattenSeq(p)] = Answered(FlattenSeq(p))
  <2>1. FlattenSeq(p) \in Texts
    <3>1. \E n \in 1 .. Len(p) : FlattenSeq(p) = FlattenSeq(SubSeq(p, 1, n))
      BY <1>5, <1>6, Zenon
    <3>2. FlattenSeq(p) \in {FlattenSeq(SubSeq(r.pieces, 1, n)) : n \in 1 .. Len(r.pieces)}
      BY <3>1, Zenon DEF p
    <3>3. QED
      BY <3>2, Zenon DEF Texts
  <2>2. QED
    BY <2>1, Zenon DEF Answer
<1>9. FlattenSeq(p) # <<>>
  BY <1>4, <1>6, <1>7
<1>10. QED
  BY <1>1, <1>2, <1>3, <1>4, <1>7, <1>8, <1>9, Zenon DEF p

\* A client is as it was when nothing of it changes.
LEMMA Untouched ==
  ASSUME NEW d \in Clients, Attended(d) /\ Reading(d) /\ Replying(d), request' = request,
         client'[d] = client[d], unsent'[d] = unsent[d], buffered'[d] = buffered[d],
         thread'[d] = thread[d], got'[d] = got[d], reply'[d] = reply[d],
         delivered'[d] = delivered[d]
  PROVE  Attended(d)' /\ Reading(d)' /\ Replying(d)'
<1>1. Attended(d)'
  BY DEF Attended
<1>2. Reading(d)'
  BY Zenon DEF Reading
<1>3. Replying(d)'
  BY Zenon DEF Replying
<1>4. QED
  BY <1>1, <1>2, <1>3

\* Nobody has sent anything yet.
LEMMA ServeInit == WholeRequests /\ Init => ServeInv
<1>1. SUFFICES ASSUME WholeRequests, Init PROVE ServeInv
  OBVIOUS
<1>2. Shape
  BY <1>1 DEF Init, Shape
<1>3. ASSUME NEW c \in Clients PROVE Attended(c) /\ Reading(c) /\ Replying(c)
  <2>1. client[c] = "new" /\ thread[c] = "none" /\ delivered[c] = <<>> /\ got[c] = <<>>
        /\ buffered[c] = <<>> /\ unsent[c] = request[c].pieces /\ request[c] \in Requests
    BY <1>1 DEF Init
  <2>2. Attended(c) /\ Replying(c)
    BY <2>1 DEF Attended, Replying
  <2> DEFINE p == request[c].pieces
  <2>3. p \in Seq(Seq(STRING)) /\ Len(p) \in Nat
    BY <1>1, <2>1, RequestWhole
  <2> HIDE DEF p
  <2>4. 0 \in 0 .. Len(p) /\ p = SubSeq(p, 0 + 1, Len(p))
    BY <2>3
  <2>5. got[c] \o buffered[c] = Begun(p, 0)
    BY <2>1 DEF Begun
  <2>6. unsent[c] = p
    BY <2>1 DEF p
  <2>7. Reading(c)
    <3>1. \E n \in 0 .. Len(p) : unsent[c] = SubSeq(p, n + 1, Len(p))
                                 /\ got[c] \o buffered[c] = Begun(p, n)
      BY <2>4, <2>5, <2>6
    <3>2. got[c] \in Seq(STRING) /\ buffered[c] \in Seq(STRING)
      BY <2>1
    <3>3. QED
      BY <2>1, <3>1, <3>2, Zenon DEF Reading, p
  <2>8. QED
    BY <2>2, <2>7
<1>4. QED
  BY <1>2, <1>3 DEF ServeInv

\* The first of the pieces that are left, and those that are left after it.
LEMMA NextPiece ==
  ASSUME NEW S, NEW p \in Seq(S), NEW n \in 0 .. Len(p) - 1
  PROVE  /\ SubSeq(p, n + 1, Len(p))[1] = p[n + 1]
         /\ Tail(SubSeq(p, n + 1, Len(p))) = SubSeq(p, (n + 1) + 1, Len(p))
<1>1. n + 1 \in 1 .. Len(p) /\ Len(p) \in n + 1 .. Len(p)
  OBVIOUS
<1>2. Len(SubSeq(p, n + 1, Len(p))) # 0
  BY <1>1
<1>3. QED
  BY <1>1, <1>2, HeadTailOfSubSeq

\* Three texts joined are the same however they are grouped.
LEMMA Joined ==
  \A a, b, d \in Seq(STRING) : (a \o b) \o d = a \o (b \o d)
<1>1. SUFFICES ASSUME NEW a \in Seq(STRING), NEW b \in Seq(STRING), NEW d \in Seq(STRING)
               PROVE  (a \o b) \o d = a \o (b \o d)
  OBVIOUS
<1>2. QED
  BY ConcatAssociative

\* Two things, one after the other.
LEMMA InTurn ==
  ASSUME NEW S, NEW x \in S, NEW y \in S
  PROVE  Append(<<x>>, y) = <<x, y>>
<1> DEFINE a == Append(<<x>>, y)
           b == <<x, y>>
<1>1. b \in Seq(S) /\ Len(b) = 2 /\ b[1] = x /\ b[2] = y
  OBVIOUS
<1>2. a \in Seq(S) /\ Len(a) = 2
  OBVIOUS
<1>3. a[1] = x /\ a[2] = y
  OBVIOUS
<1> HIDE DEF a, b
<1>4. \A i \in 1 .. Len(a) : a[i] = b[i]
  BY <1>1, <1>2, <1>3
<1>5. a = b
  BY <1>1, <1>2, <1>4, SeqEqual
<1>6. QED
  BY <1>5 DEF a, b

\* A piece more is sent.
LEMMA ServeSend ==
  ASSUME WholeRequests, ServeInv, NEW c \in Clients, Send(c)
  PROVE  ServeInv'
<1>1. Shape /\ Attended(c) /\ Reading(c) /\ Replying(c)
  BY DEF ServeInv
<1>2. /\ client[c] \in {"waiting", "open"} /\ unsent[c] # <<>>
      /\ unsent' = [unsent EXCEPT ![c] = Tail(@)]
      /\ buffered' = [buffered EXCEPT ![c] = @ \o unsent[c][1]]
      /\ UNCHANGED <<server, client, request, thread, open, got, reply, delivered>>
  BY DEF Send
<1>3. Shape'
  BY <1>1, <1>2 DEF Shape
<1>4. thread[c] \in {"none", "recv"}
  BY <1>1, <1>2 DEF Attended, Replying
<1> DEFINE p == request[c].pieces
<1>5. request[c] \in Requests
  BY <1>1 DEF Shape
<1>6. p \in Seq(Seq(STRING)) /\ Len(p) \in Nat
  BY <1>5, RequestWhole
<1>7. PICK n \in 0 .. Len(p) : unsent[c] = SubSeq(p, n + 1, Len(p))
                               /\ got[c] \o buffered[c] = Begun(p, n)
  BY <1>1, <1>2, <1>4, Zenon DEF Reading
<1>8. delivered[c] = <<>> /\ got[c] \in Seq(STRING) /\ buffered[c] \in Seq(STRING)
  BY <1>1, <1>2, <1>4 DEF Reading
<1> HIDE DEF p
<1>9. n \in 0 .. Len(p) - 1
  BY <1>2, <1>6, <1>7
<1>10. unsent[c][1] = p[n + 1] /\ Tail(unsent[c]) = SubSeq(p, (n + 1) + 1, Len(p))
       /\ p[n + 1] \in Seq(STRING)
  <2>1. p[n + 1] \in Seq(STRING)
    BY <1>6, <1>9
  <2>2. QED
    BY <1>6, <1>7, <1>9, <2>1, NextPiece
<1>11. unsent'[c] = SubSeq(p, (n + 1) + 1, Len(p)) /\ buffered'[c] = buffered[c] \o p[n + 1]
  BY <1>1, <1>2, <1>10 DEF Shape
<1>12. got[c] \o buffered'[c] = Begun(p, n + 1) /\ buffered'[c] \in Seq(STRING)
  <2>1. Begun(p, n + 1) = Begun(p, n) \o p[n + 1]
    BY <1>6, <1>9, OneMore
  <2>2. Begun(p, n + 1) = (got[c] \o buffered[c]) \o p[n + 1]
    BY <1>7, <2>1
  <2>3. (got[c] \o buffered[c]) \o p[n + 1] = got[c] \o (buffered[c] \o p[n + 1])
    <3>1. got[c] \in Seq(STRING) /\ buffered[c] \in Seq(STRING) /\ p[n + 1] \in Seq(STRING)
      BY <1>8, <1>10, Zenon
    <3> HIDE DEF p
    <3>2. QED
      BY <3>1, Joined, Zenon
  <2>4. buffered'[c] \in Seq(STRING)
    <3>1. buffered[c] \o p[n + 1] \in Seq(STRING)
      BY <1>8, <1>10
    <3>2. QED
      BY <1>11, <3>1, Zenon
  <2>5. QED
    BY <1>11, <2>2, <2>3, <2>4, Zenon
<1>13. n + 1 \in 0 .. Len(p)
  BY <1>6, <1>9
<1>14. \E m \in 0 .. Len(p) : unsent'[c] = SubSeq(p, m + 1, Len(p))
                              /\ got'[c] \o buffered'[c] = Begun(p, m)
  BY <1>2, <1>11, <1>12, <1>13
<1>15. request'[c].pieces = p
  BY <1>2 DEF p
<1>16. Reading(c)'
  BY <1>2, <1>8, <1>12, <1>14, <1>15, Zenon DEF Reading
<1>17. Attended(c)' /\ Replying(c)'
  BY <1>1, <1>2, <1>4 DEF Attended, Replying
<1>18. ASSUME NEW d \in Clients, d # c PROVE Attended(d)' /\ Reading(d)' /\ Replying(d)'
  BY <1>1, <1>2, <1>18, Untouched DEF ServeInv, Shape
<1>19. QED
  BY <1>3, <1>16, <1>17, <1>18 DEF ServeInv

\* What there is is read.
LEMMA ServeRecv ==
  ASSUME WholeRequests, ServeInv, NEW c \in Clients, Recv(c)
  PROVE  ServeInv'
<1>1. Shape /\ Attended(c) /\ Reading(c) /\ Replying(c)
  BY DEF ServeInv
<1>2. /\ thread[c] = "recv" /\ (buffered[c] # <<>> \/ client[c] = "closed")
      /\ got' = [got EXCEPT ![c] = @ \o buffered[c]]
      /\ buffered' = [buffered EXCEPT ![c] = <<>>]
      /\ thread' = IF Complete(got'[c]) \/ buffered[c] = <<>>
                   THEN [thread EXCEPT ![c] = "parse"] ELSE thread
      /\ UNCHANGED <<server, client, request, unsent, open, reply, delivered>>
  BY Zenon DEF Recv
<1>3. DOMAIN thread' = Clients /\ \A d \in Clients : d # c => thread'[d] = thread[d]
  BY <1>1, <1>2 DEF Shape
<1>4. Shape'
  BY <1>1, <1>2, <1>3 DEF Shape
<1>5. got'[c] = got[c] \o buffered[c] /\ buffered'[c] = <<>>
  BY <1>1, <1>2 DEF Shape
<1>6. thread'[c] = IF Complete(got'[c]) \/ buffered[c] = <<>> THEN "parse" ELSE "recv"
  <2>1. CASE Complete(got'[c]) \/ buffered[c] = <<>>
    BY <1>1, <1>2, <2>1 DEF Shape
  <2>2. CASE ~ (Complete(got'[c]) \/ buffered[c] = <<>>)
    BY <1>2, <2>2
  <2>3. QED
    BY <2>1, <2>2
<1>7. thread'[c] \in {"parse", "recv"}
  BY <1>6, Zenon
<1>8. Attended(c)'
  BY <1>1, <1>2, <1>7 DEF Attended
<1>9. Reading(c)' /\ Replying(c)'
  <2>1. CASE client[c] = "closed"
    BY <1>2, <2>1 DEF Reading, Replying
  <2>2. CASE client[c] # "closed"
    <3> DEFINE p == request[c].pieces
    <3>1. request[c] \in Requests
      BY <1>1 DEF Shape
    <3>2. p \in Seq(Seq(STRING)) /\ Len(p) \in Nat
      BY <3>1, RequestWhole
    <3>3. PICK n \in 0 .. Len(p) : unsent[c] = SubSeq(p, n + 1, Len(p))
                                   /\ got[c] \o buffered[c] = Begun(p, n)
      BY <1>1, <1>2, <2>2, Zenon DEF Reading
    <3>4. delivered[c] = <<>> /\ got[c] \in Seq(STRING) /\ buffered[c] \in Seq(STRING)
      BY <1>1, <1>2, <2>2 DEF Reading
    <3>5. request'[c].pieces = p
      BY <1>2
    <3>6. /\ \A m \in 1 .. Len(p) : Complete(Begun(p, m)) <=> m = Len(p)
          /\ Begun(p, Len(p)) = FlattenSeq(p)
      BY <3>1, RequestWhole
    <3> HIDE DEF p
    <3>7. got'[c] \in Seq(STRING) /\ got'[c] \o buffered'[c] = got'[c] /\ got'[c] = Begun(p, n)
          /\ buffered'[c] \in Seq(STRING)
      <4>1. got[c] \o buffered[c] \in Seq(STRING)
        BY <3>4
      <4>2. got'[c] \in Seq(STRING) /\ got'[c] = Begun(p, n)
        BY <1>5, <3>3, <4>1, Zenon
      <4>3. <<>> \in Seq(STRING) /\ got'[c] \o <<>> = got'[c]
        BY <4>2
      <4>4. QED
        BY <1>5, <4>2, <4>3, Zenon
    <3>8. n \in 1 .. Len(p)
      <4>1. SUFFICES ASSUME n = 0 PROVE FALSE
        BY <3>2
      <4>2. got[c] \o buffered[c] = <<>>
        BY <3>3, <4>1 DEF Begun
      <4>3. QED
        BY <1>2, <2>2, <3>4, <4>2
    <3>9. Reading(c)'
      <4>1. \E m \in 0 .. Len(p) : unsent'[c] = SubSeq(p, m + 1, Len(p))
                                   /\ got'[c] \o buffered'[c] = Begun(p, m)
        BY <1>2, <3>3, <3>7
      <4>2. QED
        BY <1>2, <3>4, <3>5, <3>7, <4>1, Zenon DEF Reading
    <3>10. Replying(c)'
      <4>1. CASE thread'[c] = "recv"
        BY <4>1 DEF Replying
      <4>2. CASE thread'[c] = "parse"
        <5>1. Complete(got'[c])
          BY <1>2, <1>6, <2>2, <4>2, Zenon
        <5>2. n = Len(p)
          BY <3>6, <3>7, <3>8, <5>1
        <5>3. unsent'[c] = <<>>
          BY <1>2, <3>2, <3>3, <5>2
        <5>4. got'[c] = FlattenSeq(p)
          BY <3>6, <3>7, <5>2
        <5>5. QED
          BY <1>2, <3>4, <3>5, <4>2, <5>3, <5>4 DEF Replying
      <4>3. QED
        BY <1>7, <4>1, <4>2
    <3>11. QED
      BY <3>9, <3>10
  <2>3. QED
    BY <2>1, <2>2
<1>10. ASSUME NEW d \in Clients, d # c PROVE Attended(d)' /\ Reading(d)' /\ Replying(d)'
  BY <1>1, <1>2, <1>3, <1>10, Untouched DEF ServeInv, Shape
<1>11. QED
  BY <1>4, <1>8, <1>9, <1>10 DEF ServeInv

\* The steps that read and send nothing: connecting, accepting and hanging up.
LEMMA ServeClients ==
  ASSUME ServeInv, NEW c \in Clients, Connect(c) \/ Accept(c) \/ HangUp(c)
  PROVE  ServeInv'
<1>1. Shape /\ Attended(c) /\ Reading(c) /\ Replying(c)
  BY DEF ServeInv
<1>2. /\ UNCHANGED <<request, unsent, buffered, got, reply, delivered>>
      /\ DOMAIN client' = Clients /\ DOMAIN thread' = Clients
      /\ \A d \in Clients : d # c => client'[d] = client[d] /\ thread'[d] = thread[d]
      /\ \/ client[c] = "new" /\ client'[c] = "waiting" /\ thread'[c] = thread[c]
         \/ client[c] = "waiting" /\ client'[c] = "open" /\ thread'[c] = "recv"
         \/ client[c] = "open" /\ client'[c] = "closed" /\ thread'[c] = thread[c]
  <2>1. CASE Connect(c)
    BY <1>1, <2>1 DEF Connect, Shape
  <2>2. CASE Accept(c)
    BY <1>1, <2>2 DEF Accept, Shape
  <2>3. CASE HangUp(c)
    BY <1>1, <2>3 DEF HangUp, Shape
  <2>4. QED
    BY <2>1, <2>2, <2>3
<1>3. Shape'
  BY <1>1, <1>2 DEF Shape
<1>4. Attended(c)'
  BY <1>1, <1>2 DEF Attended
<1>5. Reading(c)'
  <2>1. CASE client[c] = "open"
    BY <1>2, <2>1 DEF Reading
  <2>2. CASE client[c] # "open"
    <3>1. client[c] \in {"new", "waiting"} /\ thread[c] = "none"
      BY <1>1, <1>2, <2>2 DEF Attended
    <3>2. QED
      BY <1>1, <1>2, <3>1, Zenon DEF Reading
  <2>3. QED
    BY <2>1, <2>2
<1>6. Replying(c)'
  BY <1>1, <1>2 DEF Replying, Attended
<1>7. ASSUME NEW d \in Clients, d # c PROVE Attended(d)' /\ Reading(d)' /\ Replying(d)'
  BY <1>2, <1>7, Untouched DEF ServeInv
<1>8. QED
  BY <1>3, <1>4, <1>5, <1>6, <1>7 DEF ServeInv

\* The answer is the one to the whole request.
LEMMA ServeParse ==
  ASSUME WholeRequests, ServeInv, NEW c \in Clients, Parse(c)
  PROVE  ServeInv'
<1>1. Shape /\ Attended(c) /\ Reading(c) /\ Replying(c)
  BY DEF ServeInv
<1>2. /\ thread[c] = "parse"
      /\ UNCHANGED <<server, client, request, unsent, buffered, open, got, delivered>>
  BY DEF Parse
<1>3. \/ got[c] = <<>> /\ thread' = [thread EXCEPT ![c] = "close"] /\ reply' = reply
      \/ /\ got[c] # <<>> /\ thread' = [thread EXCEPT ![c] = "head"]
         /\ reply' = [reply EXCEPT ![c] = Answer[got[c]]]
  BY DEF Parse
<1>4. Shape'
  BY <1>1, <1>2, <1>3 DEF Shape
<1>5. thread'[c] \in {"close", "head"}
  BY <1>1, <1>3 DEF Shape
<1>6. Attended(c)' /\ Reading(c)'
  BY <1>1, <1>2, <1>5 DEF Attended, Reading
<1>7. Replying(c)'
  <2>1. CASE client[c] # "open"
    BY <1>2, <2>1 DEF Replying
  <2>2. CASE client[c] = "open"
    <3> DEFINE whole == FlattenSeq(request[c].pieces)
    <3>1. unsent[c] = <<>> /\ got[c] = whole
      BY <1>1, <1>2, <2>2, Zenon DEF Replying
    <3>2. delivered[c] = <<>>
      BY <1>1, <1>2, <2>2 DEF Replying
    <3>3. whole # <<>> /\ Answer[whole] = request[c].answer
      BY <1>1, RequestWhole, Zenon DEF Shape
    <3> HIDE DEF whole
    <3>4. thread'[c] = "head" /\ reply'[c] = request[c].answer
      BY <1>1, <1>3, <3>1, <3>3 DEF Shape
    <3>5. request'[c] = request[c] /\ got'[c] = whole /\ unsent'[c] = <<>>
          /\ delivered'[c] = <<>>
      BY <1>2, <3>1, <3>2
    <3>6. QED
      BY <3>4, <3>5 DEF Replying, whole
  <2>3. QED
    BY <2>1, <2>2
<1>8. ASSUME NEW d \in Clients, d # c PROVE Attended(d)' /\ Reading(d)' /\ Replying(d)'
  <2>1. thread'[d] = thread[d] /\ reply'[d] = reply[d]
    BY <1>1, <1>3, <1>8 DEF Shape
  <2>2. QED
    BY <1>2, <1>8, <2>1, Untouched DEF ServeInv
<1>9. QED
  BY <1>4, <1>6, <1>7, <1>8 DEF ServeInv

\* A part of the answer is sent; the body only when there is to be one.
LEMMA ServeSends ==
  ASSUME ServeInv, NEW c \in Clients, SendHead(c) \/ SendBody(c)
  PROVE  ServeInv'
<1>1. Shape /\ Attended(c) /\ Reading(c) /\ Replying(c)
  BY DEF ServeInv
<1>2. /\ UNCHANGED <<client, request, unsent, buffered, got, reply>>
      /\ DOMAIN thread' = Clients /\ DOMAIN delivered' = Clients
      /\ \A d \in Clients : d # c => thread'[d] = thread[d] /\ delivered'[d] = delivered[d]
      /\ delivered'[c] = Append(delivered[c], thread[c])
      /\ \/ thread[c] = "head" /\ thread'[c] = IF reply[c].body THEN "body" ELSE "close"
         \/ thread[c] = "body" /\ thread'[c] = "close"
  <2>1. CASE SendHead(c)
    BY <1>1, <2>1 DEF SendHead, SendPart, Shape
  <2>2. CASE SendBody(c)
    BY <1>1, <2>2 DEF SendBody, SendPart, Shape
  <2>3. QED
    BY <2>1, <2>2
<1>3. Shape'
  BY <1>1, <1>2 DEF Shape
<1>4. thread'[c] \in {"body", "close"}
  BY <1>2, Zenon
<1>5. Attended(c)' /\ Reading(c)'
  BY <1>1, <1>2, <1>4 DEF Attended, Reading
<1>6. Replying(c)'
  <2>1. CASE client[c] # "open"
    BY <1>2, <2>1 DEF Replying
  <2>2. CASE client[c] = "open"
    <3>1. unsent[c] = <<>> /\ got[c] = FlattenSeq(request[c].pieces)
          /\ reply[c] = request[c].answer
      BY <1>1, <1>2, <2>2 DEF Replying
    <3>2. CASE thread[c] = "head" /\ reply[c].body
      <4>1. delivered[c] = <<>> /\ delivered'[c] = <<"head">> /\ thread'[c] = "body"
        <5>1. delivered[c] = <<>>
          BY <1>1, <2>2, <3>2 DEF Replying
        <5>2. delivered'[c] = Append(<<>>, "head")
          BY <1>2, <5>1, <3>2, Zenon
        <5>3. Append(<<>>, "head") = <<"head">>
          OBVIOUS
        <5>4. thread'[c] = "body"
          BY <1>2, <3>2
        <5>5. QED
          BY <5>1, <5>2, <5>3, <5>4, Zenon
      <4>2. QED
        BY <1>2, <3>1, <3>2, <4>1 DEF Replying
    <3>3. CASE thread[c] = "head" /\ ~ reply[c].body
      <4>1. delivered[c] = <<>> /\ delivered'[c] = <<"head">> /\ thread'[c] = "close"
        <5>1. delivered[c] = <<>>
          BY <1>1, <2>2, <3>3 DEF Replying
        <5>2. delivered'[c] = Append(<<>>, "head")
          BY <1>2, <5>1, <3>3, Zenon
        <5>3. Append(<<>>, "head") = <<"head">>
          OBVIOUS
        <5>4. thread'[c] = "close"
          BY <1>2, <3>3
        <5>5. QED
          BY <5>1, <5>2, <5>3, <5>4, Zenon
      <4>2. QED
        BY <1>2, <3>1, <3>3, <4>1 DEF Replying
    <3>4. CASE thread[c] = "body"
      <4>1. delivered[c] = <<"head">> /\ delivered'[c] = <<"head", "body">>
            /\ thread'[c] = "close" /\ reply[c].body
        <5>1. delivered[c] = <<"head">> /\ reply[c].body
          BY <1>1, <2>2, <3>4 DEF Replying
        <5>2. delivered'[c] = Append(<<"head">>, "body")
          BY <1>2, <5>1, <3>4, Zenon
        <5>3. Append(<<"head">>, "body") = <<"head", "body">>
          <6>1. "head" \in {"head", "body"} /\ "body" \in {"head", "body"}
            OBVIOUS
          <6>2. QED
            BY <6>1, InTurn, Zenon
        <5>4. thread'[c] = "close"
          BY <1>2, <3>4
        <5>5. QED
          BY <5>1, <5>2, <5>3, <5>4, Zenon
      <4>2. QED
        BY <1>2, <3>1, <4>1 DEF Replying
    <3>5. QED
      BY <1>2, <3>2, <3>3, <3>4
  <2>3. QED
    BY <2>1, <2>2
<1>7. ASSUME NEW d \in Clients, d # c PROVE Attended(d)' /\ Reading(d)' /\ Replying(d)'
  BY <1>2, <1>7, Untouched DEF ServeInv
<1>8. QED
  BY <1>3, <1>5, <1>6, <1>7 DEF ServeInv

\* The thread ends: its client has hung up, or all is sent.
LEMMA ServeEnds ==
  ASSUME ServeInv, NEW c \in Clients, SendFails(c) \/ Close(c)
  PROVE  ServeInv'
<1>1. Shape /\ Attended(c) /\ Reading(c) /\ Replying(c)
  BY DEF ServeInv
<1>2. /\ UNCHANGED <<client, request, unsent, buffered, got, reply, delivered>>
      /\ DOMAIN thread' = Clients /\ \A d \in Clients : d # c => thread'[d] = thread[d]
      /\ \/ client[c] = "closed"
         \/ thread[c] = "close" /\ thread'[c] = "done"
  <2>1. CASE SendFails(c)
    BY <1>1, <2>1 DEF SendFails, Shape
  <2>2. CASE Close(c)
    BY <1>1, <2>2 DEF Close, Shape
  <2>3. QED
    BY <2>1, <2>2
<1>3. Shape'
  BY <1>1, <1>2 DEF Shape
<1>4. Attended(c)' /\ Reading(c)' /\ Replying(c)'
  <2>1. CASE client[c] = "closed"
    BY <1>2, <2>1 DEF Attended, Reading, Replying
  <2>2. CASE thread[c] = "close" /\ thread'[c] = "done"
    <3>1. Attended(c)' /\ Reading(c)'
      BY <1>1, <1>2, <2>2 DEF Attended, Reading
    <3>2. Replying(c)'
      BY <1>1, <1>2, <2>2 DEF Replying
    <3>3. QED
      BY <3>1, <3>2
  <2>3. QED
    BY <1>2, <2>1, <2>2
<1>5. ASSUME NEW d \in Clients, d # c PROVE Attended(d)' /\ Reading(d)' /\ Replying(d)'
  BY <1>2, <1>5, Untouched DEF ServeInv
<1>6. QED
  BY <1>3, <1>4, <1>5 DEF ServeInv

\* Every step keeps it.
LEMMA ServeNext == WholeRequests /\ ServeInv /\ [Next]_vars => ServeInv'
<1>1. SUFFICES ASSUME WholeRequests, ServeInv, [Next]_vars PROVE ServeInv'
  OBVIOUS
<1>2. CASE UNCHANGED vars
  BY <1>1, <1>2, Zenon DEF vars, ServeInv, Shape, Attended, Reading, Replying
<1>3. ASSUME NEW c \in Clients, StartFails(c) PROVE ServeInv'
  BY <1>1, <1>3, Zenon DEF StartFails, ServeInv, Shape, Attended, Reading, Replying
<1>4. ASSUME NEW c \in Clients, Connect(c) \/ HangUp(c) \/ Accept(c) PROVE ServeInv'
  BY <1>1, <1>4, ServeClients, Zenon
<1>5. ASSUME NEW c \in Clients, HandleClient(c) PROVE ServeInv'
  BY <1>1, <1>5, ServeRecv, ServeParse, ServeSends, ServeEnds, Zenon DEF HandleClient
<1>6. QED
  BY <1>1, <1>2, <1>3, <1>4, <1>5, ServeSend, Zenon DEF Next

\* A client that stays and sends its whole request gets the whole answer that is due to
\* it, and no more, however many there are and whatever they ask for (handle_client() and
\* send_response()).
THEOREM AnswersArriveInFull == ASSUME WholeRequests PROVE Spec => []AnsweredInFull
<1>1. Init => ServeInv
  BY ServeInit
<1>2. ServeInv /\ [Next]_vars => ServeInv'
  BY ServeNext
<1>3. ServeInv => AnsweredInFull
  <2>1. SUFFICES ASSUME ServeInv, NEW c \in Clients, thread[c] = "done", client[c] = "open"
                 PROVE  /\ reply[c] = request[c].answer
                        /\ delivered[c] = IF reply[c].body THEN <<"head", "body">>
                                          ELSE <<"head">>
    BY DEF AnsweredInFull
  <2>2. Replying(c)
    BY <2>1 DEF ServeInv
  <2>3. QED
    BY <2>1, <2>2 DEF Replying
<1>4. QED
  BY <1>1, <1>2, <1>3, PTL DEF Spec

-----------------------------------------------------------------------------
(* Induction over texts.                                                   *)

\* A set of sequences that contains the empty one and with each all that are longer by
\* one contains all.
LEMMA AllSequences ==
  ASSUME NEW S, NEW T, <<>> \in T,
         \A s \in Seq(S) : s \in T => \A c \in S : Append(s, c) \in T
  PROVE  Seq(S) \subseteq T
<1> DEFINE bad == {n \in Nat : \E s \in Seq(S) : Len(s) = n /\ s \notin T}
<1>1. ASSUME bad # {} PROVE FALSE
  <2>1. PICK n \in bad : \A m \in bad : n <= m
    BY <1>1, MinIsLeast
  <2>2. PICK s \in Seq(S) : Len(s) = n /\ s \notin T
    BY <2>1
  <2>3. s # <<>>
    BY <2>2
  <2>4. PICK t \in Seq(S), c \in S : s = Append(t, c)
    BY <2>3, SequenceEmptyOrAppend
  <2>5. t \notin T
    BY <2>2, <2>4
  <2>6. Len(t) \in Nat /\ n = Len(t) + 1
    BY <2>2, <2>4
  <2>7. Len(t) \in bad
    BY <2>5, <2>6
  <2> QED
    BY <2>1, <2>6, <2>7
<1>2. ASSUME NEW s \in Seq(S), s \notin T PROVE FALSE
  <2>1. Len(s) \in bad
    BY <1>2
  <2> QED
    BY <1>1, <2>1
<1> QED
  BY <1>2

-----------------------------------------------------------------------------
(* Segments.                                                               *)

\* Segments, each behind a slash.
Slashed(segments) == FlattenSeq([i \in DOMAIN segments |-> <<"/">> \o segments[i]])

LEMMA SlashedOneMore ==
  ASSUME NEW S, "/" \in S, NEW segments \in Seq(Seq(S)), NEW segment \in Seq(S)
  PROVE  /\ Slashed(segments) \in Seq(S)
         /\ Slashed(Append(segments, segment)) = Slashed(segments) \o (<<"/">> \o segment)
         /\ Slashed(<<>>) = <<>>
<1> DEFINE slash == <<"/">>
           parts(list) == [i \in DOMAIN list |-> slash \o list[i]]
           more == Append(segments, segment)
<1>0. slash \in Seq(S)
  OBVIOUS
<1> HIDE DEF slash
<1>1. \A list \in Seq(Seq(S)) : parts(list) \in Seq(Seq(S)) /\ Len(parts(list)) = Len(list)
  <2> TAKE list \in Seq(Seq(S))
  <2>1. Len(list) \in Nat /\ DOMAIN list = 1 .. Len(list) /\ \A i \in 1 .. Len(list) : list[i] \in Seq(S)
    OBVIOUS
  <2>2. \A i \in 1 .. Len(list) : slash \o list[i] \in Seq(S)
    BY <1>0, <2>1, ConcatProperties
  <2>3. parts(list) \in [1 .. Len(list) -> Seq(S)]
    BY <2>1, <2>2
  <2> QED
    BY <2>1, <2>3, FunctionIsSeq
<1>2. slash \o segment \in Seq(S)
  BY <1>0, ConcatProperties
<1>3. /\ more \in Seq(Seq(S)) /\ Len(more) = Len(segments) + 1 /\ more[Len(segments) + 1] = segment
      /\ \A i \in 1 .. Len(segments) : more[i] = segments[i]
      /\ Len(segments) \in Nat
  BY AppendProperties
<1>4. parts(more) = Append(parts(segments), slash \o segment)
  <2> DEFINE a == parts(more)
             b == Append(parts(segments), slash \o segment)
  <2>1. a \in Seq(Seq(S)) /\ Len(a) = Len(segments) + 1
    BY <1>1, <1>3
  <2>2. /\ b \in Seq(Seq(S)) /\ Len(b) = Len(segments) + 1
        /\ \A i \in 1 .. Len(segments) : b[i] = parts(segments)[i]
        /\ b[Len(segments) + 1] = slash \o segment
    <3>1. parts(segments) \in Seq(Seq(S)) /\ Len(parts(segments)) = Len(segments)
      BY <1>1
    <3> HIDE DEF parts
    <3> QED
      BY <1>2, <3>1, AppendProperties
  <2>3. \A i \in 1 .. Len(segments) : parts(segments)[i] = slash \o segments[i]
    OBVIOUS
  <2>4. \A i \in 1 .. Len(segments) + 1 : a[i] = slash \o more[i]
    <3>1. DOMAIN more = 1 .. Len(segments) + 1
      BY <1>3
    <3> HIDE DEF more
    <3> QED
      BY <3>1
  <2> HIDE DEF a, b, parts, more
  <2>5. \A i \in 1 .. Len(segments) + 1 : a[i] = b[i]
    <3> TAKE i \in 1 .. Len(segments) + 1
    <3>1. i \in 1 .. Len(segments) \/ i = Len(segments) + 1
      BY <1>3
    <3> QED
      BY <1>3, <2>2, <2>3, <2>4, <3>1
  <2>6. a = b
    BY <2>1, <2>2, <2>5, SeqEqual
  <2> QED
    BY <2>6 DEF a, b
<1>5. \A list : Slashed(list) = FlattenSeq(parts(list))
  BY DEF Slashed, slash
<1>6. parts(<<>>) = <<>>
  OBVIOUS
<1>7. parts(segments) \in Seq(Seq(S))
  BY <1>1
<1> HIDE DEF parts
<1>8. /\ FlattenSeq(parts(segments)) \in Seq(S)
      /\ FlattenSeq(parts(more)) = FlattenSeq(parts(segments)) \o (slash \o segment)
  BY <1>2, <1>4, <1>7, FlattenOneMore
<1> QED
  BY <1>5, <1>6, <1>8, FlattenNone DEF slash, more

LEMMA SlashedBegins ==
  ASSUME NEW S, "/" \in S, NEW segments \in Seq(Seq(S))
  PROVE  segments # <<>> => Slashed(segments) # <<>> /\ Slashed(segments)[1] = "/"
<1> DEFINE T == {list \in Seq(Seq(S)) : list # <<>> => Slashed(list) # <<>> /\ Slashed(list)[1] = "/"}
<1>1. <<>> \in T
  OBVIOUS
<1>2. ASSUME NEW list \in Seq(Seq(S)), list \in T, NEW s \in Seq(S) PROVE Append(list, s) \in T
  <2>1. Slashed(list) \in Seq(S) /\ Slashed(Append(list, s)) = Slashed(list) \o (<<"/">> \o s)
    BY SlashedOneMore
  <2>2. <<"/">> \o s \in Seq(S) /\ (<<"/">> \o s)[1] = "/" /\ Len(<<"/">> \o s) > 0
    OBVIOUS
  <2> DEFINE tail == <<"/">> \o s
             front == Slashed(list)
  <2> HIDE DEF tail, front
  <2>3. tail \in Seq(S) /\ tail[1] = "/" /\ Len(tail) \in Nat \ {0} /\ front \in Seq(S)
    BY <2>1, <2>2 DEF tail, front
  <2>4. (front \o tail) # <<>> /\ (front \o tail)[1] = IF front = <<>> THEN tail[1] ELSE front[1]
    BY <2>3
  <2>5. list = <<>> => front = <<>>
    BY SlashedOneMore DEF front
  <2>6. (front \o tail)[1] = "/"
    BY <1>2, <2>3, <2>4, <2>5 DEF front
  <2> QED
    BY <2>1, <2>4, <2>6 DEF front, tail
<1> HIDE DEF T
<1>3. Seq(Seq(S)) \subseteq T
  BY <1>1, <1>2, AllSequences
<1> QED
  BY <1>3 DEF T

\* How remove_dot_segments() writes segments down.
LEMMA AbsoluteIsSlashed ==
  ASSUME NEW S, "/" \in S, NEW segments \in Seq(Seq(S)), NEW directory \in BOOLEAN
  PROVE  /\ segments = <<>> => Absolute(segments, directory) = <<"/">>
         /\ segments # <<>> =>
              Absolute(segments, directory) =
                IF directory THEN Slashed(segments) \o <<"/">> ELSE Slashed(segments)
         /\ segments # <<>> => <<"/">> \o Join(segments) = Slashed(segments)
         /\ Join(segments) \in Seq(S)
<1> DEFINE text == Slashed(segments)
<1>1. text \in Seq(S) /\ (segments = <<>> => text = <<>>)
  BY SlashedOneMore
<1>2. Join(segments) = SubSeq(text, 2, Len(text))
  BY DEF Join, From, Slashed
<1> HIDE DEF text
<1>3. Join(segments) \in Seq(S)
  <2>1. Len(text) \in Nat /\ \A i \in 2 .. Len(text) : text[i] \in S
    BY <1>1
  <2> QED
    BY <1>2, <2>1, SubSeqProperties
<1>4. ASSUME segments # <<>> PROVE <<"/">> \o Join(segments) = text
  <2>1. text # <<>> /\ text[1] = "/"
    BY <1>4, SlashedBegins DEF text
  <2>2. 1 \in 1 .. Len(text) /\ Len(text) \in 1 .. Len(text)
    BY <1>1, <2>1
  <2>3. SubSeq(text, 1, Len(text)) = <<text[1]>> \o SubSeq(text, 1 + 1, Len(text))
    BY <1>1, <2>2, SubSeqRecursiveFirst
  <2>4. SubSeq(text, 1, Len(text)) = text
    BY <1>1, SubSeqFull
  <2> QED
    BY <1>2, <2>1, <2>3, <2>4
<1>5. ASSUME segments = <<>> PROVE Absolute(segments, directory) = <<"/">>
  <2>1. Join(segments) = <<>>
    BY <1>1, <1>2, <1>5
  <2>2. Absolute(segments, directory) = <<"/">> \o <<>> \o <<>>
    BY <1>5, <2>1 DEF Absolute
  <2>3. <<"/">> \in Seq(S)
    OBVIOUS
  <2> QED
    BY <2>2, <2>3, ConcatEmptySeq
<1>6. ASSUME segments # <<>>
      PROVE  Absolute(segments, directory) = IF directory THEN text \o <<"/">> ELSE text
  <2>1. Absolute(segments, directory) = text \o (IF directory THEN <<"/">> ELSE <<>>)
    BY <1>4, <1>6 DEF Absolute
  <2> QED
    BY <1>1, <2>1, ConcatEmptySeq
<1> QED
  BY <1>3, <1>4, <1>5, <1>6 DEF text

\* Sequences over a larger set, and two elements appended.
LEMMA SeqsOfMore ==
  ASSUME NEW A, NEW B, A \subseteq B
  PROVE  Seq(A) \subseteq Seq(B)
OBVIOUS

LEMMA TwoMore ==
  ASSUME NEW T, NEW s \in Seq(T), NEW a \in T, NEW b \in T
  PROVE  Append(Append(s, a), b) = s \o <<a, b>>
<1> DEFINE l == Append(Append(s, a), b)
           two == <<a, b>>
<1>1. /\ Append(s, a) \in Seq(T) /\ Len(Append(s, a)) = Len(s) + 1
      /\ Append(s, a)[Len(s) + 1] = a /\ \A i \in 1 .. Len(s) : Append(s, a)[i] = s[i]
      /\ Len(s) \in Nat
  BY AppendProperties
<1>2. /\ l \in Seq(T) /\ Len(l) = Len(s) + 2 /\ l[Len(s) + 2] = b
      /\ \A i \in 1 .. Len(s) + 1 : l[i] = Append(s, a)[i]
  <2> DEFINE one == Append(s, a)
  <2> HIDE DEF one
  <2>1. one \in Seq(T) /\ Len(one) = Len(s) + 1
    BY <1>1 DEF one
  <2>2. /\ Append(one, b) \in Seq(T) /\ Len(Append(one, b)) = Len(one) + 1
        /\ Append(one, b)[Len(one) + 1] = b /\ \A i \in 1 .. Len(one) : Append(one, b)[i] = one[i]
    BY <2>1, AppendProperties
  <2>3. Len(one) + 1 = Len(s) + 2
    BY <1>1, <2>1
  <2> QED
    BY <2>1, <2>2, <2>3 DEF one
<1>3. two \in Seq(T) /\ Len(two) = 2 /\ two[1] = a /\ two[2] = b
  OBVIOUS
<1> HIDE DEF l, two
<1>4. /\ s \o two \in Seq(T) /\ Len(s \o two) = Len(s) + 2
      /\ \A i \in 1 .. Len(s) + 2 : (s \o two)[i] = IF i <= Len(s) THEN s[i] ELSE two[i - Len(s)]
  <2>1. /\ s \o two \in Seq(T) /\ Len(s \o two) = Len(s) + Len(two)
        /\ \A i \in 1 .. Len(s) + Len(two) : (s \o two)[i] = IF i <= Len(s) THEN s[i] ELSE two[i - Len(s)]
    BY <1>3, ConcatProperties
  <2> QED
    BY <1>3, <2>1
<1>5. \A i \in 1 .. Len(s) + 2 : l[i] = (s \o two)[i]
  <2> SUFFICES ASSUME NEW i \in 1 .. Len(s) + 2 PROVE l[i] = (s \o two)[i]
    OBVIOUS
  <2>1. CASE i <= Len(s)
    <3>1. i \in 1 .. Len(s) /\ i \in 1 .. Len(s) + 1
      BY <1>1, <2>1
    <3> QED
      BY <1>1, <1>2, <1>4, <2>1, <3>1
  <2>2. CASE i = Len(s) + 1
    <3>1. ~ (i <= Len(s)) /\ i - Len(s) = 1 /\ i \in 1 .. Len(s) + 1
      BY <1>1, <2>2
    <3> QED
      BY <1>1, <1>2, <1>3, <1>4, <2>2, <3>1
  <2>3. CASE i = Len(s) + 2
    <3>1. ~ (i <= Len(s)) /\ i - Len(s) = 2
      BY <1>1, <2>3
    <3> QED
      BY <1>2, <1>3, <1>4, <2>3, <3>1
  <2>4. i <= Len(s) \/ i = Len(s) + 1 \/ i = Len(s) + 2
    BY <1>1
  <2> QED
    BY <2>1, <2>2, <2>3, <2>4
<1>6. l = s \o two
  BY <1>2, <1>4, <1>5, SeqEqual
<1> QED
  BY <1>6 DEF l, two

-----------------------------------------------------------------------------
(* Paths that are too long.                                                *)

LEMMA FirstAlone ==
  ASSUME NEW S, NEW s \in Seq(S), s # <<>>
  PROVE  SubSeq(s, 1, 1) = <<s[1]>>
<1> DEFINE one == <<s[1]>>
           cut == SubSeq(s, 1, 1)
<1>1. Len(s) \in Nat \ {0} /\ s[1] \in S
  OBVIOUS
<1>2. one \in Seq(S) /\ Len(one) = 1 /\ one[1] = s[1]
  BY <1>1
<1>3. cut \in Seq(S) /\ Len(cut) = 1 /\ cut[1] = s[1]
  <2>1. \A i \in 1 .. 1 : s[i] \in S
    BY <1>1
  <2>2. /\ cut \in Seq(S) /\ Len(cut) = 1 - 1 + 1
        /\ \A i \in 1 .. 1 - 1 + 1 : cut[i] = s[1 + i - 1]
    BY <1>1, <2>1, SubSeqProperties
  <2> QED
    BY <2>2
<1> HIDE DEF one, cut
<1>4. \A i \in 1 .. 1 : cut[i] = one[i]
  BY <1>2, <1>3
<1>5. cut = one
  BY <1>2, <1>3, <1>4, SeqEqual
<1> QED
  BY <1>5 DEF one, cut

\* How long a path is, written down.
LEMMA JoinOneMore ==
  ASSUME NEW S, "/" \in S, NEW path \in Seq(Seq(S)), NEW name \in Seq(S)
  PROVE  /\ Join(path) \in Seq(S) /\ Join(Append(path, name)) \in Seq(S)
         /\ path = <<>> => Join(Append(path, name)) = name
         /\ path # <<>> => Len(Join(Append(path, name))) = Len(Join(path)) + 1 + Len(name)
<1> DEFINE more == Append(path, name)
           slash == <<"/">>
           a == Slashed(path)
           b == Slashed(more)
           tail == slash \o name
           j == Join(path)
           k == Join(more)
<1>1. slash \in Seq(S) /\ Len(slash) = 1
  OBVIOUS
<1>2. more \in Seq(Seq(S)) /\ more # <<>>
  BY AppendProperties
<1> HIDE DEF slash
<1>3. tail \in Seq(S) /\ Len(tail) = 1 + Len(name)
  BY <1>1, ConcatProperties
<1>4. a \in Seq(S) /\ b = a \o tail /\ (path = <<>> => a = <<>>)
  BY SlashedOneMore DEF slash
<1>5. j \in Seq(S) /\ (path # <<>> => slash \o j = a)
  BY AbsoluteIsSlashed DEF slash
<1> HIDE DEF more
<1>6. k \in Seq(S) /\ slash \o k = b
  BY <1>2, AbsoluteIsSlashed DEF slash
<1> HIDE DEF a, b, tail, j, k
<1>7. ASSUME path = <<>> PROVE k = name
  <2>1. slash \o k = slash \o name
    BY <1>3, <1>4, <1>6, <1>7, ConcatEmptySeq DEF tail
  <2> QED
    BY <1>1, <1>6, <2>1, ConcatSimplifications
<1>8. ASSUME path # <<>> PROVE Len(k) = Len(j) + 1 + Len(name)
  <2>1. Len(slash \o k) = Len(slash) + Len(k) /\ Len(slash \o j) = Len(slash) + Len(j)
    BY <1>1, <1>5, <1>6, ConcatProperties
  <2>4. Len(b) = 1 + Len(k) /\ Len(a) = 1 + Len(j)
    BY <1>1, <1>5, <1>6, <1>8, <2>1
  <2>2. Len(b) = Len(a) + Len(tail)
    BY <1>3, <1>4, ConcatProperties
  <2>3. Len(k) \in Nat /\ Len(j) \in Nat /\ Len(name) \in Nat
    BY <1>5, <1>6
  <2> QED
    BY <1>3, <2>2, <2>3, <2>4
<1> QED
  BY <1>5, <1>6, <1>7, <1>8 DEF j, k, more

LEMMA JoinOne ==
  ASSUME NEW S, "/" \in S, NEW name \in Seq(S)
  PROVE  Join(<<name>>) = name
<1>1. <<>> \in Seq(Seq(S)) /\ Append(<<>>, name) = <<name>>
  OBVIOUS
<1> QED
  BY <1>1, JoinOneMore

\* The beginning of a name is safe, if it is not so short that it may be a device.
LEMMA PrefixIsSafe ==
  ASSUME NEW S, NEW name \in SafeNames(S), PrefixLimit <= Len(name)
  PROVE  /\ SubSeq(name, 1, PrefixLimit) \in SafeNames(S)
         /\ Len(SubSeq(name, 1, PrefixLimit)) = PrefixLimit
<1> DEFINE cut == SubSeq(name, 1, PrefixLimit)
<1>1. /\ name \in Seq(S) /\ Len(name) \in Nat /\ DOMAIN name = 1 .. Len(name)
      /\ \A i \in 1 .. Len(name) : name[i] \in S /\ name[i] \notin Forbidden
      /\ Head1(name, ".") \notin Reserved
  BY DEF SafeNames, SafeName
<1>2. \A i \in 1 .. PrefixLimit : i \in 1 .. Len(name)
  BY <1>1, NameLimits
<1>3. /\ cut \in Seq(S) /\ Len(cut) = PrefixLimit
      /\ \A i \in 1 .. PrefixLimit : cut[i] = name[i]
  BY <1>1, <1>2, NameLimits, SubSeqProperties
<1> HIDE DEF cut
<1>4. cut \notin {<<>>, Dot, DotDot}
  BY <1>3, NameLimits, LongIsNoDot
<1>5. \A i \in DOMAIN cut : cut[i] \notin Forbidden
  <2>1. DOMAIN cut = 1 .. PrefixLimit
    BY <1>3
  <2> QED
    BY <1>1, <1>2, <1>3, <2>1
<1>6. Head1(cut, ".") \notin Reserved
  <2> SUFFICES ASSUME Head1(cut, ".") \in Reserved PROVE FALSE
    OBVIOUS
  <2>1. Len(Head1(cut, ".")) < PrefixLimit
    BY PathMapAssumption
  <2>2. Head1(name, ".") = Head1(cut, ".")
    BY <1>1, <1>3, <2>1, NameLimits, HeadsAlike
  <2> QED
    BY <1>1, <2>2
<1>7. Len(cut) <= NameLimit
  BY <1>3, NameLimits
<1> QED
  BY <1>3, <1>4, <1>5, <1>6, <1>7 DEF SafeNames, SafeName, cut

\* What a path that is too long keeps of its beginning.
LEMMA BeginningIsSafe ==
  ASSUME NEW S, "/" \in S, NEW path \in Seq(SafeNames(S)) \ {<<>>}, Len(Join(path)) > PathLimit
  PROVE  /\ Beginning(path) \in Seq(SafeNames(S)) \ {<<>>}
         /\ Len(Join(Beginning(path))) <= PrefixLimit
<1> DEFINE N == SafeNames(S)
           whole == {n \in 1 .. Len(path) - 1 : Len(Join(SubSeq(path, 1, n))) < PrefixLimit}
           m == Max(whole)
           first == SubSeq(path[1], 1, PrefixLimit)
<1>1. N \subseteq Seq(S)
  BY DEF SafeNames
<1> HIDE DEF N
<1>2. /\ path \in Seq(N) /\ Len(path) \in Nat \ {0} /\ path[1] \in N
      /\ \A i \in 1 .. Len(path) : path[i] \in N
  BY DEF N
<1>3. Beginning(path) = IF whole = {} THEN <<first>> ELSE SubSeq(path, 1, m)
  BY DEF Beginning
<1>4. CASE whole # {}
  <2>1. whole \in SUBSET (0 .. Len(path))
    BY <1>2
  <2>2. m \in whole
    <3> HIDE DEF whole
    <3> QED
      BY <1>2, <1>4, <2>1, MaxIsGreatest
  <2>3. m \in 1 .. Len(path) - 1 /\ Len(Join(SubSeq(path, 1, m))) < PrefixLimit
    BY <2>2
  <2>4. Beginning(path) = SubSeq(path, 1, m)
    BY <1>3, <1>4
  <2> HIDE DEF m, whole
  <2>5. \A i \in 1 .. m : path[i] \in N
    BY <1>2, <2>3
  <2>6. SubSeq(path, 1, m) \in Seq(N) /\ Len(SubSeq(path, 1, m)) = m
    BY <1>2, <2>3, <2>5, SubSeqProperties
  <2>7. SubSeq(path, 1, m) # <<>>
    BY <2>3, <2>6
  <2>8. Len(Join(SubSeq(path, 1, m))) <= PrefixLimit
    <3>1. SubSeq(path, 1, m) \in Seq(Seq(S)) /\ <<>> \in Seq(S)
      BY <1>1, <2>6
    <3>2. Join(SubSeq(path, 1, m)) \in Seq(S)
      BY <3>1, JoinOneMore
    <3> QED
      BY <2>3, <3>2, NameLimits
  <2> QED
    BY <2>4, <2>6, <2>7, <2>8 DEF N
<1>5. CASE whole = {}
  <2> DEFINE one == <<path[1]>>
             top == path[1]
             n == Len(path)
  <2>0. top \in Seq(S) /\ n \in Nat \ {0}
    BY <1>1, <1>2
  <2>1. Join(one) = top /\ Len(top) \in Nat
    BY <2>0, JoinOne
  <2>7. n = 1 => path = one
    BY <1>2
  <2>8. n # 1 => SubSeq(path, 1, 1) = one /\ 1 \in 1 .. n - 1
    <3>1. SubSeq(path, 1, 1) = one
      BY <1>2, FirstAlone
    <3> HIDE DEF n
    <3> QED
      BY <2>0, <3>1
  <2>2. PrefixLimit <= Len(path[1])
    <3>1. CASE n = 1
      <4>1. Join(path) = top
        BY <2>1, <2>7, <3>1
      <4> HIDE DEF top, n
      <4>2. Len(top) > PathLimit
        BY <4>1
      <4> QED
        BY <2>1, <4>2, NameLimits DEF top
    <3>2. CASE n # 1
      <4>1. ~ (Len(Join(SubSeq(path, 1, 1))) < PrefixLimit)
        BY <1>5, <2>8, <3>2
      <4>2. Join(SubSeq(path, 1, 1)) = top
        BY <2>1, <2>8, <3>2
      <4> HIDE DEF top, n, one
      <4>3. ~ (Len(top) < PrefixLimit)
        BY <4>1, <4>2
      <4> QED
        BY <2>1, <4>3, NameLimits DEF top
    <3> QED
      BY <3>1, <3>2
  <2>3. first \in N /\ Len(first) = PrefixLimit
    BY <1>2, <2>2, PrefixIsSafe DEF N
  <2>4. Beginning(path) = <<first>>
    BY <1>3, <1>5
  <2> HIDE DEF first
  <2>5. Join(<<first>>) = first
    BY <1>1, <2>3, JoinOne
  <2>6. <<first>> \in Seq(N) /\ <<first>> # <<>>
    BY <2>3
  <2> QED
    BY <2>3, <2>4, <2>5, <2>6, NameLimits DEF N
<1> QED
  BY <1>4, <1>5

\* The name of a file whose path is too long.
LEMMA HashedNameIsSafe ==
  ASSUME NEW S, NEW hash \in S, HashIsName(hash), NEW name \in SafeNames(S)
  PROVE  /\ <<hash>> \o Ending(name) \in SafeNames(S)
         /\ Len(<<hash>> \o Ending(name)) <= 1 + ExtensionLimit
<1> DEFINE ending == Ending(name)
           stem == Stem(name)
           word == <<hash>>
           hashed == word \o ending
<1>1. name \in Seq(S) /\ \A i \in 1 .. Len(name) : name[i] \notin Forbidden
  BY DEF SafeNames, SafeName
<1>2. /\ ending \in Seq(S) /\ Len(ending) <= ExtensionLimit /\ stem \in Seq(S)
      /\ stem \o ending = name
      /\ ending # <<>> => ending[1] = "."
  BY <1>1, EndingIs
<1> HIDE DEF ending, stem
<1>3. word \in Seq(S) /\ Len(word) = 1 /\ word[1] = hash
  OBVIOUS
<1>4. Len(ending) \in Nat /\ Len(stem) \in Nat
  BY <1>2
<1>5. \A i \in 1 .. Len(ending) : ending[i] \notin Forbidden
  <2> SUFFICES ASSUME NEW i \in 1 .. Len(ending) PROVE ending[i] \notin Forbidden
    OBVIOUS
  <2>1. /\ Len(stem \o ending) = Len(stem) + Len(ending)
        /\ \A k \in 1 .. Len(stem) + Len(ending) :
             (stem \o ending)[k] = IF k <= Len(stem) THEN stem[k] ELSE ending[k - Len(stem)]
    BY <1>2, ConcatProperties
  <2>2. /\ Len(stem) + i \in 1 .. Len(stem) + Len(ending) /\ ~ (Len(stem) + i <= Len(stem))
        /\ Len(stem) + i - Len(stem) = i
    BY <1>4
  <2>3. name[Len(stem) + i] = ending[i]
    BY <1>2, <2>1, <2>2
  <2>4. Len(stem) + i \in 1 .. Len(name)
    BY <1>2, <2>1, <2>2
  <2> QED
    BY <1>1, <2>3, <2>4
<1> HIDE DEF word
<1>6. /\ hashed \in Seq(S) /\ Len(hashed) = 1 + Len(ending)
      /\ \A k \in 1 .. 1 + Len(ending) : hashed[k] = IF k <= 1 THEN word[k] ELSE ending[k - 1]
  <2>1. /\ word \o ending \in Seq(S) /\ Len(word \o ending) = Len(word) + Len(ending)
        /\ \A k \in 1 .. Len(word) + Len(ending) :
             (word \o ending)[k] = IF k <= Len(word) THEN word[k] ELSE ending[k - Len(word)]
    BY <1>2, <1>3, ConcatProperties
  <2> QED
    BY <1>3, <2>1
<1>7. hashed[1] = hash /\ hashed # <<>>
  BY <1>3, <1>4, <1>6
<1>8. hash \notin Forbidden /\ hash # "." /\ <<hash>> \notin Reserved
  BY DEF HashIsName, Dropped
<1>9. hashed \notin {<<>>, Dot, DotDot}
  <2>1. Dot[1] = "." /\ DotDot[1] = "."
    BY DEF Dot, DotDot
  <2> QED
    BY <1>7, <1>8, <2>1
<1>10. \A i \in DOMAIN hashed : hashed[i] \notin Forbidden
  <2> SUFFICES ASSUME NEW i \in 1 .. 1 + Len(ending) PROVE hashed[i] \notin Forbidden
    <3>1. DOMAIN hashed = 1 .. 1 + Len(ending)
      BY <1>6
    <3> QED
      BY <3>1
  <2>1. CASE i = 1
    BY <1>7, <1>8, <2>1
  <2>2. CASE i # 1
    <3>1. i - 1 \in 1 .. Len(ending) /\ ~ (i <= 1)
      BY <1>4, <2>2
    <3> QED
      BY <1>5, <1>6, <3>1
  <2> QED
    BY <2>1, <2>2
<1>11. Head1(hashed, ".") = <<hash>>
  <2>1. CASE ending = <<>>
    <3>1. hashed = word
      BY <1>3, <2>1, ConcatEmptySeq
    <3>2. Find(hashed, ".") = 0
      <4>1. /\ Find(hashed, ".") \in 0 .. 1
            /\ Find(hashed, ".") # 0 => hashed[Find(hashed, ".")] = "."
        BY <1>3, <3>1, FindFirst
      <4> QED
        BY <1>7, <1>8, <4>1
    <3> QED
      BY <3>1, <3>2 DEF Head1, word
  <2>2. CASE ending # <<>>
    <3>1. Len(ending) # 0 /\ ending[1] = "."
      BY <1>2, <2>2
    <3>2. 2 \in 1 .. 1 + Len(ending) /\ hashed[2] = "."
      <4>1. 2 \in 1 .. 1 + Len(ending) /\ ~ (2 <= 1) /\ 2 - 1 = 1
        BY <1>4, <3>1
      <4> QED
        BY <1>6, <3>1, <4>1
    <3>3. /\ Find(hashed, ".") \in 0 .. Len(hashed)
          /\ Find(hashed, ".") = 0 => \A i \in 1 .. Len(hashed) : hashed[i] # "."
          /\ Find(hashed, ".") # 0 => /\ hashed[Find(hashed, ".")] = "."
                                      /\ \A i \in 1 .. Find(hashed, ".") - 1 : hashed[i] # "."
      BY <1>6, FindFirst
    <3>4. Find(hashed, ".") # 0 /\ Find(hashed, ".") # 1
      BY <1>6, <1>7, <1>8, <3>2, <3>3
    <3>5. Find(hashed, ".") = 2
      <4> DEFINE m == Find(hashed, ".")
      <4>1. m \in Nat \ {0, 1} /\ \A i \in 1 .. m - 1 : hashed[i] # "."
        <5>1. Len(hashed) \in Nat
          BY <1>4, <1>6
        <5> HIDE DEF hashed
        <5> QED
          BY <3>3, <3>4, <5>1
      <4> HIDE DEF m, hashed
      <4>2. ~ (2 \in 1 .. m - 1)
        BY <3>2, <4>1
      <4> QED
        BY <4>1, <4>2 DEF m
    <3>6. Head1(hashed, ".") = SubSeq(hashed, 1, 1)
      <4> DEFINE m == Find(hashed, ".")
      <4>1. m = 2
        BY <3>5
      <4>2. Head1(hashed, ".") = IF m = 0 THEN hashed ELSE SubSeq(hashed, 1, m - 1)
        BY DEF Head1, Before
      <4> HIDE DEF hashed, m
      <4>3. m # 0 /\ m - 1 = 1
        BY <4>1
      <4> QED
        BY <4>2, <4>3
    <3>7. SubSeq(hashed, 1, 1) = <<hashed[1]>>
      <4> HIDE DEF hashed
      <4> QED
        BY <1>6, <1>7, FirstAlone
    <3> QED
      BY <1>7, <3>6, <3>7
  <2> QED
    BY <2>1, <2>2
<1>12. Len(hashed) <= 1 + ExtensionLimit /\ Len(hashed) <= NameLimit
  BY <1>2, <1>4, <1>6, NameLimits
<1> QED
  BY <1>6, <1>8, <1>9, <1>10, <1>11, <1>12 DEF SafeNames, SafeName, word, ending

\* A path that is shortened is one of safe names, and short enough.
LEMMA ShortenedIsSafe ==
  ASSUME NEW S, "/" \in S, Words \subseteq S, NEW path \in Seq(SafeNames(S)) \ {<<>>},
         ShortHash(Join(path)) \in S, HashIsName(ShortHash(Join(path)))
  PROVE  Shortened(path) \in Seq(SafeNames(S)) \ {<<>>} /\ Len(Join(Shortened(path))) <= PathLimit
<1> DEFINE N == SafeNames(S)
           beginning == Beginning(path)
           last == <<ShortHash(Join(path))>> \o Ending(Last(path))
<1>1. N \subseteq Seq(S)
  BY DEF SafeNames
<1>2. Join(path) \in Seq(S) /\ Len(Join(path)) \in Nat
  <2>1. path \in Seq(Seq(S)) /\ <<>> \in Seq(S)
    BY <1>1
  <2>2. Join(path) \in Seq(S)
    BY <2>1, JoinOneMore
  <2> QED
    BY <2>2
<1>3. CASE Len(Join(path)) <= PathLimit
  BY <1>3 DEF Shortened
<1>4. CASE Len(Join(path)) > PathLimit
  <2>1. Shortened(path) = beginning \o <<Long, last>>
    <3>1. ~ (Len(Join(path)) <= PathLimit)
      BY <1>2, <1>4, NameLimits
    <3> QED
      BY <3>1 DEF Shortened
  <2>2. beginning \in Seq(N) /\ beginning # <<>> /\ Len(Join(beginning)) <= PrefixLimit
    BY <1>4, BeginningIsSafe
  <2>3. Last(path) \in N
    <3>1. Len(path) \in 1 .. Len(path)
      OBVIOUS
    <3> HIDE DEF N
    <3>2. path \in Seq(N)
      BY DEF N
    <3> QED
      BY <3>1, <3>2 DEF Last
  <2>4. last \in N /\ Len(last) <= 1 + ExtensionLimit
    BY <2>3, HashedNameIsSafe
  <2>5. Long \in N /\ Len(Long) = 2
    <3>1. "long" \in S /\ Underscore \in S /\ "long" \notin Forbidden /\ "long" \notin Dropped
      BY DEF Words, Forbidden, Dropped, Space
    <3>2. <<Underscore, "long">> \in N
      BY <3>1, UnderscoredIsWhole DEF WholeNames
    <3> QED
      BY <3>2 DEF Long, Underscore
  <2> DEFINE one == Append(beginning, Long)
             both == Append(one, last)
  <2> HIDE DEF N, last, beginning, Long
  <2>6. one \in Seq(N) /\ one # <<>>
    BY <2>2, <2>5, AppendProperties
  <2>7. both \in Seq(N) /\ both # <<>>
    <3> HIDE DEF one
    <3> QED
      BY <2>4, <2>6, AppendProperties
  <2>8. both = beginning \o <<Long, last>>
    BY <2>2, <2>4, <2>5, TwoMore
  <2>9. Seq(N) \subseteq Seq(Seq(S))
    BY <1>1, SeqsOfMore
  <2>10. Len(Join(one)) = Len(Join(beginning)) + 1 + Len(Long) /\ Join(beginning) \in Seq(S)
    BY <1>1, <2>2, <2>5, <2>9, JoinOneMore
  <2>11. Len(Join(both)) = Len(Join(one)) + 1 + Len(last)
    <3>1. one \in Seq(Seq(S)) /\ last \in Seq(S) /\ one # <<>>
      BY <1>1, <2>4, <2>6, <2>9
    <3> HIDE DEF one
    <3> QED
      BY <3>1, JoinOneMore
  <2>12. Len(Join(both)) <= PathLimit
    <3>1. Len(Join(beginning)) \in Nat /\ Len(last) \in Nat
      BY <1>1, <2>4, <2>10
    <3> HIDE DEF one, both
    <3> QED
      BY <2>2, <2>4, <2>5, <2>10, <2>11, <3>1, NameLimits
  <2> QED
    BY <2>1, <2>7, <2>8, <2>12 DEF N
<1> QED
  BY <1>2, <1>3, <1>4, NameLimits

\* relative_path_for(): every component of a stored path is a safe name, whatever the URL
\* and whatever its segments decode to, so that no file is stored outside the mirror; and
\* the path is not too long.  What has only been sanitised ends well, unless it was cut.
THEOREM StoredPathIsSafe ==
  ASSUME NEW S, "/" \in S, Words \subseteq S, \A e \in DOMAIN Unescaped : Unescaped[e] \in S,
         NEW url, NEW primary, NEW kind,
         url.scheme \in S, url.host \in Seq(S), ShowPort(url.port) \in S,
         ShortHash(url.query) \in S, Segments(url.path) \in Seq(Seq(S)),
         Last(url.path) = "/" \/ Segments(url.path) # <<>>,
         NEW full, full = FullPath(url, primary, kind),
         ShortHash(Join(full)) \in S, HashIsName(ShortHash(Join(full))),
         NEW path, path = PathFor(url, primary, kind)
  PROVE  /\ full \in Seq(SafeNames(S)) \ {<<>>}
         /\ path \in Seq(SafeNames(S)) \ {<<>>} /\ Len(Join(path)) <= PathLimit
         /\ path = full => \A i \in DOMAIN path : EndsWell(path[i])
         /\ path = Shortened(full)
<1>1. full \in Seq(WholeNames(S)) \ {<<>>}
  BY FullPathIsSafe
<1>2. full \in Seq(SafeNames(S)) /\ \A i \in DOMAIN full : EndsWell(full[i])
  <2>1. WholeNames(S) \subseteq SafeNames(S) /\ \A name \in WholeNames(S) : EndsWell(name)
    BY DEF WholeNames
  <2> DEFINE W == WholeNames(S)
  <2> HIDE DEF W
  <2>2. full \in Seq(W) /\ \A i \in DOMAIN full : full[i] \in W
    BY <1>1 DEF W
  <2>3. Seq(W) \subseteq Seq(SafeNames(S))
    BY <2>1, SeqsOfMore DEF W
  <2> QED
    BY <2>1, <2>2, <2>3 DEF W
<1>3. path = Shortened(full)
  BY DEF PathFor
<1>4. full # <<>>
  BY <1>1
<1>5. Shortened(full) \in Seq(SafeNames(S)) \ {<<>>} /\ Len(Join(Shortened(full))) <= PathLimit
  BY <1>2, <1>4, ShortenedIsSafe
<1> QED
  BY <1>2, <1>3, <1>4, <1>5

-----------------------------------------------------------------------------
(* Texts taken apart at a separator.                                       *)

\* The function that split() is defined by.
PieceOf(text, separator, before, n) ==
  IF text[n] = separator THEN before
  ELSE IF n = 1 \/ text[n - 1] = separator THEN Append(before, <<text[n]>>)
  ELSE Append(Front(before), Append(Last(before), text[n]))
Splits(f, text, separator) ==
  f = [n \in 0 .. Len(text) |-> IF n = 0 THEN <<>> ELSE PieceOf(text, separator, f[n - 1], n)]

\* A word between separators.
WordsOver(S, separator) == Seq(S \ {separator}) \ {<<>>}

LEMMA SplitExists ==
  ASSUME NEW S, NEW text \in Seq(S), NEW separator
  PROVE  \E f : Splits(f, text, separator)
<1> DEFINE N == Len(text)
           T == Seq(Seq(S))
           blank == [x \in T \X (1 .. N) |->
                       IF x[1] = <<>> /\ ~(text[x[2]] = separator \/ x[2] = 1 \/ text[x[2] - 1] = separator)
                       THEN <<>> ELSE PieceOf(text, separator, x[1], x[2])]
<1>1. N \in Nat /\ <<>> \in T /\ \A n \in 1 .. N : text[n] \in S
  OBVIOUS
<1>2. ASSUME NEW before \in T, NEW n \in 1 .. N PROVE blank[<<before, n>>] \in T
  <2>1. CASE before = <<>> /\ ~(text[n] = separator \/ n = 1 \/ text[n - 1] = separator)
    BY <1>1, <2>1
  <2>2. CASE text[n] = separator
    BY <2>2 DEF PieceOf
  <2>3. CASE text[n] # separator /\ (n = 1 \/ text[n - 1] = separator)
    <3>1. <<text[n]>> \in Seq(S)
      BY <1>1
    <3>2. Append(before, <<text[n]>>) \in T
      BY <3>1, AppendProperties
    <3>3. blank[<<before, n>>] = PieceOf(text, separator, before, n)
      BY <2>3
    <3> QED
      BY <2>3, <3>2, <3>3 DEF PieceOf
  <2>4. CASE before # <<>> /\ ~(text[n] = separator \/ n = 1 \/ text[n - 1] = separator)
    <3>1. Len(before) \in Nat \ {0} /\ \A i \in 1 .. Len(before) : before[i] \in Seq(S)
      BY <2>4
    <3>2. Front(before) \in T
      <4>1. \A i \in 1 .. Len(before) - 1 : before[i] \in Seq(S)
        BY <3>1
      <4> QED
        BY <3>1, <4>1, SubSeqProperties DEF Front
    <3>3. Last(before) \in Seq(S)
      BY <3>1 DEF Last
    <3>4. Append(Last(before), text[n]) \in Seq(S)
      BY <1>1, <3>3, AppendProperties
    <3>5. Append(Front(before), Append(Last(before), text[n])) \in T
      BY <3>2, <3>4, AppendProperties
    <3>6. blank[<<before, n>>] = PieceOf(text, separator, before, n)
      BY <2>4
    <3> QED
      BY <2>4, <3>5, <3>6 DEF PieceOf
  <2> QED
    BY <2>1, <2>2, <2>3, <2>4
<1>3. blank \in [T \X (1 .. N) -> T]
  <2>1. \A x \in T \X (1 .. N) : blank[x] \in T
    <3> TAKE x \in T \X (1 .. N)
    <3>1. x = <<x[1], x[2]>> /\ x[1] \in T /\ x[2] \in 1 .. N
      OBVIOUS
    <3> HIDE DEF blank
    <3>2. blank[<<x[1], x[2]>>] \in T
      BY <1>2, <3>1
    <3> QED
      BY <3>1, <3>2, Zenon
  <2> QED
    BY <2>1
<1>4. PICK f \in [0 .. N -> T] :
        f[0] = <<>> /\ \A n \in 1 .. N : f[n] = blank[<<f[n - 1], n>>]
  <2> DEFINE base == <<>>
  <2>1. base \in T /\ N \in Nat
    BY <1>1
  <2> HIDE DEF blank, T, N, base
  <2>2. PICK f \in [0 .. N -> T] : StepByStep(f, N, base, blank)
    BY <1>3, <2>1, FoldExists
  <2> QED
    BY <2>2 DEF base, StepByStep
<1>5. \A n \in 1 .. N : f[n] = blank[<<f[n - 1], n>>] /\ f[n - 1] \in T
  <2>1. N \in Nat
    BY <1>1
  <2> HIDE DEF N, T, blank
  <2>2. \A n \in 1 .. N : n - 1 \in 0 .. N
    BY <2>1
  <2> QED
    BY <1>4, <2>2
<1>6. \A n \in 1 .. N : f[n] = IF f[n - 1] = <<>> /\ ~(text[n] = separator \/ n = 1 \/ text[n - 1] = separator)
                               THEN <<>> ELSE PieceOf(text, separator, f[n - 1], n)
  <2> TAKE n \in 1 .. N
  <2>1. <<f[n - 1], n>> \in T \X (1 .. N)
    BY <1>5
  <2> QED
    BY <1>5, <2>1
<1> HIDE DEF blank
<1> DEFINE good == {n \in 0 .. N : n = 0 \/ text[n] = separator \/ f[n] # <<>>}
<1>7. 0 .. N \subseteq good
  <2>1. 0 \in good
    BY <1>1
  <2>2. ASSUME NEW n \in 0 .. N - 1, n \in good PROVE n + 1 \in good
    <3>1. n + 1 \in 1 .. N /\ n + 1 \in 0 .. N /\ (n + 1) - 1 = n
      BY <1>1
    <3>2. f[n + 1] = IF f[n] = <<>> /\ ~(text[n + 1] = separator \/ n + 1 = 1 \/ text[n] = separator)
                     THEN <<>> ELSE PieceOf(text, separator, f[n], n + 1)
      BY <1>6, <3>1
    <3>3. SUFFICES ASSUME text[n + 1] # separator PROVE f[n + 1] # <<>>
      BY <3>1
    <3>4. n = 0 \/ text[n] = separator \/ f[n] # <<>>
      BY <2>2
    <3>5. f[n + 1] = PieceOf(text, separator, f[n], n + 1)
      BY <3>2, <3>4
    <3>6. \/ f[n + 1] = Append(f[n], <<text[n + 1]>>)
          \/ f[n + 1] = Append(Front(f[n]), Append(Last(f[n]), text[n + 1])) /\ f[n] # <<>>
      BY <3>1, <3>3, <3>4, <3>5 DEF PieceOf
    <3>7. f[n] \in Seq(Seq(S))
      BY <1>4, <3>1
    <3>8. CASE f[n + 1] = Append(f[n], <<text[n + 1]>>)
      <4>1. <<text[n + 1]>> \in Seq(S)
        BY <1>1, <3>1
      <4> QED
        BY <3>7, <3>8, <4>1, AppendProperties
    <3>9. CASE f[n + 1] = Append(Front(f[n]), Append(Last(f[n]), text[n + 1])) /\ f[n] # <<>>
      <4>1. Len(f[n]) \in Nat \ {0}
        BY <3>7, <3>9
      <4>2. Front(f[n]) \in Seq(Seq(S))
        <5>1. \A i \in 1 .. Len(f[n]) - 1 : f[n][i] \in Seq(S)
          BY <3>7, <4>1
        <5> QED
          BY <4>1, <5>1, SubSeqProperties DEF Front
      <4>3. Last(f[n]) \in Seq(S)
        BY <3>7, <4>1 DEF Last
      <4>4. Append(Last(f[n]), text[n + 1]) \in Seq(S)
        BY <1>1, <3>1, <4>3, AppendProperties
      <4>5. \A list \in Seq(Seq(S)), s \in Seq(S) : Append(list, s) # <<>>
        BY AppendProperties, SMTT(30)
      <4> QED
        BY <3>9, <4>2, <4>4, <4>5
    <3> QED
      BY <3>6, <3>8, <3>9
  <2> HIDE DEF good
  <2> QED
    BY <1>1, <2>1, <2>2, AllNumbers
<1>8. ASSUME NEW n \in 1 .. N PROVE f[n] = PieceOf(text, separator, f[n - 1], n)
  <2>1. n - 1 \in 0 .. N /\ (n - 1 = 0 => n = 1)
    BY <1>1
  <2>2. n - 1 \in good
    BY <1>7, <2>1
  <2> QED
    BY <1>6, <2>1, <2>2
<1>9. f = [n \in 0 .. N |-> IF n = 0 THEN <<>> ELSE PieceOf(text, separator, f[n - 1], n)]
  <2> DEFINE g == [n \in 0 .. N |-> IF n = 0 THEN <<>> ELSE PieceOf(text, separator, f[n - 1], n)]
  <2>1. N \in Nat
    BY <1>1
  <2> HIDE DEF N
  <2>2. \A n \in 0 .. N : f[n] = g[n]
    <3> TAKE n \in 0 .. N
    <3>1. n = 0 \/ n \in 1 .. N
      BY <2>1
    <3> QED
      BY <1>4, <1>8, <3>1
  <2>3. DOMAIN f = 0 .. N /\ f = [n \in 0 .. N |-> f[n]]
    BY <1>4
  <2> QED
    BY <2>2, <2>3
<1> QED
  BY <1>9 DEF Splits

LEMMA SplitIs ==
  ASSUME NEW S, NEW text \in Seq(S), NEW separator
  PROVE  \E f : Splits(f, text, separator) /\ Split(text, separator) = f[Len(text)]
<1>1. PICK f : Splits(f, text, separator)
  BY SplitExists
<1> DEFINE g == CHOOSE g : Splits(g, text, separator)
<1>2. Splits(g, text, separator)
  BY <1>1
<1>3. Split(text, separator) = g[Len(text)]
  BY DEF Split, Splits, PieceOf
<1> QED
  BY <1>2, <1>3

\* The empty text.
LEMMA SplitNone == ASSUME NEW separator PROVE Split(<<>>, separator) = <<>>
<1>1. PICK f : Splits(f, <<>>, separator) /\ Split(<<>>, separator) = f[0]
  <2>1. <<>> \in Seq({}) /\ Len(<<>>) = 0
    OBVIOUS
  <2> QED
    BY <2>1, SplitIs
<1>2. f = [n \in 0 .. 0 |-> IF n = 0 THEN <<>> ELSE PieceOf(<<>>, separator, f[n - 1], n)]
  BY <1>1 DEF Splits
<1>3. 0 \in 0 .. 0
  OBVIOUS
<1> QED
  BY <1>1, <1>2, <1>3

\* A text that is longer by one character.
LEMMA SplitOneMore ==
  ASSUME NEW S, NEW text \in Seq(S), NEW c \in S, NEW separator
  PROVE  Split(Append(text, c), separator) =
           IF c = separator THEN Split(text, separator)
           ELSE IF text = <<>> \/ Last(text) = separator THEN Append(Split(text, separator), <<c>>)
           ELSE Append(Front(Split(text, separator)), Append(Last(Split(text, separator)), c))
<1> DEFINE more == Append(text, c)
           N == Len(text)
<1>1. /\ more \in Seq(S) /\ Len(more) = N + 1 /\ more[N + 1] = c /\ N \in Nat
      /\ \A i \in 1 .. N : more[i] = text[i]
  BY AppendProperties
<1> HIDE DEF more
<1>2. PICK f : Splits(f, text, separator) /\ Split(text, separator) = f[N]
  BY SplitIs
<1>3. PICK g : Splits(g, more, separator) /\ Split(more, separator) = g[N + 1]
  BY <1>1, SplitIs
<1>4. /\ f[0] = <<>> /\ g[0] = <<>>
      /\ \A n \in 1 .. N : f[n] = PieceOf(text, separator, f[n - 1], n)
      /\ \A n \in 1 .. N + 1 : g[n] = PieceOf(more, separator, g[n - 1], n)
  <2>1. f = [n \in 0 .. N |-> IF n = 0 THEN <<>> ELSE PieceOf(text, separator, f[n - 1], n)]
    BY <1>2 DEF Splits
  <2>2. g = [n \in 0 .. N + 1 |-> IF n = 0 THEN <<>> ELSE PieceOf(more, separator, g[n - 1], n)]
    BY <1>1, <1>3 DEF Splits
  <2>3. 0 \in 0 .. N /\ 0 \in 0 .. N + 1
    BY <1>1
  <2>4. f[0] = <<>> /\ g[0] = <<>>
    BY <2>1, <2>2, <2>3
  <2>5. ASSUME NEW n \in 1 .. N PROVE f[n] = PieceOf(text, separator, f[n - 1], n)
    <3>1. n \in 0 .. N /\ n # 0
      BY <1>1
    <3> QED
      BY <2>1, <3>1
  <2>6. ASSUME NEW n \in 1 .. N + 1 PROVE g[n] = PieceOf(more, separator, g[n - 1], n)
    <3>1. n \in 0 .. N + 1 /\ n # 0
      BY <1>1
    <3> QED
      BY <2>2, <3>1
  <2> QED
    BY <2>4, <2>5, <2>6
<1> DEFINE same == {n \in 0 .. N : f[n] = g[n]}
<1>5. 0 .. N \subseteq same
  <2>1. 0 \in same
    BY <1>1, <1>4
  <2>2. ASSUME NEW n \in 0 .. N - 1, n \in same PROVE n + 1 \in same
    <3>1. n + 1 \in 1 .. N /\ n + 1 \in 1 .. N + 1 /\ n + 1 \in 0 .. N /\ (n + 1) - 1 = n
      BY <1>1
    <3>2. f[n] = g[n]
      BY <2>2
    <3>3. more[n + 1] = text[n + 1]
      BY <1>1, <3>1
    <3>4. n + 1 = 1 \/ more[n] = text[n]
      BY <1>1, <3>1
    <3>5. f[n + 1] = PieceOf(text, separator, f[n], n + 1) /\ g[n + 1] = PieceOf(more, separator, g[n], n + 1)
      BY <1>4, <3>1
    <3>6. PieceOf(text, separator, f[n], n + 1) = PieceOf(more, separator, g[n], n + 1)
      BY <3>1, <3>2, <3>3, <3>4, Zenon DEF PieceOf
    <3> QED
      BY <3>1, <3>5, <3>6
  <2> HIDE DEF same
  <2> QED
    BY <1>1, <2>1, <2>2, AllNumbers
<1>6. g[N] = Split(text, separator)
  BY <1>1, <1>2, <1>5
<1>7. g[N + 1] = PieceOf(more, separator, g[N], N + 1)
  <2>1. N + 1 \in 1 .. N + 1 /\ (N + 1) - 1 = N
    BY <1>1
  <2> QED
    BY <1>4, <2>1
<1>8. (N + 1 = 1 <=> text = <<>>) /\ (N + 1 # 1 => more[N] = Last(text)) /\ (N + 1) - 1 = N
  BY <1>1 DEF Last
<1>9. PieceOf(more, separator, g[N], N + 1) =
        IF c = separator THEN g[N]
        ELSE IF text = <<>> \/ Last(text) = separator THEN Append(g[N], <<c>>)
        ELSE Append(Front(g[N]), Append(Last(g[N]), c))
  BY <1>1, <1>8, Zenon DEF PieceOf
<1> QED
  BY <1>3, <1>6, <1>7, <1>9 DEF more

-----------------------------------------------------------------------------
(* First and last elements.                                                *)

LEMMA FrontAndLast ==
  ASSUME NEW S, NEW s \in Seq(S), s # <<>>
  PROVE  /\ Front(s) \in Seq(S) /\ Last(s) \in S /\ s = Append(Front(s), Last(s))
         /\ Len(Front(s)) = Len(s) - 1 /\ \A i \in 1 .. Len(s) - 1 : Front(s)[i] = s[i]
<1>1. Len(s) \in Nat \ {0} /\ \A i \in 1 .. Len(s) : s[i] \in S
  OBVIOUS
<1>2. \A i \in 1 .. Len(s) - 1 : s[i] \in S
  BY <1>1
<1>3. /\ Front(s) \in Seq(S) /\ Len(Front(s)) = Len(s) - 1
      /\ \A i \in 1 .. Len(s) - 1 : Front(s)[i] = s[i]
  <2> DEFINE n == Len(s) - 1
  <2>0. n \in Nat
    BY <1>1
  <2>1. n \in Nat /\ (IF 1 <= n THEN n - 1 + 1 ELSE 0) = n /\ n - 1 + 1 = n
    <3> HIDE DEF n
    <3> QED
      BY <2>0
  <2>2. \A i \in 1 .. n : s[1 + i - 1] = s[i]
    OBVIOUS
  <2>3. /\ SubSeq(s, 1, n) \in Seq(S) /\ Len(SubSeq(s, 1, n)) = IF 1 <= n THEN n - 1 + 1 ELSE 0
        /\ \A i \in 1 .. n - 1 + 1 : SubSeq(s, 1, n)[i] = s[1 + i - 1]
    <3> HIDE DEF n
    <3>1. n \in Int /\ 1 \in Int /\ \A i \in 1 .. n : s[i] \in S
      BY <1>2, <2>1 DEF n
    <3> QED
      BY <3>1, SubSeqProperties
  <2> QED
    BY <2>1, <2>2, <2>3 DEF Front
<1>4. Last(s) \in S
  BY <1>1 DEF Last
<1>5. Len(s) \in 1 .. Len(s) /\ 1 \in 1 .. Len(s)
  BY <1>1
<1>6. SubSeq(s, 1, Len(s)) = Front(s) \o <<Last(s)>>
  BY <1>5, SubSeqRecursiveSecond DEF Front, Last
<1>7. s = Front(s) \o <<Last(s)>>
  BY <1>6, SubSeqFull
<1> QED
  BY <1>3, <1>4, <1>7, AppendIsConcat

LEMMA AppendEnds ==
  ASSUME NEW S, NEW s \in Seq(S), NEW c \in S
  PROVE  /\ Append(s, c) \in Seq(S) /\ Append(s, c) # <<>>
         /\ Front(Append(s, c)) = s /\ Last(Append(s, c)) = c
         /\ s # <<>> => Append(s, c)[1] = s[1]
         /\ s = <<>> => Append(s, c)[1] = c
         /\ Append(s, c) = s \o <<c>>
<1> DEFINE t == Append(s, c)
<1>1. t \in Seq(S) /\ t # <<>> /\ Len(t) = Len(s) + 1 /\ t[Len(s) + 1] = c /\ Len(s) \in Nat
      /\ \A i \in 1 .. Len(s) : t[i] = s[i]
  BY AppendProperties
<1>2. t = Append(Front(t), Last(t)) /\ Front(t) \in Seq(S) /\ Last(t) \in S
  BY <1>1, FrontAndLast
<1>3. Front(t) = s /\ Last(t) = c
  BY <1>2, AppendInjective
<1>4. s # <<>> => 1 \in 1 .. Len(s)
  BY <1>1
<1>5. s = <<>> => Len(s) + 1 = 1
  OBVIOUS
<1> QED
  BY <1>1, <1>3, <1>4, <1>5, AppendIsConcat

LEMMA ConcatAppend ==
  ASSUME NEW S, NEW a \in Seq(S), NEW b \in Seq(S), NEW c \in S
  PROVE  a \o Append(b, c) = Append(a \o b, c)
<1>1. <<c>> \in Seq(S) /\ a \o b \in Seq(S)
  OBVIOUS
<1>2. Append(b, c) = b \o <<c>> /\ Append(a \o b, c) = (a \o b) \o <<c>>
  BY <1>1, AppendIsConcat
<1>3. (a \o b) \o <<c>> = a \o (b \o <<c>>)
  BY <1>1, ConcatAssociative
<1> QED
  BY <1>2, <1>3

LEMMA ConcatEnds ==
  ASSUME NEW S, NEW a \in Seq(S), NEW b \in Seq(S)
  PROVE  /\ b # <<>> => /\ a \o b # <<>> /\ Last(a \o b) = Last(b) /\ Front(a \o b) = a \o Front(b)
         /\ a # <<>> => a \o b # <<>> /\ (a \o b)[1] = a[1]
<1>1. a \o b \in Seq(S) /\ Len(a \o b) = Len(a) + Len(b) /\ Len(a) \in Nat /\ Len(b) \in Nat
  BY ConcatProperties
<1>2. ASSUME b # <<>>
      PROVE a \o b # <<>> /\ Last(a \o b) = Last(b) /\ Front(a \o b) = a \o Front(b)
  <2>1. Front(b) \in Seq(S) /\ Last(b) \in S /\ b = Append(Front(b), Last(b))
    BY <1>2, FrontAndLast
  <2> DEFINE front == Front(b)
             last == Last(b)
  <2>2. front \in Seq(S) /\ last \in S /\ b = Append(front, last)
    BY <2>1
  <2> HIDE DEF front, last
  <2>3. a \o Append(front, last) = Append(a \o front, last) /\ a \o front \in Seq(S)
    BY <2>2, ConcatAppend, ConcatProperties
  <2>4. /\ Append(a \o front, last) # <<>> /\ Last(Append(a \o front, last)) = last
        /\ Front(Append(a \o front, last)) = a \o front
    BY <2>2, <2>3, AppendEnds, ZenonT(30)
  <2> QED
    BY <2>2, <2>3, <2>4 DEF front, last
<1>3. ASSUME a # <<>> PROVE a \o b # <<>> /\ (a \o b)[1] = a[1]
  <2>1. Len(a) # 0 /\ 1 \in 1 .. Len(a) + Len(b) /\ 1 <= Len(a)
    BY <1>1, <1>3
  <2> QED
    BY <1>1, <2>1, ConcatProperties
<1> QED
  BY <1>2, <1>3

-----------------------------------------------------------------------------
(* What split() makes of a text.                                           *)

\* Words, at least one of them if the text does not end in a separator.
LEMMA SplitWords ==
  ASSUME NEW S, NEW separator, NEW text \in Seq(S)
  PROVE  /\ Split(text, separator) \in Seq(WordsOver(S, separator))
         /\ text # <<>> /\ Last(text) # separator => Split(text, separator) # <<>>
<1> DEFINE W == WordsOver(S, separator)
           T == {t \in Seq(S) : /\ Split(t, separator) \in Seq(W)
                                /\ t # <<>> /\ Last(t) # separator => Split(t, separator) # <<>>}
<1>1. <<>> \in T
  <2>1. <<>> \in Seq(S) /\ <<>> \in Seq(W)
    OBVIOUS
  <2> QED
    BY <2>1, SplitNone
<1>2. ASSUME NEW t \in Seq(S), t \in T, NEW c \in S PROVE Append(t, c) \in T
  <2> DEFINE before == Split(t, separator)
             after == Split(Append(t, c), separator)
  <2>1. /\ Append(t, c) \in Seq(S) /\ Last(Append(t, c)) = c
        /\ before \in Seq(W) /\ (t # <<>> /\ Last(t) # separator => before # <<>>)
    BY <1>2, AppendEnds, ZenonT(30)
  <2>2. after = IF c = separator THEN before
                ELSE IF t = <<>> \/ Last(t) = separator THEN Append(before, <<c>>)
                ELSE Append(Front(before), Append(Last(before), c))
    BY SplitOneMore
  <2> HIDE DEF before, after
  <2>3. CASE c = separator
    BY <2>1, <2>2, <2>3 DEF after
  <2>4. CASE c # separator /\ (t = <<>> \/ Last(t) = separator)
    <3>1. <<c>> \in W
      BY <2>4 DEF WordsOver
    <3> HIDE DEF W
    <3>2. Append(before, <<c>>) \in Seq(W) /\ Append(before, <<c>>) # <<>>
      BY <2>1, <3>1, AppendEnds
    <3> QED
      BY <2>1, <2>2, <2>4, <3>2 DEF after
  <2>5. CASE c # separator /\ t # <<>> /\ Last(t) # separator
    <3>1. before # <<>> /\ Front(before) \in Seq(W) /\ Last(before) \in W
      <4> HIDE DEF W
      <4> QED
        BY <2>1, <2>5, FrontAndLast
    <3>2. Append(Last(before), c) \in W
      <4>1. Last(before) \in Seq(S \ {separator}) /\ c \in S \ {separator}
        BY <2>5, <3>1 DEF WordsOver
      <4>2. Append(Last(before), c) \in Seq(S \ {separator}) /\ Append(Last(before), c) # <<>>
        BY <4>1, AppendProperties, SMTT(30)
      <4> QED
        BY <4>2 DEF WordsOver
    <3> DEFINE word == Append(Last(before), c)
    <3> HIDE DEF W, word
    <3>3. Append(Front(before), word) \in Seq(W) /\ Append(Front(before), word) # <<>>
      BY <3>1, <3>2, AppendEnds DEF word
    <3> QED
      BY <2>1, <2>2, <2>5, <3>3 DEF after, word
  <2> QED
    BY <2>3, <2>4, <2>5
<1> HIDE DEF T
<1>3. Seq(S) \subseteq T
  BY <1>1, <1>2, AllSequences
<1> QED
  BY <1>3 DEF T

\* Texts between which there is a separator are split one by one.
LEMMA SplitConcat ==
  ASSUME NEW S, NEW separator, NEW a \in Seq(S), NEW b \in Seq(S),
         \/ a = <<>> \/ Last(a) = separator
         \/ b = <<>> \/ b[1] = separator
  PROVE  Split(a \o b, separator) = Split(a, separator) \o Split(b, separator)
<1> DEFINE W == WordsOver(S, separator)
           parts(t) == Split(t, separator)
           apart(t) == a = <<>> \/ Last(a) = separator \/ t = <<>> \/ t[1] = separator
           T == {t \in Seq(S) : apart(t) => parts(a \o t) = parts(a) \o parts(t)}
<1>0. \A t \in Seq(S) : parts(t) \in Seq(W)
  BY SplitWords
<1>1. <<>> \in T
  <2>1. parts(<<>>) = <<>> /\ <<>> \in Seq(S)
    BY SplitNone
  <2>2. a \o <<>> = a
    BY ConcatEmptySeq
  <2>3. parts(a) \o <<>> = parts(a)
    <3> HIDE DEF parts, W
    <3> QED
      BY <1>0, ConcatEmptySeq
  <2> HIDE DEF parts, apart
  <2> QED
    BY <2>1, <2>2, <2>3
<1>2. ASSUME NEW t \in Seq(S), t \in T, NEW c \in S PROVE Append(t, c) \in T
  <2>1. /\ Append(t, c) \in Seq(S) /\ a \o Append(t, c) = Append(a \o t, c)
        /\ a \o t \in Seq(S)
        /\ (t # <<>> => a \o t # <<>> /\ Last(a \o t) = Last(t))
        /\ (t = <<>> => a \o t = a)
        /\ (t # <<>> => Append(t, c)[1] = t[1]) /\ (t = <<>> => Append(t, c)[1] = c)
    <3> HIDE DEF T, W, apart, parts
    <3>1. Append(t, c) \in Seq(S) /\ (t # <<>> => Append(t, c)[1] = t[1]) /\ (t = <<>> => Append(t, c)[1] = c)
      BY <1>2, AppendEnds
    <3>2. a \o Append(t, c) = Append(a \o t, c)
      BY <1>2, ConcatAppend
    <3>3. a \o t \in Seq(S)
      BY <1>2, ConcatProperties
    <3>4. t # <<>> => a \o t # <<>> /\ Last(a \o t) = Last(t)
      BY <1>2, ConcatEnds
    <3>5. t = <<>> => a \o t = a
      BY ConcatEmptySeq
    <3> QED
      BY <3>1, <3>2, <3>3, <3>4, <3>5
  <2> SUFFICES ASSUME apart(Append(t, c)) PROVE parts(a \o Append(t, c)) = parts(a) \o parts(Append(t, c))
    BY <2>1
  <2>2. apart(t) /\ (t = <<>> => c = separator \/ a = <<>> \/ Last(a) = separator)
    BY <2>1, AppendEnds, SMTT(30)
  <2>3. parts(a \o t) = parts(a) \o parts(t)
    BY <1>2, <2>2
  <2>4. parts(Append(a \o t, c)) =
          IF c = separator THEN parts(a \o t)
          ELSE IF a \o t = <<>> \/ Last(a \o t) = separator THEN Append(parts(a \o t), <<c>>)
          ELSE Append(Front(parts(a \o t)), Append(Last(parts(a \o t)), c))
    <3> DEFINE both == a \o t
    <3>1. both \in Seq(S)
      BY <2>1
    <3> HIDE DEF both, parts
    <3>2. Split(Append(both, c), separator) =
            IF c = separator THEN Split(both, separator)
            ELSE IF both = <<>> \/ Last(both) = separator THEN Append(Split(both, separator), <<c>>)
            ELSE Append(Front(Split(both, separator)), Append(Last(Split(both, separator)), c))
      BY <3>1, SplitOneMore
    <3> QED
      BY <3>2 DEF both, parts
  <2>5. parts(Append(t, c)) =
          IF c = separator THEN parts(t)
          ELSE IF t = <<>> \/ Last(t) = separator THEN Append(parts(t), <<c>>)
          ELSE Append(Front(parts(t)), Append(Last(parts(t)), c))
    BY SplitOneMore, SMTT(30)
  <2>6. parts(a) \in Seq(W) /\ parts(t) \in Seq(W) /\ (t # <<>> /\ Last(t) # separator => parts(t) # <<>>)
    BY SplitWords
  <2>7. c # separator => <<c>> \in W
    BY DEF WordsOver
  <2>8. ASSUME c # separator, t # <<>>, Last(t) # separator
        PROVE  Append(Last(parts(t)), c) \in W
    <3>1. Last(parts(t)) \in W
      <4> HIDE DEF W, parts
      <4> QED
        BY <2>6, <2>8, FrontAndLast
    <3>2. Last(parts(t)) \in Seq(S \ {separator}) /\ c \in S \ {separator}
      BY <2>8, <3>1 DEF WordsOver
    <3>3. Append(Last(parts(t)), c) \in Seq(S \ {separator}) /\ Append(Last(parts(t)), c) # <<>>
      <4> DEFINE last == Last(parts(t))
                 Rest == S \ {separator}
      <4>1. last \in Seq(Rest) /\ c \in Rest
        BY <3>2
      <4> HIDE DEF last, Rest, parts, T, W, apart
      <4>2. Append(last, c) \in Seq(Rest) /\ Append(last, c) # <<>>
        BY <4>1, AppendProperties
      <4> QED
        BY <4>2 DEF last, Rest
    <3> HIDE DEF parts
    <3> QED
      BY <3>3 DEF WordsOver
  <2> HIDE DEF parts, W
  <2>9. CASE c = separator
    BY <2>1, <2>3, <2>4, <2>5, <2>9
  <2>10. CASE c # separator /\ (t = <<>> \/ Last(t) = separator)
    <3>1. a \o t = <<>> \/ Last(a \o t) = separator
      BY <2>1, <2>2, <2>10
    <3>2. parts(a) \o Append(parts(t), <<c>>) = Append(parts(a) \o parts(t), <<c>>)
      BY <2>6, <2>7, <2>10, ConcatAppend
    <3> QED
      BY <2>1, <2>3, <2>4, <2>5, <2>10, <3>1, <3>2
  <2>11. CASE c # separator /\ t # <<>> /\ Last(t) # separator
    <3> DEFINE x == parts(a)
               y == parts(t)
               z == Append(Last(parts(t)), c)
    <3>1. x \in Seq(W) /\ y \in Seq(W) /\ z \in W /\ y # <<>>
      BY <2>6, <2>8, <2>11
    <3>2. a \o t # <<>> /\ Last(a \o t) # separator
      BY <2>1, <2>11
    <3>3. Last(x \o y) = Last(y) /\ Front(x \o y) = x \o Front(y) /\ Front(y) \in Seq(W)
      BY <3>1, ConcatEnds, FrontAndLast
    <3>4. x \o Append(Front(y), z) = Append(x \o Front(y), z)
      <4> DEFINE u == Front(y)
      <4>1. x \in Seq(W) /\ u \in Seq(W) /\ z \in W
        BY <3>1, <3>3
      <4> HIDE DEF x, u, z, T, apart
      <4>2. x \o Append(u, z) = Append(x \o u, z)
        BY <4>1, ConcatAppend, SMTT(30)
      <4> QED
        BY <4>2 DEF u
    <3> QED
      BY <2>1, <2>3, <2>4, <2>5, <2>11, <3>2, <3>3, <3>4
  <2> QED
    BY <2>9, <2>10, <2>11
<1> HIDE DEF T
<1>3. Seq(S) \subseteq T
  BY <1>1, <1>2, AllSequences
<1> QED
  BY <1>3 DEF T

LEMMA SplitWord ==
  ASSUME NEW S, NEW separator, NEW word \in WordsOver(S, separator)
  PROVE  Split(word, separator) = <<word>>
<1> DEFINE C == S \ {separator}
           T == {t \in Seq(C) : t # <<>> => Split(t, separator) = <<t>>}
<1>1. <<>> \in T
  OBVIOUS
<1>2. ASSUME NEW t \in Seq(C), t \in T, NEW c \in C PROVE Append(t, c) \in T
  <2>1. Append(t, c) \in Seq(C) /\ (t # <<>> => Last(t) \in C)
    BY AppendEnds, FrontAndLast
  <2>2. Split(Append(t, c), separator) =
          IF c = separator THEN Split(t, separator)
          ELSE IF t = <<>> \/ Last(t) = separator THEN Append(Split(t, separator), <<c>>)
          ELSE Append(Front(Split(t, separator)), Append(Last(Split(t, separator)), c))
    BY SplitOneMore
  <2>3. c # separator
    OBVIOUS
  <2>4. CASE t = <<>>
    <3>1. Split(Append(t, c), separator) = Append(<<>>, <<c>>)
      BY <2>2, <2>3, <2>4, SplitNone
    <3>2. Append(t, c) = <<c>>
      BY <2>4
    <3> QED
      BY <2>1, <3>1, <3>2
  <2>5. CASE t # <<>>
    <3>1. Split(t, separator) = <<t>> /\ Last(t) # separator
      BY <1>2, <2>1, <2>5
    <3>2. Len(<<t>>) = 1 /\ SubSeq(<<t>>, 1, 0) = <<>>
      BY SubSeqEmpty
    <3>3. Front(<<t>>) = <<>> /\ Last(<<t>>) = t
      BY <3>2 DEF Front, Last
    <3>4. Split(Append(t, c), separator) = Append(<<>>, Append(t, c))
      BY <2>2, <2>3, <2>5, <3>1, <3>3
    <3> QED
      BY <2>1, <3>4
  <2> QED
    BY <2>4, <2>5
<1>3. Seq(C) \subseteq T
  <2> HIDE DEF T, C
  <2> QED
    BY <1>1, <1>2, AllSequences
<1> QED
  BY <1>3 DEF WordsOver

\* The segments of a path.
Steps(S) == WordsOver(S, "/")

LEMMA StepsAreTexts ==
  ASSUME NEW S
  PROVE  Steps(S) \subseteq Seq(S) /\ Seq(Steps(S)) \subseteq Seq(Seq(S))
<1>1. Steps(S) \subseteq Seq(S)
  <2>1. \A s \in Seq(S \ {"/"}) : s \in Seq(S)
    <3> TAKE s \in Seq(S \ {"/"})
    <3>1. S \ {"/"} \subseteq S
      OBVIOUS
    <3> QED
      BY <3>1, SeqMonotonic
  <2> QED
    BY <2>1 DEF Steps, WordsOver
<1>2. \A list \in Seq(Steps(S)) : list \in Seq(Seq(S))
  <2> TAKE list \in Seq(Steps(S))
  <2> QED
    BY <1>1, SeqMonotonic
<1> QED
  BY <1>1, <1>2

LEMMA SlashIsNoSegment == Segments(<<"/">>) = <<>>
<1> DEFINE slash == "/"
<1>1. slash \in {slash} /\ <<>> \in Seq({slash})
  OBVIOUS
<1> HIDE DEF slash
<1>2. Split(Append(<<>>, slash), slash) = Split(<<>>, slash)
  BY <1>1, SplitOneMore
<1>3. Append(<<>>, slash) = <<slash>>
  OBVIOUS
<1>4. Split(<<slash>>, slash) = <<>>
  BY <1>2, <1>3, SplitNone
<1> QED
  BY <1>4 DEF slash, Segments

LEMMA SegmentsOfSlashed ==
  ASSUME NEW S, "/" \in S, NEW segments \in Seq(Steps(S))
  PROVE  Segments(Slashed(segments)) = segments
<1> DEFINE W == Steps(S)
           T == {list \in Seq(W) : Segments(Slashed(list)) = list}
<1>1. W \subseteq Seq(S) /\ \A list \in Seq(W) : list \in Seq(Seq(S))
  BY StepsAreTexts
<1>2. <<>> \in T
  <2>1. <<>> \in Seq(Seq(S)) /\ <<>> \in Seq(S)
    OBVIOUS
  <2>2. Slashed(<<>>) = <<>>
    BY <2>1, SlashedOneMore
  <2> QED
    BY <2>2, SplitNone DEF Segments
<1>3. ASSUME NEW list \in Seq(W), list \in T, NEW s \in W PROVE Append(list, s) \in T
  <2>0. s \in Seq(S) /\ list \in Seq(Seq(S)) /\ Append(list, s) \in Seq(W)
    <3> HIDE DEF W
    <3> QED
      BY <1>1, AppendProperties
  <2>1. Slashed(list) \in Seq(S) /\ Slashed(Append(list, s)) = Slashed(list) \o (<<"/">> \o s)
    BY <2>0, SlashedOneMore
  <2>2. <<"/">> \in Seq(S)
    OBVIOUS
  <2>3. <<"/">> \o s \in Seq(S) /\ (<<"/">> \o s)[1] = "/"
    BY <2>0, <2>2, ConcatEnds, ConcatProperties
  <2>4. Segments(<<"/">> \o s) = Segments(<<"/">>) \o Segments(s)
    <3>1. Last(<<"/">>) = "/"
      BY DEF Last
    <3> QED
      BY <2>0, <2>2, <3>1, SplitConcat, ZenonT(30) DEF Segments
  <2>5. Segments(<<"/">>) = <<>>
    BY SlashIsNoSegment
  <2>6. Segments(s) = <<s>>
    BY SplitWord DEF Steps, Segments
  <2>7. Segments(<<"/">> \o s) = <<s>>
    <3>1. <<s>> \in Seq(W)
      OBVIOUS
    <3>2. <<>> \o <<s>> = <<s>>
      BY <3>1, ConcatEmptySeq
    <3> QED
      BY <2>4, <2>5, <2>6, <3>2
  <2>8. Segments(Slashed(list) \o (<<"/">> \o s)) = Segments(Slashed(list)) \o Segments(<<"/">> \o s)
    BY <2>1, <2>3, SplitConcat, ZenonT(30) DEF Segments
  <2>9. Segments(Slashed(list)) = list
    BY <1>3
  <2>10. list \o <<s>> = Append(list, s)
    <3> HIDE DEF W
    <3> QED
      BY AppendIsConcat
  <2> QED
    BY <2>0, <2>1, <2>7, <2>8, <2>9, <2>10
<1>4. Seq(W) \subseteq T
  <2> HIDE DEF T, W
  <2> QED
    BY <1>2, <1>3, AllSequences
<1> QED
  BY <1>4

\* How a path of segments is read.
LEMMA SegmentsOfAbsolute ==
  ASSUME NEW S, "/" \in S, NEW segments \in Seq(Steps(S)), NEW directory \in BOOLEAN
  PROVE  /\ Absolute(segments, directory) \in Seq(S)
         /\ Absolute(segments, directory)[1] = "/"
         /\ Absolute(segments, directory) # <<>>
         /\ Segments(Absolute(segments, directory)) = segments
         /\ Last(Absolute(segments, directory)) = "/" <=> directory \/ segments = <<>>
<1>1. segments \in Seq(Seq(S))
  BY StepsAreTexts
<1> DEFINE text == Slashed(segments)
<1>2. text \in Seq(S) /\ Segments(text) = segments
  BY <1>1, SlashedOneMore, SegmentsOfSlashed
<1>3. <<"/">> \in Seq(S) /\ <<"/">> # <<>> /\ Last(<<"/">>) = "/" /\ <<"/">>[1] = "/"
  BY DEF Last
<1>4. CASE segments = <<>>
  <2>1. Absolute(segments, directory) = <<"/">>
    BY <1>1, <1>4, AbsoluteIsSlashed
  <2> QED
    BY <1>3, <1>4, <2>1, SlashIsNoSegment
<1>5. CASE segments # <<>>
  <2>1. text # <<>> /\ text[1] = "/"
    BY <1>1, <1>5, SlashedBegins
  <2>2. Absolute(segments, directory) = IF directory THEN text \o <<"/">> ELSE text
    BY <1>1, <1>5, AbsoluteIsSlashed
  <2>3. Last(text) # "/"
    <3>1. Front(segments) \in Seq(Steps(S)) /\ Last(segments) \in Steps(S)
          /\ segments = Append(Front(segments), Last(segments))
      BY <1>5, FrontAndLast
    <3> DEFINE front == Front(segments)
               last == Last(segments)
    <3>2. front \in Seq(Steps(S)) /\ last \in Steps(S) /\ segments = Append(front, last)
      BY <3>1
    <3> HIDE DEF front, last
    <3>3. front \in Seq(Seq(S)) /\ last \in Seq(S)
      BY <3>2, StepsAreTexts
    <3>4. text = Slashed(front) \o (<<"/">> \o last) /\ Slashed(front) \in Seq(S)
      BY <3>2, <3>3, SlashedOneMore
    <3>5. last # <<>> /\ Last(last) \in S \ {"/"}
      <4>1. last \in Seq(S \ {"/"}) /\ last # <<>>
        BY <3>2 DEF Steps, WordsOver
      <4> QED
        BY <4>1, FrontAndLast
    <3>6. <<"/">> \o last \in Seq(S) /\ <<"/">> \o last # <<>> /\ Last(<<"/">> \o last) = Last(last)
      BY <1>3, <3>3, <3>5, ConcatEnds, ConcatProperties
    <3>7. Last(Slashed(front) \o (<<"/">> \o last)) = Last(<<"/">> \o last)
      BY <3>4, <3>6, ConcatEnds
    <3> QED
      BY <3>4, <3>5, <3>6, <3>7
  <2> HIDE DEF text
  <2>4. CASE ~directory
    BY <1>2, <1>5, <2>1, <2>2, <2>3, <2>4
  <2>5. CASE directory
    <3>1. /\ text \o <<"/">> \in Seq(S) /\ text \o <<"/">> # <<>>
          /\ (text \o <<"/">>)[1] = "/" /\ Last(text \o <<"/">>) = "/"
      BY <1>2, <1>3, <2>1, ConcatEnds, ConcatProperties
    <3>2. Segments(text \o <<"/">>) = Segments(text) \o Segments(<<"/">>)
      BY <1>2, <1>3, SplitConcat, ZenonT(30) DEF Segments
    <3>3. Segments(text \o <<"/">>) = segments
      BY <1>2, <3>2, SlashIsNoSegment, ConcatEmptySeq
    <3> QED
      BY <2>2, <2>5, <3>1, <3>3
  <2> QED
    BY <2>4, <2>5
<1> QED
  BY <1>4, <1>5

-----------------------------------------------------------------------------
(* Dot segments.                                                           *)

LEMMA EnteredIsThere ==
  ASSUME NEW W, NEW stack \in Seq(W), NEW segment \in W
  PROVE  /\ Entered(stack, segment) \in Seq(W)
         /\ segment \notin {Dot, DotDot} => Entered(stack, segment) = Append(stack, segment)
<1>1. stack # <<>> => Front(stack) \in Seq(W)
  BY FrontAndLast
<1>2. Append(stack, segment) \in Seq(W)
  BY AppendProperties
<1>3. \/ Entered(stack, segment) = stack
      \/ stack # <<>> /\ Entered(stack, segment) = Front(stack)
      \/ Entered(stack, segment) = Append(stack, segment)
  BY DEF Entered
<1>4. segment \notin {Dot, DotDot} => Entered(stack, segment) = Append(stack, segment)
  BY DEF Entered
<1> QED
  BY <1>1, <1>2, <1>3, <1>4

\* The function that Walked is defined by.
Walks(f, segments) ==
  f = [n \in 0 .. Len(segments) |-> IF n = 0 THEN <<>> ELSE Entered(f[n - 1], segments[n])]

LEMMA WalkedIs ==
  ASSUME NEW W, NEW segments \in Seq(W)
  PROVE  \E f : Walks(f, segments) /\ Walked(segments) = f[Len(segments)]
<1> DEFINE N == Len(segments)
           T == Seq(W)
           step == [x \in T \X (1 .. N) |-> Entered(x[1], segments[x[2]])]
           base == <<>>
<1>1. N \in Nat /\ base \in T /\ \A n \in 1 .. N : segments[n] \in W
  OBVIOUS
<1>2. step \in [T \X (1 .. N) -> T]
  <2>1. \A x \in T \X (1 .. N) : Entered(x[1], segments[x[2]]) \in T
    <3> TAKE x \in T \X (1 .. N)
    <3>1. x[1] \in T /\ segments[x[2]] \in W
      BY <1>1
    <3> QED
      BY <3>1, EnteredIsThere
  <2> HIDE DEF T, N
  <2> QED
    BY <2>1
<1>3. PICK f \in [0 .. N -> T] : StepByStep(f, N, base, step)
  <2> HIDE DEF step, T, N, base
  <2> QED
    BY <1>1, <1>2, FoldExists
<1>4. f[0] = <<>> /\ \A n \in 1 .. N : f[n] = Entered(f[n - 1], segments[n])
  <2>1. f[0] = <<>> /\ \A n \in 1 .. N : f[n] = step[<<f[n - 1], n>>]
    BY <1>3 DEF StepByStep
  <2>2. ASSUME NEW n \in 1 .. N PROVE f[n] = Entered(f[n - 1], segments[n])
    <3>1. n - 1 \in 0 .. N
      BY <1>1
    <3>2. f[n - 1] \in T
      BY <1>3, <3>1
    <3>3. <<f[n - 1], n>> \in T \X (1 .. N)
      BY <3>2
    <3>4. step[<<f[n - 1], n>>] = Entered(f[n - 1], segments[n])
      BY <3>3
    <3> QED
      BY <2>1, <3>4
  <2> QED
    BY <2>1, <2>2
<1>5. Walks(f, segments)
  <2> DEFINE g == [n \in 0 .. N |-> IF n = 0 THEN <<>> ELSE Entered(f[n - 1], segments[n])]
  <2>1. N \in Nat
    BY <1>1
  <2> HIDE DEF N
  <2>2. \A n \in 0 .. N : f[n] = g[n]
    <3> TAKE n \in 0 .. N
    <3>1. n = 0 \/ n \in 1 .. N
      BY <2>1
    <3> QED
      BY <1>4, <3>1
  <2>3. DOMAIN f = 0 .. N /\ f = [n \in 0 .. N |-> f[n]]
    BY <1>3
  <2>4. f = g
    BY <2>2, <2>3
  <2> QED
    BY <2>4 DEF Walks, N
<1> DEFINE h == CHOOSE h : Walks(h, segments)
<1>6. Walks(h, segments)
  BY <1>5
<1>7. Walked(segments) = h[N]
  BY DEF Walked, Walks
<1> QED
  BY <1>6, <1>7

LEMMA WalkedNowhere == Walked(<<>>) = <<>>
<1>1. PICK f : Walks(f, <<>>) /\ Walked(<<>>) = f[0]
  <2>1. <<>> \in Seq({}) /\ Len(<<>>) = 0
    OBVIOUS
  <2> QED
    BY <2>1, WalkedIs
<1>2. f = [n \in 0 .. 0 |-> IF n = 0 THEN <<>> ELSE Entered(f[n - 1], <<>>[n])]
  BY <1>1 DEF Walks
<1>3. 0 \in 0 .. 0
  OBVIOUS
<1> QED
  BY <1>1, <1>2, <1>3

LEMMA WalkedOneMore ==
  ASSUME NEW W, NEW segments \in Seq(W), NEW segment \in W
  PROVE  Walked(Append(segments, segment)) = Entered(Walked(segments), segment)
<1> DEFINE more == Append(segments, segment)
           N == Len(segments)
<1>1. /\ more \in Seq(W) /\ Len(more) = N + 1 /\ more[N + 1] = segment /\ N \in Nat
      /\ \A i \in 1 .. N : more[i] = segments[i]
  BY AppendProperties
<1> HIDE DEF more
<1>2. PICK f : Walks(f, segments) /\ Walked(segments) = f[N]
  BY WalkedIs
<1>3. PICK g : Walks(g, more) /\ Walked(more) = g[N + 1]
  BY <1>1, WalkedIs
<1>4. /\ f[0] = <<>> /\ g[0] = <<>>
      /\ \A n \in 1 .. N : f[n] = Entered(f[n - 1], segments[n])
      /\ \A n \in 1 .. N + 1 : g[n] = Entered(g[n - 1], more[n])
  <2>1. f = [n \in 0 .. N |-> IF n = 0 THEN <<>> ELSE Entered(f[n - 1], segments[n])]
    BY <1>2 DEF Walks
  <2>2. g = [n \in 0 .. N + 1 |-> IF n = 0 THEN <<>> ELSE Entered(g[n - 1], more[n])]
    BY <1>1, <1>3 DEF Walks
  <2>3. 0 \in 0 .. N /\ 0 \in 0 .. N + 1
    BY <1>1
  <2>4. f[0] = <<>> /\ g[0] = <<>>
    BY <2>1, <2>2, <2>3
  <2>5. ASSUME NEW n \in 1 .. N PROVE f[n] = Entered(f[n - 1], segments[n])
    <3>1. n \in 0 .. N /\ n # 0
      BY <1>1
    <3> QED
      BY <2>1, <3>1
  <2>6. ASSUME NEW n \in 1 .. N + 1 PROVE g[n] = Entered(g[n - 1], more[n])
    <3>1. n \in 0 .. N + 1 /\ n # 0
      BY <1>1
    <3> QED
      BY <2>2, <3>1
  <2> QED
    BY <2>4, <2>5, <2>6
<1> DEFINE same == {n \in 0 .. N : f[n] = g[n]}
<1>5. 0 .. N \subseteq same
  <2>1. 0 \in same
    BY <1>1, <1>4
  <2>2. ASSUME NEW n \in 0 .. N - 1, n \in same PROVE n + 1 \in same
    <3>1. n + 1 \in 1 .. N /\ n + 1 \in 1 .. N + 1 /\ n + 1 \in 0 .. N /\ (n + 1) - 1 = n
      BY <1>1
    <3>2. f[n + 1] = Entered(f[n], segments[n + 1]) /\ g[n + 1] = Entered(g[n], more[n + 1])
      BY <1>4, <3>1
    <3>3. f[n] = g[n] /\ more[n + 1] = segments[n + 1]
      BY <1>1, <2>2, <3>1
    <3> QED
      BY <3>1, <3>2, <3>3
  <2> HIDE DEF same
  <2> QED
    BY <1>1, <2>1, <2>2, AllNumbers
<1>6. g[N] = Walked(segments)
  BY <1>1, <1>2, <1>5
<1>7. g[N + 1] = Entered(g[N], segment)
  <2>1. N + 1 \in 1 .. N + 1 /\ (N + 1) - 1 = N
    BY <1>1
  <2> QED
    BY <1>1, <1>4, <2>1
<1> QED
  BY <1>3, <1>6, <1>7 DEF more

\* Segments that are names.
PlainSteps(S) == Steps(S) \ {Dot, DotDot}

\* No dots are left, and names stay.
LEMMA WalkedPlain ==
  ASSUME NEW S, NEW segments \in Seq(Steps(S))
  PROVE  /\ Walked(segments) \in Seq(PlainSteps(S))
         /\ segments \in Seq(PlainSteps(S)) => Walked(segments) = segments
<1> DEFINE W == Steps(S)
           P == PlainSteps(S)
           T == {list \in Seq(W) : Walked(list) \in Seq(P)}
           U == {list \in Seq(P) : Walked(list) = list}
<1>0. \A s \in W : s \in P \/ s \in {Dot, DotDot}
  BY DEF PlainSteps
<1>1. ASSUME NEW list \in Seq(W), list \in T, NEW s \in W PROVE Append(list, s) \in T
  <2>1. Walked(Append(list, s)) = Entered(Walked(list), s) /\ Append(list, s) \in Seq(W)
    <3> HIDE DEF W
    <3> QED
      BY WalkedOneMore, AppendProperties
  <2> DEFINE stack == Walked(list)
  <2>2. stack \in Seq(P)
    BY <1>1
  <2> HIDE DEF stack, P, W
  <2>3. CASE s \in P
    BY <2>1, <2>2, <2>3, EnteredIsThere DEF stack
  <2>4. CASE s \in {Dot, DotDot}
    <3>1. Entered(stack, s) = stack \/ (stack # <<>> /\ Entered(stack, s) = Front(stack))
      BY <2>4 DEF Entered
    <3> QED
      BY <2>1, <2>2, <3>1, FrontAndLast DEF stack
  <2> QED
    BY <1>0, <2>3, <2>4
<1>2. ASSUME NEW list \in Seq(P), list \in U, NEW s \in P PROVE Append(list, s) \in U
  <2>1. s \notin {Dot, DotDot}
    BY DEF PlainSteps
  <2> HIDE DEF P
  <2>2. Walked(Append(list, s)) = Entered(list, s) /\ Append(list, s) \in Seq(P)
    BY <1>2, WalkedOneMore, AppendProperties
  <2>3. Entered(list, s) = Append(list, s)
    BY <2>1, EnteredIsThere
  <2> QED
    BY <2>2, <2>3
<1>3. <<>> \in T /\ <<>> \in U
  <2> HIDE DEF W, P
  <2>1. <<>> \in Seq(W) /\ <<>> \in Seq(P)
    OBVIOUS
  <2> QED
    BY <2>1, WalkedNowhere
<1> HIDE DEF T, U, W, P
<1>4. Seq(W) \subseteq T /\ Seq(P) \subseteq U
  BY <1>1, <1>2, <1>3, AllSequences
<1> QED
  BY <1>4 DEF T, U, W, P

-----------------------------------------------------------------------------
(* Paths of URLs.                                                          *)

\* What remove_dot_segments() makes of a path.
CleanPath(S, path) ==
  \E segments \in Seq(PlainSteps(S)), directory \in BOOLEAN : path = Absolute(segments, directory)

LEMMA PlainStepsAreSteps == ASSUME NEW S PROVE Seq(PlainSteps(S)) \subseteq Seq(Steps(S))
<1>1. PlainSteps(S) \subseteq Steps(S)
  BY DEF PlainSteps
<1>2. \A list \in Seq(PlainSteps(S)) : list \in Seq(Steps(S))
  <2> TAKE list \in Seq(PlainSteps(S))
  <2> QED
    BY <1>1, SeqMonotonic
<1> QED
  BY <1>2

LEMMA RemovedIsClean ==
  ASSUME NEW S, NEW path \in Seq(S)
  PROVE  CleanPath(S, RemoveDotSegments(path))
<1>1. Segments(path) \in Seq(Steps(S))
  BY SplitWords DEF Segments, Steps
<1>2. Walked(Segments(path)) \in Seq(PlainSteps(S))
  BY <1>1, WalkedPlain
<1> QED
  BY <1>2 DEF CleanPath, RemoveDotSegments

LEMMA CleanIsPath ==
  ASSUME NEW S, "/" \in S, NEW path, CleanPath(S, path)
  PROVE  /\ path \in Seq(S) /\ path # <<>> /\ path[1] = "/"
         /\ Segments(path) \in Seq(PlainSteps(S))
         /\ path = Absolute(Segments(path), Last(path) = "/")
         /\ Last(path) = "/" \/ Segments(path) # <<>>
<1>1. PICK segments \in Seq(PlainSteps(S)), directory \in BOOLEAN : path = Absolute(segments, directory)
  BY DEF CleanPath
<1>2. segments \in Seq(Steps(S))
  BY PlainStepsAreSteps
<1>3. /\ path \in Seq(S) /\ path # <<>> /\ path[1] = "/" /\ Segments(path) = segments
      /\ Last(path) = "/" <=> directory \/ segments = <<>>
  BY <1>1, <1>2, SegmentsOfAbsolute
<1>4. Absolute(segments, directory) = Absolute(segments, Last(path) = "/")
  BY <1>3 DEF Absolute
<1> QED
  BY <1>1, <1>3, <1>4

LEMMA CleanStays ==
  ASSUME NEW S, "/" \in S, NEW path, CleanPath(S, path)
  PROVE  RemoveDotSegments(path) = path
<1> DEFINE segments == Segments(path)
<1>1. /\ segments \in Seq(PlainSteps(S)) /\ path = Absolute(segments, Last(path) = "/")
      /\ Last(path) = "/" \/ segments # <<>>
  BY CleanIsPath
<1> HIDE DEF segments
<1>2. Walked(segments) = segments
  BY <1>1, PlainStepsAreSteps, WalkedPlain
<1>3. segments # <<>> => Last(segments) \notin {Dot, DotDot}
  BY <1>1, FrontAndLast DEF PlainSteps
<1>4. (Last(path) = "/" \/ Last(segments) \in {Dot, DotDot}) <=> Last(path) = "/"
  BY <1>1, <1>3
<1>5. RemoveDotSegments(path) = Absolute(segments, Last(path) = "/" \/ Last(segments) \in {Dot, DotDot})
  BY <1>2 DEF RemoveDotSegments, segments
<1>6. RemoveDotSegments(path) = Absolute(segments, Last(path) = "/")
  BY <1>4, <1>5 DEF Absolute
<1> QED
  BY <1>1, <1>6

-----------------------------------------------------------------------------
(* The parts of a text.                                                    *)

LEMMA PartIsText ==
  ASSUME NEW S, NEW text \in Seq(S), NEW m \in Nat \ {0}, NEW n \in Int, n <= Len(text)
  PROVE  /\ SubSeq(text, m, n) \in Seq(S)
         /\ Len(SubSeq(text, m, n)) = IF m <= n THEN n - m + 1 ELSE 0
         /\ \A i \in 1 .. n - m + 1 : SubSeq(text, m, n)[i] = text[m + i - 1]
<1>1. \A i \in m .. n : text[i] \in S
  <2> TAKE i \in m .. n
  <2>1. i \in 1 .. Len(text)
    OBVIOUS
  <2> QED
    BY <2>1
<1>2. m \in Int
  OBVIOUS
<1> QED
  BY <1>1, <1>2, SubSeqProperties

LEMMA CutsAreTexts ==
  ASSUME NEW S, NEW text \in Seq(S)
  PROVE  /\ \A i \in Nat \ {0} : From(text, i) \in Seq(S)
         /\ \A i \in 0 .. Len(text) + 1 : Before(text, i) \in Seq(S)
<1>1. Len(text) \in Nat
  OBVIOUS
<1>2. ASSUME NEW i \in Nat \ {0} PROVE From(text, i) \in Seq(S)
  BY <1>1, PartIsText DEF From
<1>3. ASSUME NEW i \in 0 .. Len(text) + 1 PROVE Before(text, i) \in Seq(S)
  <2>1. i - 1 \in Int /\ i - 1 <= Len(text) /\ 1 \in Nat \ {0}
    BY <1>1
  <2> QED
    BY <2>1, PartIsText DEF Before
<1> QED
  BY <1>2, <1>3

\* A text in which a character does not occur.
LEMMA WithoutIt ==
  ASSUME NEW S, NEW c, NEW text \in Seq(S), \A i \in 1 .. Len(text) : text[i] # c
  PROVE  text \in Seq(S \ {c})
<1>1. text \in [1 .. Len(text) -> S \ {c}] /\ Len(text) \in Nat
  OBVIOUS
<1> QED
  BY <1>1, FunctionIsSeq

LEMMA HeadIsWithout ==
  ASSUME NEW S, NEW text \in Seq(S), NEW c
  PROVE  /\ Head1(text, c) \in Seq(S \ {c})
         /\ Rest1(text, c) \in Seq(S) \cup {None}
<1> DEFINE n == Find(text, c)
<1>1. /\ n \in 0 .. Len(text) /\ Len(text) \in Nat
      /\ n = 0 => \A i \in 1 .. Len(text) : text[i] # c
      /\ n # 0 => \A i \in 1 .. n - 1 : text[i] # c
  BY FindFirst
<1>2. CASE n = 0
  BY <1>1, <1>2, WithoutIt DEF Head1, Rest1
<1>3. CASE n # 0
  <2> HIDE DEF n
  <2> DEFINE head == Before(text, n)
  <2>1. head \in Seq(S) /\ Len(head) = n - 1 /\ \A i \in 1 .. n - 1 : head[i] = text[i]
    <3>1. n - 1 \in Int /\ n - 1 <= Len(text) /\ 1 \in Nat \ {0} /\ (n - 1) - 1 + 1 = n - 1
      BY <1>1
    <3>2. /\ SubSeq(text, 1, n - 1) \in Seq(S)
          /\ Len(SubSeq(text, 1, n - 1)) = IF 1 <= n - 1 THEN (n - 1) - 1 + 1 ELSE 0
          /\ \A i \in 1 .. (n - 1) - 1 + 1 : SubSeq(text, 1, n - 1)[i] = text[1 + i - 1]
      BY <3>1, PartIsText
    <3>3. Len(SubSeq(text, 1, n - 1)) = n - 1
      BY <1>1, <1>3, <3>2
    <3>4. \A i \in 1 .. n - 1 : 1 + i - 1 = i
      BY <1>1
    <3> QED
      BY <3>1, <3>2, <3>3, <3>4 DEF Before
  <2> HIDE DEF head
  <2>2. head \in Seq(S \ {c})
    BY <1>1, <1>3, <2>1, WithoutIt
  <2>3. From(text, n + 1) \in Seq(S)
    <3>1. n + 1 \in Nat \ {0}
      BY <1>1
    <3> QED
      BY <3>1, CutsAreTexts
  <2> QED
    BY <1>3, <2>2, <2>3 DEF Head1, Rest1, n, head
<1> QED
  BY <1>2, <1>3

\* Larger sets of characters.
LEMMA MoreCharacters ==
  ASSUME NEW S, NEW T, S \subseteq T
  PROVE  Seq(S) \subseteq Seq(T)
<1>1. \A text \in Seq(S) : text \in Seq(T)
  BY SeqMonotonic
<1> QED
  BY <1>1

LEMMA PartsAreTexts ==
  ASSUME NEW S, NEW text \in Seq(S)
  PROVE  /\ PathPart(text) \in Seq(S \ {"?", "#"})
         /\ QueryPart(text) \in Seq(S \ {"#"}) \cup {None}
         /\ FragmentPart(text) \in Seq(S) \cup {None}
<1> DEFINE front == Head1(text, "#")
<1>1. front \in Seq(S \ {"#"}) /\ FragmentPart(text) \in Seq(S) \cup {None}
  BY HeadIsWithout DEF FragmentPart
<1> HIDE DEF front
<1>2. Head1(front, "?") \in Seq((S \ {"#"}) \ {"?"}) /\ Rest1(front, "?") \in Seq(S \ {"#"}) \cup {None}
  BY <1>1, HeadIsWithout
<1>3. (S \ {"#"}) \ {"?"} = S \ {"?", "#"}
  OBVIOUS
<1>4. Head1(front, "?") \in Seq(S \ {"?", "#"})
  BY <1>2, <1>3
<1> QED
  BY <1>1, <1>2, <1>4 DEF PathPart, QueryPart, front

LEMMA LastIsLast ==
  ASSUME NEW S, NEW text \in Seq(S), NEW c
  PROVE  \A i \in RFind(text, c) + 1 .. Len(text) : text[i] # c
<1> DEFINE I == {i \in 1 .. Len(text) : text[i] = c}
<1>1. RFind(text, c) = IF I # {} THEN Max(I) ELSE 0
  BY DEF RFind, SelectLastInSeq
<1>2. I \in SUBSET (0 .. Len(text)) /\ Len(text) \in Nat
  OBVIOUS
<1>3. CASE I # {}
  <2>1. Max(I) \in I /\ \A y \in I : y <= Max(I)
    BY <1>2, <1>3, MaxIsGreatest
  <2>2. RFind(text, c) = Max(I) /\ Max(I) \in 1 .. Len(text)
    BY <1>1, <1>3, <2>1
  <2> SUFFICES ASSUME NEW i \in RFind(text, c) + 1 .. Len(text), text[i] = c PROVE FALSE
    OBVIOUS
  <2>3. i \in 1 .. Len(text) /\ i > Max(I)
    BY <1>2, <2>2
  <2>4. i \in I
    BY <2>3
  <2> QED
    BY <2>1, <2>2, <2>3, <2>4
<1>4. CASE I = {}
  BY <1>1, <1>2, <1>4
<1> QED
  BY <1>3, <1>4

LEMMA BehindLast ==
  ASSUME NEW S, NEW text \in Seq(S), NEW c
  PROVE  /\ From(text, RFind(text, c) + 1) \in Seq(S \ {c})
         /\ RFind(text, c) # 0 => Before(text, RFind(text, c)) \in Seq(S)
<1> DEFINE n == RFind(text, c)
           rest == From(text, n + 1)
<1>1. n \in 0 .. Len(text) /\ Len(text) \in Nat /\ \A i \in n + 1 .. Len(text) : text[i] # c
  BY FindLast, LastIsLast
<1> HIDE DEF n
<1>2. n + 1 \in Nat \ {0} /\ Len(text) \in Int /\ Len(text) <= Len(text)
  BY <1>1
<1>3. /\ rest \in Seq(S)
      /\ Len(rest) = IF n + 1 <= Len(text) THEN Len(text) - (n + 1) + 1 ELSE 0
      /\ \A i \in 1 .. Len(text) - (n + 1) + 1 : rest[i] = text[(n + 1) + i - 1]
  BY <1>2, PartIsText DEF From
<1> HIDE DEF rest
<1>4. ASSUME NEW i \in 1 .. Len(rest) PROVE rest[i] # c
  <2>1. i \in 1 .. Len(text) - (n + 1) + 1 /\ (n + 1) + i - 1 \in n + 1 .. Len(text)
    BY <1>1, <1>3
  <2> QED
    BY <1>1, <1>3, <2>1
<1>5. rest \in Seq(S \ {c})
  BY <1>3, <1>4, WithoutIt
<1>6. n # 0 => Before(text, n) \in Seq(S)
  BY <1>1, CutsAreTexts
<1> QED
  BY <1>5, <1>6 DEF n, rest

-----------------------------------------------------------------------------
(* What a URL is made of.                                                  *)

Names(S) == S \ {"/", "?", "#", "@"}
Hosts(S) == Seq(Names(S))

\* A host that begins with a bracket ends with the first one that closes it.
Enclosed(host) ==
  host # <<>> /\ host[1] = "[" => Find(host, "]") = Len(host) /\ Len(host) > 2

UrlParts(S) ==
  [scheme : Schemes, userinfo : Seq(S \ {"/", "?", "#"}), host : Hosts(S), port : PortNumbers,
   path : Seq(S \ {"?", "#"}), query : Seq(S \ {"#"}) \cup {None}, fragment : Seq(S) \cup {None}]

\* A URL as parse_url() and resolve_url() leave it.
UrlOver(S, url) ==
  /\ url \in UrlParts(S) /\ Enclosed(url.host)
  /\ url.port # 0 => url.port # DefaultPort[url.scheme]
  /\ url.query = <<>> => None = <<>>
  /\ IsHttp(url) => url.host # <<>> /\ CleanPath(S \ {"?", "#"}, url.path)

LEMMA OneCharacter ==
  ASSUME NEW S, NEW text \in Seq(S), text # <<>>
  PROVE  SubSeq(text, 1, 1) = <<text[1]>>
<1>1. Len(text) \in Nat \ {0} /\ text[1] \in S
  OBVIOUS
<1> DEFINE one == SubSeq(text, 1, 1)
<1>2. one \in Seq(S) /\ Len(one) = 1 /\ one[1] = text[1]
  <2>1. 1 \in Nat \ {0} /\ 1 \in Int /\ 1 <= Len(text)
    BY <1>1
  <2>2. /\ one \in Seq(S) /\ Len(one) = IF 1 <= 1 THEN 1 - 1 + 1 ELSE 0
        /\ \A i \in 1 .. 1 - 1 + 1 : one[i] = text[1 + i - 1]
    BY <2>1, PartIsText
  <2>3. 1 \in 1 .. 1 - 1 + 1 /\ 1 + 1 - 1 = 1 /\ 1 - 1 + 1 = 1
    OBVIOUS
  <2> QED
    BY <2>2, <2>3
<1> HIDE DEF one
<1>3. one = <<text[1]>>
  BY <1>1, <1>2
<1> QED
  BY <1>3 DEF one

LEMMA PortIsNumber ==
  ASSUME NEW text
  PROVE  /\ PortIn(text) \in Nat \cup {None}
         /\ LeadingPort(text) \in PortNumbers
         /\ PortIn(text) # None /\ ~(PortIn(text) > 65535) => PortIn(text) \in PortNumbers
<1>1. PortIn(text) = None \/ \E word \in DOMAIN Ports : PortIn(text) = Ports[word]
  BY DEF PortIn
<1>2. \A word \in DOMAIN Ports : Ports[word] \in Nat /\ Ports[word] % 65536 \in PortNumbers
  BY UrlAssumption DEF PortNumbers
<1>3. 0 \in PortNumbers
  BY DEF PortNumbers
<1>4. \A n \in Nat : ~(n > 65535) => n % 65536 = n
  OBVIOUS
<1>5. LeadingPort(text) \in PortNumbers
  BY <1>2, <1>3 DEF LeadingPort
<1> QED
  BY <1>1, <1>2, <1>3, <1>4, <1>5

\* What the port of a host becomes.
HostParsed(S, parsed) ==
  \/ parsed = None
  \/ parsed \in [host : Hosts(S), port : PortNumbers] /\ Enclosed(parsed.host)

LEMMA ParsedIs ==
  ASSUME NEW S, NEW host \in Hosts(S), Enclosed(host), NEW port \in PortNumbers
  PROVE  HostParsed(S, [host |-> host, port |-> port])
BY DEF HostParsed

LEMMA HostIsParsed ==
  ASSUME NEW S, NEW text \in Hosts(S)
  PROVE  HostParsed(S, HostPort(text))
<1> DEFINE N == Names(S)
<1>0. text \in Seq(N) /\ Len(text) \in Nat
  BY DEF Hosts
<1>00. HostParsed(S, None) /\ Seq(N) = Hosts(S)
  BY DEF HostParsed, Hosts
<1> HIDE DEF N
<1>1. CASE StartsWith(text, <<"[">>)
  <2> DEFINE close == Find(text, "]")
             host == SubSeq(text, 1, close)
             number == LeadingPort(From(text, close + 2))
  <2>1. /\ close \in 0 .. Len(text)
        /\ close # 0 => text[close] = "]" /\ \A i \in 1 .. close - 1 : text[i] # "]"
    BY <1>0, FindFirst
  <2>2. HostPort(text) = IF close <= 2 \/ (close < Len(text) /\ text[close + 1] # ":") THEN None
                         ELSE [host |-> host, port |-> number]
    BY <1>1 DEF HostPort, Bracketed
  <2>4. number \in PortNumbers
    BY PortIsNumber
  <2> HIDE DEF close, number
  <2>5. ASSUME close > 2 PROVE host \in Seq(N) /\ Enclosed(host)
    <3>1. /\ host \in Seq(N) /\ Len(host) = close
          /\ \A i \in 1 .. close : host[i] = text[i]
      <4>1. close \in Int /\ close <= Len(text) /\ 1 \in Nat \ {0} /\ 1 <= close
        BY <2>1, <2>5
      <4>2. /\ host \in Seq(N)
            /\ Len(host) = IF 1 <= close THEN close - 1 + 1 ELSE 0
            /\ \A i \in 1 .. close - 1 + 1 : host[i] = text[1 + i - 1]
        BY <1>0, <4>1, PartIsText
      <4>3. close - 1 + 1 = close /\ \A i \in 1 .. close : 1 + i - 1 = i
        BY <2>1
      <4> QED
        BY <4>1, <4>2, <4>3
    <3> HIDE DEF host
    <3>2. close \in 1 .. close /\ host[close] = "]" /\ \A i \in 1 .. close - 1 : host[i] # "]"
      BY <2>1, <2>5, <3>1
    <3> DEFINE found == Find(host, "]")
    <3>3. /\ found \in 0 .. Len(host)
          /\ found = 0 => \A i \in 1 .. Len(host) : host[i] # "]"
          /\ found # 0 => host[found] = "]"
      BY <3>1, FindFirst
    <3> HIDE DEF found
    <3>4. found = close
      BY <2>1, <2>5, <3>1, <3>2, <3>3
    <3> QED
      BY <2>5, <3>1, <3>4 DEF Enclosed, found
  <2>6. close \in Nat
    BY <2>1
  <2> HIDE DEF host
  <2>7. CASE close > 2
    <3>1. HostPort(text) = None \/ HostPort(text) = [host |-> host, port |-> number]
      BY <2>2
    <3>2. number \in PortNumbers /\ host \in Hosts(S) /\ Enclosed(host)
      BY <1>00, <2>4, <2>5, <2>7
    <3>3. HostParsed(S, [host |-> host, port |-> number])
      BY <3>2, ParsedIs
    <3> QED
      BY <1>00, <3>1, <3>3
  <2>8. CASE close <= 2
    BY <1>00, <2>2, <2>8
  <2> QED
    BY <2>6, <2>7, <2>8
<1>2. CASE ~StartsWith(text, <<"[">>)
  <2> DEFINE colon == RFind(text, ":")
             host == Before(text, colon)
             port == PortIn(From(text, colon + 1))
  <2>1. colon \in 0 .. Len(text)
    BY <1>0, FindLast
  <2>2. HostPort(text) = IF colon = 0 \/ (port = None /\ colon < Len(text))
                         THEN [host |-> text, port |-> 0]
                         ELSE IF port = None THEN [host |-> host, port |-> 0]
                         ELSE IF port > 65535 THEN None
                         ELSE [host |-> host, port |-> port]
    BY <1>2 DEF HostPort
  <2>8. port # None /\ ~(port > 65535) => port \in PortNumbers
    BY PortIsNumber
  <2>4. text # <<>> => text[1] # "["
    <3> SUFFICES ASSUME text # <<>>, text[1] = "[" PROVE FALSE
      OBVIOUS
    <3>1. Len(text) >= 1 /\ Len(<<"[">>) = 1
      BY <1>0
    <3>2. SubSeq(text, 1, 1) = <<"[">> /\ SubSeq(<<"[">>, 1, 1) = <<"[">>
      <4>1. text[1] = "[" => SubSeq(text, 1, 1) = <<"[">>
        BY <1>0, <3>1, OneCharacter
      <4> DEFINE bracket == <<"[">>
      <4>2. bracket \in Seq({"["}) /\ bracket # <<>> /\ bracket[1] = "["
        OBVIOUS
      <4> HIDE DEF bracket
      <4>3. SubSeq(bracket, 1, 1) = <<"[">>
        BY <4>2, OneCharacter
      <4> QED
        BY <4>1, <4>3 DEF bracket
    <3> QED
      BY <1>2, <3>1, <3>2 DEF StartsWith, IsPrefix
  <2>5. Enclosed(text)
    BY <2>4 DEF Enclosed
  <2>6. ASSUME colon # 0 PROVE host \in Seq(N) /\ Enclosed(host)
    <3> HIDE DEF colon
    <3>1. colon - 1 \in Int /\ colon - 1 <= Len(text) /\ 1 \in Nat \ {0}
      BY <1>0, <2>1, <2>6
    <3>2. /\ host \in Seq(N)
          /\ Len(host) = IF 1 <= colon - 1 THEN (colon - 1) - 1 + 1 ELSE 0
          /\ \A i \in 1 .. (colon - 1) - 1 + 1 : host[i] = text[1 + i - 1]
      BY <1>0, <3>1, PartIsText DEF Before
    <3> HIDE DEF host
    <3>3. ASSUME host # <<>> PROVE host[1] # "["
      <4>1. Len(host) # 0
        BY <3>2, <3>3
      <4>2. 1 \in 1 .. (colon - 1) - 1 + 1 /\ 1 + 1 - 1 = 1 /\ text # <<>>
        BY <1>0, <2>1, <3>2, <4>1
      <4> QED
        BY <2>4, <3>2, <4>2
    <3> QED
      BY <3>2, <3>3 DEF Enclosed
  <2> HIDE DEF colon, host, port
  <2>7. 0 \in PortNumbers
    BY DEF PortNumbers
  <2>9. HostParsed(S, [host |-> text, port |-> 0])
    BY <1>0, <1>00, <2>5, <2>7, ParsedIs
  <2>10. colon # 0 => host \in Hosts(S) /\ Enclosed(host)
    BY <1>00, <2>6
  <2>11. colon # 0 => HostParsed(S, [host |-> host, port |-> 0])
    BY <2>7, <2>10, ParsedIs
  <2>12. colon # 0 /\ port # None /\ ~(port > 65535) => HostParsed(S, [host |-> host, port |-> port])
    BY <2>8, <2>10, ParsedIs
  <2> QED
    BY <1>00, <2>2, <2>9, <2>11, <2>12
<1> QED
  BY <1>1, <1>2

LEMMA NormalIsUrl ==
  ASSUME NEW S, "/" \in S, NEW url \in UrlParts(S), Enclosed(url.host),
         IsHttp(url) => url.host # <<>>
  PROVE  UrlOver(S, Normalize(url))
<1> DEFINE P == S \ {"?", "#"}
           begun == IF StartsWith(url.path, <<"/">>) THEN url.path ELSE <<"/">> \o url.path
           port == IF url.port = DefaultPort[url.scheme] THEN 0 ELSE url.port
           path == IF ~IsHttp(url) THEN url.path ELSE RemoveDotSegments(begun)
           query == IF url.query = <<>> THEN None ELSE url.query
           normal == [url EXCEPT !.port = port, !.path = path, !.query = query]
<1>1. Normalize(url) = normal
  BY DEF Normalize
<1>2. /\ url.scheme \in Schemes /\ url.userinfo \in Seq(S \ {"/", "?", "#"}) /\ url.host \in Hosts(S)
      /\ url.port \in PortNumbers /\ url.path \in Seq(P)
      /\ url.query \in Seq(S \ {"#"}) \cup {None} /\ url.fragment \in Seq(S) \cup {None}
  BY DEF UrlParts
<1>4. port \in PortNumbers /\ (port # 0 => port # DefaultPort[url.scheme])
  BY <1>2 DEF PortNumbers
<1>5. query \in Seq(S \ {"#"}) \cup {None} /\ (query = <<>> => None = <<>>)
  BY <1>2
<1>6. path \in Seq(P) /\ (IsHttp(url) => CleanPath(P, path))
  <2>1. begun \in Seq(P)
    <3>1. <<"/">> \in Seq(P)
      OBVIOUS
    <3> QED
      BY <1>2, <3>1, ConcatProperties
  <2>2. "/" \in P
    OBVIOUS
  <2> HIDE DEF begun, P
  <2>3. CleanPath(P, RemoveDotSegments(begun))
    BY <2>1, RemovedIsClean
  <2>4. RemoveDotSegments(begun) \in Seq(P)
    BY <2>2, <2>3, CleanIsPath
  <2> QED
    BY <1>2, <2>3, <2>4
<1> HIDE DEF port, path, query
<1>7. /\ normal \in UrlParts(S) /\ normal.scheme = url.scheme /\ normal.host = url.host
      /\ normal.port = port /\ normal.path = path /\ normal.query = query
  BY <1>4, <1>5, <1>6 DEF UrlParts
<1> QED
  BY <1>1, <1>4, <1>5, <1>6, <1>7 DEF UrlOver, IsHttp

\* What resolve_url() returns: nothing, or a URL.
UrlOrNone(S, url) == url = None \/ UrlOver(S, url)

LEMMA AcceptedIsUrl ==
  ASSUME NEW S, "/" \in S, NEW url \in UrlParts(S), Enclosed(url.host)
  PROVE  UrlOrNone(S, Accepted(url))
BY NormalIsUrl DEF UrlOrNone, Accepted

LEMMA LocatedIsUrl ==
  ASSUME NEW S, "/" \in S, NEW url \in UrlParts(S), NEW text \in Seq(S \ {"?", "#"}),
         NEW otherwise \in Seq(S \ {"?", "#"})
  PROVE  UrlOrNone(S, Located(url, text, otherwise))
<1> DEFINE P == S \ {"?", "#"}
           path == IF Find(text, "/") = 0 THEN otherwise ELSE From(text, Find(text, "/"))
           authority == Head1(text, "/")
           user == UserIn(authority)
           parsed == Authority(authority)
           found == [url EXCEPT !.path = path]
           hosted == [found EXCEPT !.userinfo = user, !.host = parsed.host, !.port = parsed.port]
<1>1. path \in Seq(P)
  <2>1. Find(text, "/") # 0 => Find(text, "/") \in Nat \ {0}
    BY FindFirst
  <2>2. Find(text, "/") # 0 => From(text, Find(text, "/")) \in Seq(P)
    BY <2>1, CutsAreTexts
  <2> QED
    BY <2>2
<1>2. authority \in Seq(S \ {"/", "?", "#"})
  <2>1. P \ {"/"} = S \ {"/", "?", "#"}
    OBVIOUS
  <2> HIDE DEF P
  <2>2. authority \in Seq(P \ {"/"})
    <3>1. text \in Seq(P)
      BY DEF P
    <3> QED
      BY <3>1, HeadIsWithout
  <2> HIDE DEF authority
  <2> QED
    BY <2>1, <2>2
<1> HIDE DEF authority
<1>3. user \in Seq(S \ {"/", "?", "#"})
  <2>1. RFind(authority, "@") # 0 => Before(authority, RFind(authority, "@")) \in Seq(S \ {"/", "?", "#"})
    BY <1>2, BehindLast
  <2> QED
    BY <2>1 DEF UserIn
<1>4. HostParsed(S, parsed)
  <2> DEFINE rest == From(authority, RFind(authority, "@") + 1)
             A == S \ {"/", "?", "#"}
  <2>1. Names(S) = A \ {"@"}
    BY DEF Names
  <2>2. rest \in Seq(A \ {"@"})
    <3>1. authority \in Seq(A)
      BY <1>2
    <3> HIDE DEF A
    <3> QED
      BY <3>1, BehindLast
  <2> HIDE DEF rest, A
  <2>3. rest \in Hosts(S)
    BY <2>1, <2>2 DEF Hosts
  <2> QED
    BY <2>3, HostIsParsed DEF Authority, rest
<1>5. Located(url, text, otherwise) =
        IF parsed = None THEN None ELSE Accepted(hosted)
  BY DEF Located, Hosted, authority
<1> HIDE DEF path, user, parsed
<1>6. ASSUME parsed # None PROVE hosted \in UrlParts(S) /\ Enclosed(hosted.host)
  <2>1. parsed.host \in Hosts(S) /\ parsed.port \in PortNumbers /\ Enclosed(parsed.host)
    BY <1>4, <1>6 DEF HostParsed
  <2>2. found \in UrlParts(S)
    BY <1>1 DEF UrlParts
  <2>3. hosted \in UrlParts(S) /\ hosted.host = parsed.host
    BY <1>3, <2>1, <2>2 DEF UrlParts
  <2> QED
    BY <2>1, <2>3
<1> HIDE DEF hosted
<1>7. parsed # None => UrlOrNone(S, Accepted(hosted))
  BY <1>6, AcceptedIsUrl
<1> QED
  BY <1>5, <1>7 DEF UrlOrNone

LEMMA ParsedIsUrl ==
  ASSUME NEW S, "/" \in S, NEW text \in Seq(S)
  PROVE  UrlOrNone(S, ParseText(text))
<1> DEFINE rest == From(text, SchemeEnd(text) + 1)
           url == [scheme |-> text[1], userinfo |-> <<>>, host |-> <<>>, port |-> 0, path |-> <<>>,
                   query |-> QueryPart(rest), fragment |-> FragmentPart(rest)]
           body == PathPart(rest)
<1>1. CASE SchemeEnd(text) # 2 \/ text[1] \notin Schemes
  BY <1>1 DEF ParseText, UrlOrNone
<1>2. CASE SchemeEnd(text) = 2 /\ text[1] \in Schemes
  <2>1. ParseText(text) = Absolutely(url, body)
    BY <1>2 DEF ParseText
  <2>2. rest \in Seq(S)
    <3>1. SchemeEnd(text) + 1 \in Nat \ {0}
      BY <1>2
    <3> QED
      BY <3>1, CutsAreTexts
  <2> HIDE DEF rest
  <2>3. /\ body \in Seq(S \ {"?", "#"}) /\ QueryPart(rest) \in Seq(S \ {"#"}) \cup {None}
        /\ FragmentPart(rest) \in Seq(S) \cup {None}
    BY <2>2, PartsAreTexts
  <2>4. /\ <<>> \in Seq(S \ {"?", "#"}) /\ <<>> \in Seq(S \ {"/", "?", "#"}) /\ <<>> \in Hosts(S)
        /\ 0 \in PortNumbers /\ Enclosed(<<>>)
    BY DEF Hosts, PortNumbers, Enclosed
  <2>5. url \in UrlParts(S)
    BY <1>2, <2>3, <2>4 DEF UrlParts
  <2>6. url.host = <<>>
    OBVIOUS
  <2> HIDE DEF url, body
  <2>7. CASE StartsWith(body, <<"/", "/">>)
    <3>1. 3 \in Nat \ {0}
      OBVIOUS
    <3>2. From(body, 3) \in Seq(S \ {"?", "#"})
      BY <2>3, <3>1, CutsAreTexts
    <3>3. UrlOrNone(S, Located(url, From(body, 3), <<>>))
      BY <2>4, <2>5, <3>2, LocatedIsUrl
    <3> QED
      BY <2>1, <2>7, <3>3 DEF Absolutely
  <2>8. CASE ~StartsWith(body, <<"/", "/">>)
    <3> DEFINE opaque == [url EXCEPT !.path = body]
    <3>1. opaque \in UrlParts(S) /\ opaque.host = url.host
      BY <2>3, <2>5 DEF UrlParts
    <3> HIDE DEF opaque
    <3>2. UrlOrNone(S, Accepted(opaque))
      BY <2>4, <2>6, <3>1, AcceptedIsUrl
    <3> QED
      BY <2>1, <2>8, <3>2 DEF Absolutely, opaque
  <2> QED
    BY <2>7, <2>8
<1> QED
  BY <1>1, <1>2

LEMMA MergedIsPath ==
  ASSUME NEW P, NEW base, base.path \in Seq(P), NEW rest \in Seq(P)
  PROVE  Merge(base, rest) \in Seq(P)
<1>1. RFind(base.path, "/") + 1 \in 0 .. Len(base.path) + 1
  BY FindLast
<1>2. Before(base.path, RFind(base.path, "/") + 1) \in Seq(P)
  BY <1>1, CutsAreTexts
<1> QED
  BY <1>2, ConcatProperties DEF Merge

LEMMA ResolvedIsUrl ==
  ASSUME NEW S, "/" \in S, NEW base, UrlOver(S, base), NEW text \in Seq(S)
  PROVE  UrlOrNone(S, ResolveText(base, text))
<1> DEFINE rest == PathPart(text)
           query == QueryPart(text)
           url == [base EXCEPT !.query = query, !.fragment = FragmentPart(text)]
           merged == [url EXCEPT !.path = Merge(base, rest),
                                 !.query = IF rest = <<>> /\ query = None THEN base.query ELSE query]
<1>1. CASE SchemeEnd(text) # 0
  BY <1>1, ParsedIsUrl DEF ResolveText
<1>2. CASE SchemeEnd(text) = 0
  <2>1. ResolveText(base, text) =
          IF StartsWith(text, <<"/", "/">>) THEN Located(url, From(rest, 3), <<"/">>) ELSE Accepted(merged)
    BY <1>2 DEF ResolveText, Relatively
  <2>2. /\ rest \in Seq(S \ {"?", "#"}) /\ query \in Seq(S \ {"#"}) \cup {None}
        /\ FragmentPart(text) \in Seq(S) \cup {None}
    BY PartsAreTexts
  <2>3. base \in UrlParts(S) /\ Enclosed(base.host)
    BY DEF UrlOver
  <2> HIDE DEF rest, query
  <2>4. url \in UrlParts(S)
    BY <2>2, <2>3 DEF UrlParts
  <2>5. base.path \in Seq(S \ {"?", "#"}) /\ base.query \in Seq(S \ {"#"}) \cup {None}
    BY <2>3 DEF UrlParts
  <2>6. Merge(base, rest) \in Seq(S \ {"?", "#"})
    BY <2>2, <2>5, MergedIsPath
  <2>7. merged \in UrlParts(S) /\ merged.host = base.host
    BY <2>2, <2>3, <2>4, <2>5, <2>6 DEF UrlParts
  <2> HIDE DEF url, merged
  <2>8. UrlOrNone(S, Accepted(merged))
    BY <2>3, <2>7, AcceptedIsUrl
  <2>9. UrlOrNone(S, Located(url, From(rest, 3), <<"/">>))
    <3>1. 3 \in Nat \ {0} /\ <<"/">> \in Seq(S \ {"?", "#"})
      OBVIOUS
    <3>2. From(rest, 3) \in Seq(S \ {"?", "#"})
      BY <2>2, <3>1, CutsAreTexts
    <3> QED
      BY <2>4, <3>1, <3>2, LocatedIsUrl
  <2> QED
    BY <2>1, <2>8, <2>9
<1> QED
  BY <1>1, <1>2

-----------------------------------------------------------------------------
(* Line breaks and spaces.                                                 *)

\* What StripWhitespace puts together.
Unbroken(raw) == FlattenSeq([i \in DOMAIN raw |-> IF raw[i] = "nl" THEN <<>> ELSE <<raw[i]>>])

LEMMA UnbrokenIsText ==
  ASSUME NEW S, NEW raw \in Seq(S)
  PROVE  /\ Unbroken(raw) \in Seq(S)
         /\ "nl" \notin S => Unbroken(raw) = raw
<1> DEFINE piece(c) == IF c = "nl" THEN <<>> ELSE <<c>>
           parts(text) == [i \in DOMAIN text |-> IF text[i] = "nl" THEN <<>> ELSE <<text[i]>>]
           T == {text \in Seq(S) : /\ parts(text) \in Seq(Seq(S)) /\ Unbroken(text) \in Seq(S)
                                   /\ "nl" \notin S => Unbroken(text) = text}
<1>1. <<>> \in T
  <2>1. DOMAIN <<>> = {} /\ <<>> \in Seq(S) /\ <<>> \in Seq(Seq(S))
    OBVIOUS
  <2>2. parts(<<>>) = <<>>
    BY <2>1
  <2> QED
    BY <2>1, <2>2, FlattenNone DEF Unbroken
<1>2. ASSUME NEW text \in Seq(S), text \in T, NEW c \in S PROVE Append(text, c) \in T
  <2> DEFINE more == Append(text, c)
  <2>1. /\ more \in Seq(S) /\ Len(more) = Len(text) + 1 /\ more[Len(text) + 1] = c /\ Len(text) \in Nat
        /\ \A i \in 1 .. Len(text) : more[i] = text[i]
    BY AppendProperties
  <2>2. piece(c) \in Seq(S)
    OBVIOUS
  <2> HIDE DEF more
  <2>3. parts(more) = Append(parts(text), piece(c))
    <3> DEFINE p == parts(text)
               q == Append(p, piece(c))
    <3>1. p \in Seq(Seq(S)) /\ Len(p) = Len(text) /\ \A i \in 1 .. Len(text) : p[i] = piece(text[i])
      BY <1>2
    <3> HIDE DEF p
    <3>2. /\ q \in Seq(Seq(S)) /\ Len(q) = Len(text) + 1 /\ q[Len(text) + 1] = piece(c)
          /\ \A i \in 1 .. Len(text) : q[i] = p[i]
      BY <2>2, <3>1, AppendProperties
    <3> HIDE DEF q
    <3>3. DOMAIN more = 1 .. Len(text) + 1 /\ DOMAIN q = 1 .. Len(text) + 1
      BY <2>1, <3>2
    <3>4. \A i \in 1 .. Len(text) + 1 : q[i] = piece(more[i])
      <4> TAKE i \in 1 .. Len(text) + 1
      <4>1. i = Len(text) + 1 \/ i \in 1 .. Len(text)
        BY <2>1
      <4> QED
        BY <2>1, <3>1, <3>2, <4>1
    <3>5. q = [i \in 1 .. Len(text) + 1 |-> piece(more[i])]
      BY <3>2, <3>3, <3>4
    <3> QED
      BY <3>3, <3>5 DEF q, p
  <2>4. parts(text) \in Seq(Seq(S)) /\ Unbroken(text) = FlattenSeq(parts(text))
        /\ Unbroken(more) = FlattenSeq(parts(more))
    BY <1>2 DEF Unbroken
  <2> HIDE DEF parts, piece
  <2>5. Unbroken(more) = Unbroken(text) \o piece(c) /\ Unbroken(text) \in Seq(S)
    BY <2>2, <2>3, <2>4, FlattenOneMore
  <2>6. Unbroken(more) \in Seq(S) /\ parts(more) \in Seq(Seq(S))
    BY <2>2, <2>3, <2>4, <2>5, ConcatProperties, AppendProperties
  <2>7. ASSUME "nl" \notin S PROVE Unbroken(more) = more
    <3>1. piece(c) = <<c>> /\ Unbroken(text) = text
      BY <1>2, <2>7 DEF piece
    <3> QED
      BY <2>5, <3>1, AppendIsConcat DEF more
  <2> QED
    BY <2>1, <2>6, <2>7 DEF more
<1> HIDE DEF T
<1>3. Seq(S) \subseteq T
  BY <1>1, <1>2, AllSequences
<1> QED
  BY <1>3 DEF T

LEMMA TrimIsText ==
  ASSUME NEW S, NEW text \in Seq(S)
  PROVE  /\ Trim(text) \in Seq(S)
         /\ Space \notin S => Trim(text) = text
<1> DEFINE solid == {i \in 1 .. Len(text) : text[i] # Space}
           first == CHOOSE i \in solid : \A j \in solid : i <= j
           last == CHOOSE i \in solid : \A j \in solid : i >= j
<1>1. Len(text) \in Nat /\ DOMAIN text = 1 .. Len(text) /\ solid \in SUBSET (0 .. Len(text))
      /\ solid \in SUBSET Nat
  <2>1. Len(text) \in Nat /\ DOMAIN text = 1 .. Len(text)
    OBVIOUS
  <2>2. solid \in SUBSET (0 .. Len(text)) /\ solid \in SUBSET Nat
    BY <2>1
  <2> QED
    BY <2>1, <2>2
<1>2. Trim(text) = IF solid = {} THEN <<>> ELSE SubSeq(text, first, last)
  BY <1>1 DEF Trim
<1>3. ASSUME solid # {}
      PROVE  /\ first \in solid /\ (\A j \in solid : first <= j)
             /\ last \in solid /\ (\A j \in solid : last >= j)
  <2> HIDE DEF solid
  <2>1. \E i \in solid : \A j \in solid : i <= j
    BY <1>1, <1>3, MinIsLeast
  <2>2. Max(solid) \in solid /\ \A y \in solid : y <= Max(solid)
    BY <1>1, <1>3, MaxIsGreatest
  <2>3. \A i, j \in Nat : j <= i => i >= j
    OBVIOUS
  <2>4. \E i \in solid : \A j \in solid : i >= j
    BY <1>1, <2>2, <2>3
  <2> QED
    BY <2>1, <2>4
<1> HIDE DEF first, last
<1>4. CASE solid = {}
  <2>1. Space \notin S => text = <<>>
    <3> SUFFICES ASSUME Space \notin S, Len(text) # 0 PROVE FALSE
      BY <1>1
    <3>1. 1 \in DOMAIN text /\ text[1] \in S
      BY <1>1
    <3>2. 1 \in solid
      BY <3>1
    <3> QED
      BY <1>4, <3>2
  <2> QED
    BY <1>2, <1>4, <2>1
<1>5. CASE solid # {}
  <2>1. first \in 1 .. Len(text) /\ last \in 1 .. Len(text)
    BY <1>3, <1>5
  <2> DEFINE trimmed == SubSeq(text, first, last)
  <2>2. trimmed \in Seq(S)
    <3>1. first \in Nat \ {0} /\ last \in Int /\ last <= Len(text)
      BY <1>1, <2>1
    <3> QED
      BY <3>1, PartIsText
  <2>3. ASSUME Space \notin S PROVE trimmed = text
    <3>1. 1 \in solid /\ Len(text) \in solid
      BY <1>1, <2>1, <2>3
    <3>2. first <= 1 /\ last >= Len(text)
      BY <1>3, <1>5, <3>1
    <3>3. first = 1 /\ last = Len(text)
      <4>1. \A n \in Nat : \A i, j \in 1 .. n : i <= 1 /\ j >= n => i = 1 /\ j = n
        OBVIOUS
      <4>2. Len(text) \in Nat
        OBVIOUS
      <4> HIDE DEF solid
      <4> QED
        BY <2>1, <3>2, <4>1, <4>2
    <3> QED
      BY <3>3, SubSeqFull
  <2> QED
    BY <1>2, <1>5, <2>2, <2>3
<1> QED
  BY <1>4, <1>5

LEMMA StrippedIsText ==
  ASSUME NEW S, NEW raw \in Seq(S)
  PROVE  /\ StripWhitespace(raw) \in Seq(S)
         /\ S \cap {"nl", Space} = {} => StripWhitespace(raw) = raw
<1>1. StripWhitespace(raw) = Trim(Unbroken(raw))
  BY DEF StripWhitespace, Unbroken
<1>2. Unbroken(raw) \in Seq(S) /\ ("nl" \notin S => Unbroken(raw) = raw)
  BY UnbrokenIsText
<1> QED
  BY <1>1, <1>2, TrimIsText

-----------------------------------------------------------------------------
(* Addresses.                                                              *)

\* The document is a URL of those characters, and so is what a reference to it means.
AddressInv ==
  /\ UrlOver(Characters \cup {"/"}, document) /\ IsHttp(document)
  /\ reference \in Seq(Characters \cup {"/"})

LEMMA PrimaryIsUrl ==
  ASSUME HttpDocuments, NEW text \in Documents \cup {Primary}
  PROVE  UrlOver(Characters \cup {"/"}, ParseUrl(text)) /\ IsHttp(ParseUrl(text))
<1> DEFINE S == Characters \cup {"/"}
<1>1. text \in Seq(Characters) /\ ParseUrl(text) # None /\ IsHttp(ParseUrl(text))
  BY DEF HttpDocuments
<1>2. text \in Seq(S)
  BY <1>1, MoreCharacters
<1>3. "/" \in S
  OBVIOUS
<1> HIDE DEF S
<1>4. StripWhitespace(text) \in Seq(S)
  BY <1>2, StrippedIsText
<1>5. UrlOrNone(S, ParseUrl(text))
  BY <1>3, <1>4, ParsedIsUrl DEF ParseUrl
<1> QED
  BY <1>1, <1>5 DEF UrlOrNone, S

LEMMA AddressesAreUrls == HttpDocuments => (AddressSpec => []AddressInv)
<1> SUFFICES ASSUME HttpDocuments PROVE AddressSpec => []AddressInv
  OBVIOUS
<1>1. AddressInit => AddressInv
  <2> SUFFICES ASSUME AddressInit PROVE AddressInv
    OBVIOUS
  <2>1. PICK text \in Documents : document = ParseUrl(text)
    BY DEF AddressInit
  <2>2. reference = <<>> /\ <<>> \in Seq(Characters \cup {"/"})
    BY DEF AddressInit
  <2>3. text \in Documents \cup {Primary}
    OBVIOUS
  <2> QED
    BY <2>1, <2>2, <2>3, PrimaryIsUrl DEF AddressInv
<1>2. AddressInv /\ [AddressNext]_addressVars => AddressInv'
  <2> SUFFICES ASSUME AddressInv, [AddressNext]_addressVars PROVE AddressInv'
    OBVIOUS
  <2>1. ASSUME NEW piece \in Pieces, Write(piece) PROVE AddressInv'
    <3> DEFINE S == Characters \cup {"/"}
    <3>1. piece \in Seq(Characters)
      BY DEF HttpDocuments
    <3>2. piece \in Seq(S)
      BY <3>1, MoreCharacters
    <3>3. reference \in Seq(S)
      BY DEF AddressInv
    <3>4. reference' = reference \o piece /\ document' = document
      BY <2>1 DEF Write
    <3> HIDE DEF S
    <3>5. reference' \in Seq(S)
      BY <3>2, <3>3, <3>4, ConcatProperties
    <3> QED
      BY <3>4, <3>5 DEF AddressInv, S
  <2>2. CASE UNCHANGED addressVars
    BY <2>2 DEF AddressInv, addressVars
  <2> QED
    BY <2>1, <2>2 DEF AddressNext
<1> QED
  BY <1>1, <1>2, PTL DEF AddressSpec

\* Everything of which names in the mirror are made.
NameCharacters(S, url) ==
  S \cup Words \cup {Unescaped[e] : e \in DOMAIN Unescaped}
    \cup {url.scheme, ShowPort(url.port), ShortHash(url.query)}

\* A hash is a word that a name may consist of, whatever has been hashed.
EveryHashIsName == \A text : HashIsName(ShortHash(text))

LEMMA PathIsSafe ==
  ASSUME EveryHashIsName, NEW S, "/" \in S, NEW url, UrlOver(S, url), IsHttp(url),
         NEW primary, NEW kind, NEW full, full = FullPath(url, primary, kind),
         NEW T, NameCharacters(S, url) \subseteq T, ShortHash(Join(full)) \in T,
         NEW path, path = PathFor(url, primary, kind)
  PROVE  /\ full \in Seq(SafeNames(T)) \ {<<>>}
         /\ path \in Seq(SafeNames(T)) \ {<<>>} /\ Len(Join(path)) <= PathLimit
         /\ path = full => \A i \in DOMAIN path : EndsWell(path[i])
         /\ path = Shortened(full)
<1> DEFINE P == S \ {"?", "#"}
           segments == Segments(url.path)
<1>1. /\ S \subseteq T /\ Words \subseteq T /\ \A e \in DOMAIN Unescaped : Unescaped[e] \in T
      /\ url.scheme \in T /\ ShowPort(url.port) \in T /\ ShortHash(url.query) \in T
  BY DEF NameCharacters
<1>2. url.host \in Seq(T)
  <2>1. url.host \in Seq(Names(S))
    BY DEF UrlOver, UrlParts, Hosts
  <2>2. Names(S) \subseteq T
    BY <1>1 DEF Names
  <2> QED
    BY <2>1, <2>2, MoreCharacters
<1>3. "/" \in P /\ CleanPath(P, url.path) /\ P \subseteq T
  BY <1>1 DEF UrlOver
<1> HIDE DEF P
<1>4. segments \in Seq(PlainSteps(P)) /\ (Last(url.path) = "/" \/ segments # <<>>)
  BY <1>3, CleanIsPath
<1> HIDE DEF segments
<1>5. segments \in Seq(Seq(T))
  <2>1. segments \in Seq(Seq(P))
    BY <1>4, PlainStepsAreSteps, StepsAreTexts
  <2>2. Seq(P) \subseteq Seq(T)
    BY <1>3, MoreCharacters
  <2> QED
    BY <2>1, <2>2, MoreCharacters
<1> DEFINE scheme == url.scheme
           host == url.host
           port == url.port
           query == url.query
<1>6. /\ url.scheme \in T /\ url.host \in Seq(T) /\ ShowPort(url.port) \in T
      /\ ShortHash(url.query) \in T /\ Segments(url.path) \in Seq(Seq(T))
      /\ Last(url.path) = "/" \/ Segments(url.path) # <<>>
  BY <1>1, <1>2, <1>4, <1>5 DEF segments
<1>7. HashIsName(ShortHash(Join(full))) /\ "/" \in T
  BY <1>3 DEF EveryHashIsName
<1> QED
  BY <1>1, <1>6, <1>7, StoredPathIsSafe

\* What is fetched for a reference is a URL.
LEMMA FetchedIsUrl ==
  ASSUME AddressInv, NEW url \in Fetched
  PROVE  UrlOver(Characters \cup {"/"}, url) /\ IsHttp(url)
<1> DEFINE S == Characters \cup {"/"}
<1>1. "/" \in S /\ UrlOver(S, document) /\ reference \in Seq(S)
  BY DEF AddressInv
<1> HIDE DEF S
<1>2. StripWhitespace(reference) \in Seq(S)
  BY <1>1, StrippedIsText
<1>3. UrlOrNone(S, ResolveUrl(document, reference))
  BY <1>1, <1>2, ResolvedIsUrl DEF ResolveUrl
<1> QED
  BY <1>3 DEF UrlOrNone, Fetched, Target, S

\* Whatever a document refers to, and in whatever words: the file that is stored for it has
\* a path of safe names, below the output directory, that is not too long.  The cut of
\* sanitize_path_component() and the hash of relative_path_for() are included, so that the
\* hash is assumed to be a word that is a name.
THEOREM EverythingIsStoredInside ==
  ASSUME HttpDocuments, EveryHashIsName PROVE AddressSpec => []StoredInside
<1>1. AddressInv => StoredInside
  <2> SUFFICES ASSUME AddressInv, NEW url \in Fetched, NEW kind \in Kinds,
                      NEW full, full = FullPath(url, Site, kind),
                      NEW path, path = Shortened(full)
               PROVE  /\ path # <<>> /\ Len(Join(path)) <= PathLimit
                      /\ \A i \in DOMAIN path : SafeName(path[i])
                      /\ path = full => \A i \in DOMAIN path : EndsWell(path[i])
    BY DEF StoredInside
  <2> DEFINE S == Characters \cup {"/"}
             T == NameCharacters(S, url) \cup {ShortHash(Join(full))}
  <2>1. "/" \in S /\ UrlOver(S, url) /\ IsHttp(url)
    BY FetchedIsUrl
  <2> HIDE DEF S
  <2>2. NameCharacters(S, url) \subseteq T /\ ShortHash(Join(full)) \in T
    OBVIOUS
  <2>3. path = PathFor(url, Site, kind)
    BY DEF PathFor
  <2> HIDE DEF T
  <2>4. /\ path \in Seq(SafeNames(T)) \ {<<>>} /\ Len(Join(path)) <= PathLimit
        /\ path = full => \A i \in DOMAIN path : EndsWell(path[i])
    BY <2>1, <2>2, <2>3, PathIsSafe
  <2>5. DOMAIN path = 1 .. Len(path) /\ \A i \in 1 .. Len(path) : path[i] \in SafeNames(T)
    BY <2>4
  <2>6. \A i \in DOMAIN path : SafeName(path[i])
    BY <2>5 DEF SafeNames
  <2> QED
    BY <2>4, <2>6
<1> QED
  BY <1>1, AddressesAreUrls, PTL

-----------------------------------------------------------------------------
(* Texts put together.                                                     *)

\* A character that is not there.
LEMMA NotThere ==
  ASSUME NEW S, NEW text \in Seq(S), NEW c, c \notin S
  PROVE  Find(text, c) = 0 /\ RFind(text, c) = 0 /\ Head1(text, c) = text /\ Rest1(text, c) = None
<1>1. \A i \in 1 .. Len(text) : text[i] # c
  <2> TAKE i \in 1 .. Len(text)
  <2>1. text[i] \in S
    OBVIOUS
  <2> QED
    BY <2>1
<1>2. Find(text, c) = 0
  BY <1>1, FindFirst
<1>3. RFind(text, c) = 0
  BY <1>1, FindLast
<1> QED
  BY <1>2, <1>3 DEF Head1, Rest1

\* Two parts with a character in between.
Joint(a, c, b) == a \o (<<c>> \o b)

MeetingAt(S, text, a, c, b) ==
  /\ text \in Seq(S) /\ Len(text) = Len(a) + 1 + Len(b)
  /\ \A i \in 1 .. Len(a) : text[i] = a[i]
  /\ text[Len(a) + 1] = c
  /\ \A i \in 1 .. Len(b) : text[Len(a) + 1 + i] = b[i]

LEMMA Between ==
  ASSUME NEW S, NEW a \in Seq(S), NEW c \in S, NEW b \in Seq(S)
  PROVE  MeetingAt(S, Joint(a, c, b), a, c, b)
<1> DEFINE one == <<c>>
           rest == one \o b
           text == a \o rest
           m == Len(a)
           n == Len(b)
<1>1. one \in Seq(S) /\ Len(one) = 1 /\ one[1] = c /\ m \in Nat /\ n \in Nat
  OBVIOUS
<1> HIDE DEF one, m, n
<1>2. /\ rest \in Seq(S) /\ Len(rest) = 1 + n /\ rest[1] = c
      /\ \A i \in 1 .. n : rest[1 + i] = b[i]
  <2>0. /\ rest \in Seq(S) /\ Len(rest) = Len(one) + Len(b)
        /\ \A i \in 1 .. Len(one) + Len(b) : rest[i] = IF i <= Len(one) THEN one[i] ELSE b[i - Len(one)]
    BY <1>1, ConcatProperties
  <2>1. /\ rest \in Seq(S) /\ Len(rest) = 1 + n
        /\ \A i \in 1 .. 1 + n : rest[i] = IF i <= 1 THEN one[i] ELSE b[i - 1]
    BY <1>1, <2>0 DEF n
  <2>2. 1 \in 1 .. 1 + n /\ \A i \in 1 .. n : 1 + i \in 1 .. 1 + n /\ ~(1 + i <= 1) /\ (1 + i) - 1 = i
    BY <1>1
  <2> HIDE DEF rest
  <2> QED
    BY <1>1, <2>1, <2>2
<1> HIDE DEF rest
<1>3. /\ text \in Seq(S) /\ Len(text) = m + 1 + n
      /\ \A i \in 1 .. m : text[i] = a[i]
      /\ \A i \in 1 .. 1 + n : text[m + i] = rest[i]
  <2>0. /\ text \in Seq(S) /\ Len(text) = Len(a) + Len(rest)
        /\ \A i \in 1 .. Len(a) + Len(rest) : text[i] = IF i <= Len(a) THEN a[i] ELSE rest[i - Len(a)]
    BY <1>2, ConcatProperties
  <2>1. /\ text \in Seq(S) /\ Len(text) = m + (1 + n)
        /\ \A i \in 1 .. m + (1 + n) : text[i] = IF i <= m THEN a[i] ELSE rest[i - m]
    BY <1>2, <2>0 DEF m
  <2>2. /\ \A i \in 1 .. m : i \in 1 .. m + (1 + n) /\ i <= m
        /\ \A i \in 1 .. 1 + n : m + i \in 1 .. m + (1 + n) /\ ~(m + i <= m) /\ (m + i) - m = i
        /\ m + (1 + n) = m + 1 + n
    BY <1>1
  <2> HIDE DEF text
  <2> QED
    BY <2>1, <2>2
<1> HIDE DEF text
<1>4. text[m + 1] = c /\ \A i \in 1 .. n : text[m + 1 + i] = b[i]
  <2>1. 1 \in 1 .. 1 + n /\ \A i \in 1 .. n : 1 + i \in 1 .. 1 + n /\ m + (1 + i) = m + 1 + i
    BY <1>1
  <2>2. \A i \in 1 .. n : text[m + (1 + i)] = rest[1 + i]
    BY <1>3, <2>1
  <2> QED
    BY <1>2, <1>3, <2>1, <2>2
<1> QED
  BY <1>3, <1>4 DEF MeetingAt, Joint, text, rest, one, m, n

\* How it is cut there.
CutThere(text, m, a, c, b) ==
  /\ Before(text, m + 1) = a /\ Before(text, m + 1 + 1) = a \o <<c>>
  /\ From(text, m + 1 + 1) = b /\ From(text, m + 1) = <<c>> \o b

LEMMA Parted ==
  ASSUME NEW S, NEW a \in Seq(S), NEW b \in Seq(S)
  PROVE  Before(a \o b, Len(a) + 1) = a /\ From(a \o b, Len(a) + 1) = b
<1> DEFINE m == Len(a)
           n == Len(b)
<1>1. m \in Nat /\ n \in Nat /\ Len(a \o b) = m + n
  BY ConcatProperties
<1>2. SubSeq(a, 1, m) = a /\ SubSeq(b, 1, n) = b
  BY SubSeqFull
<1> HIDE DEF m, n
<1>3. /\ m \in 0 .. m /\ 1 \in 1 .. m + 1 /\ (m + 1) - 1 = m
      /\ m + 1 \in m + 1 .. (m + n) + 1 /\ m + n \in m .. m + n
      /\ (m + 1) - m = 1 /\ (m + n) - m = n
  BY <1>1
<1>4. SubSeq(a \o b, 1, m) = a
  BY <1>2, <1>3, SubSeqOfConcat1 DEF m
<1>5. SubSeq(a \o b, m + 1, m + n) = b
  BY <1>2, <1>3, SubSeqOfConcat2 DEF m, n
<1> QED
  BY <1>1, <1>3, <1>4, <1>5 DEF Before, From, m

LEMMA BetweenCut ==
  ASSUME NEW S, NEW a \in Seq(S), NEW c \in S, NEW b \in Seq(S)
  PROVE  CutThere(Joint(a, c, b), Len(a), a, c, b)
<1> DEFINE one == <<c>>
           begun == a \o one
<1>1. one \in Seq(S) /\ one \o b \in Seq(S) /\ begun \in Seq(S) /\ Len(begun) = Len(a) + 1
  OBVIOUS
<1> HIDE DEF one
<1>2. begun \o b = a \o (one \o b)
  BY <1>1, ConcatAssociative
<1> HIDE DEF begun
<1>3. /\ Before(begun \o b, Len(a) + 1 + 1) = begun /\ From(begun \o b, Len(a) + 1 + 1) = b
  BY <1>1, Parted
<1>4. Before(a \o (one \o b), Len(a) + 1) = a /\ From(a \o (one \o b), Len(a) + 1) = one \o b
  BY <1>1, Parted
<1> QED
  BY <1>2, <1>3, <1>4 DEF CutThere, Joint, begun, one

LEMMA FoundFirst ==
  ASSUME NEW S, NEW a \in Seq(S), NEW c \in S, NEW b \in Seq(S), \A i \in 1 .. Len(a) : a[i] # c
  PROVE  /\ Find(Joint(a, c, b), c) = Len(a) + 1
         /\ Head1(Joint(a, c, b), c) = a /\ Rest1(Joint(a, c, b), c) = b
<1> DEFINE text == Joint(a, c, b)
           n == Find(text, c)
<1>1. /\ text \in Seq(S) /\ Len(text) = Len(a) + 1 + Len(b) /\ text[Len(a) + 1] = c
      /\ \A i \in 1 .. Len(a) : text[i] = a[i]
  <2>1. MeetingAt(S, text, a, c, b)
    BY Between
  <2> HIDE DEF text
  <2> QED
    BY <2>1 DEF MeetingAt
<1>6. Before(text, Len(a) + 1) = a /\ From(text, Len(a) + 1 + 1) = b
  <2>1. CutThere(text, Len(a), a, c, b)
    BY BetweenCut DEF text
  <2> QED
    BY <2>1 DEF CutThere
<1> HIDE DEF text
<1>2. /\ n \in 0 .. Len(text)
      /\ n = 0 => \A i \in 1 .. Len(text) : text[i] # c
      /\ n # 0 => text[n] = c /\ \A i \in 1 .. n - 1 : text[i] # c
  BY <1>1, FindFirst
<1>3. Len(a) \in Nat /\ Len(b) \in Nat
  OBVIOUS
<1> HIDE DEF n
<1>4. n = Len(a) + 1
  <2>1. Len(a) + 1 \in 1 .. Len(text)
    BY <1>1, <1>3
  <2>2. n # 0
    BY <1>1, <1>2, <2>1
  <2>3. n \notin 1 .. Len(a)
    BY <1>1, <1>2, <2>2
  <2>4. Len(a) + 1 \notin 1 .. n - 1
    BY <1>1, <1>2, <2>2
  <2> QED
    BY <1>1, <1>2, <1>3, <2>1, <2>2, <2>3, <2>4
<1>5. n # 0 /\ n + 1 = Len(a) + 1 + 1
  BY <1>3, <1>4
<1> QED
  BY <1>4, <1>5, <1>6 DEF Head1, Rest1, n, text

LEMMA FoundLast ==
  ASSUME NEW S, NEW a \in Seq(S), NEW c \in S, NEW b \in Seq(S), \A i \in 1 .. Len(b) : b[i] # c
  PROVE  RFind(Joint(a, c, b), c) = Len(a) + 1
<1> DEFINE text == Joint(a, c, b)
           n == RFind(text, c)
<1>1. /\ text \in Seq(S) /\ Len(text) = Len(a) + 1 + Len(b) /\ text[Len(a) + 1] = c
      /\ \A i \in 1 .. Len(b) : text[Len(a) + 1 + i] = b[i]
  <2>1. MeetingAt(S, text, a, c, b)
    BY Between
  <2> HIDE DEF text
  <2> QED
    BY <2>1 DEF MeetingAt
<1> HIDE DEF text
<1>2. /\ n \in 0 .. Len(text) /\ (n # 0 => text[n] = c) /\ \A i \in n + 1 .. Len(text) : text[i] # c
  <2>1. n \in 0 .. Len(text) /\ (n # 0 => text[n] = c)
    BY <1>1, FindLast
  <2>2. \A i \in n + 1 .. Len(text) : text[i] # c
    BY <1>1, LastIsLast
  <2> QED
    BY <2>1, <2>2
<1>3. Len(a) \in Nat /\ Len(b) \in Nat
  OBVIOUS
<1> HIDE DEF n
<1>4. Len(a) + 1 \notin n + 1 .. Len(text)
  BY <1>1, <1>2
<1>5. n >= Len(a) + 1
  BY <1>1, <1>2, <1>3, <1>4
<1>6. n - (Len(a) + 1) \notin 1 .. Len(b)
  <2> SUFFICES ASSUME n - (Len(a) + 1) \in 1 .. Len(b) PROVE FALSE
    OBVIOUS
  <2>1. Len(a) + 1 + (n - (Len(a) + 1)) = n /\ n # 0
    BY <1>2, <1>3, <1>5
  <2> QED
    BY <1>1, <1>2, <2>1
<1> QED
  BY <1>1, <1>2, <1>3, <1>5, <1>6 DEF n, text

\* The last segment of a path: what is left when it goes.
LEMMA LastStep ==
  ASSUME NEW S, "/" \in S, NEW segments \in Seq(Steps(S)), NEW segment \in Steps(S),
         NEW text, text = Slashed(Append(segments, segment))
  PROVE  /\ text \in Seq(S) /\ text = Joint(Slashed(segments), "/", segment)
         /\ RFind(text, "/") # 0 /\ Before(text, RFind(text, "/")) = Slashed(segments)
         /\ Before(text, RFind(text, "/") + 1) = Slashed(segments) \o <<"/">>
<1> DEFINE a == Slashed(segments)
<1>1. segments \in Seq(Seq(S)) /\ segment \in Seq(S) /\ segment \in Seq(S \ {"/"})
  BY StepsAreTexts DEF Steps, WordsOver
<1>2. a \in Seq(S) /\ text = Joint(a, "/", segment)
  BY <1>1, SlashedOneMore DEF Joint
<1> HIDE DEF a
<1>3. \A i \in 1 .. Len(segment) : segment[i] # "/"
  <2> TAKE i \in 1 .. Len(segment)
  <2>1. segment[i] \in S \ {"/"}
    BY <1>1
  <2> QED
    BY <2>1
<1>4. RFind(text, "/") = Len(a) + 1
  BY <1>1, <1>2, <1>3, FoundLast DEF Joint
<1>5. CutThere(text, Len(a), a, "/", segment) /\ text \in Seq(S)
  <2>1. CutThere(Joint(a, "/", segment), Len(a), a, "/", segment)
    BY <1>1, <1>2, BetweenCut
  <2>2. Joint(a, "/", segment) \in Seq(S)
    BY <1>1, <1>2, Between DEF MeetingAt
  <2> QED
    BY <1>2, <2>1, <2>2
<1>6. Len(a) \in Nat
  BY <1>2
<1> QED
  BY <1>2, <1>4, <1>5, <1>6 DEF CutThere, a

\* Segments with slashes in between.
LEMMA JoinIs ==
  ASSUME NEW S, "/" \in S, NEW segments \in Seq(Steps(S)), segments # <<>>
  PROVE  /\ Join(segments) \in Seq(S) /\ Join(segments) # <<>> /\ Join(segments)[1] # "/"
         /\ Last(Join(segments)) # "/" /\ Segments(Join(segments)) = segments
         /\ <<"/">> \o Join(segments) = Slashed(segments)
<1> DEFINE link == Join(segments)
           slash == <<"/">>
           Second(list) == list = <<>> \/ (Len(Slashed(list)) >= 2 /\ Slashed(list)[2] # "/")
           T == {list \in Seq(Steps(S)) : Second(list)}
<1>0. segments \in Seq(Seq(S)) /\ FALSE \in BOOLEAN
  BY StepsAreTexts
<1>1. /\ link \in Seq(S) /\ slash \o link = Slashed(segments)
      /\ Absolute(segments, FALSE) = Slashed(segments)
  BY <1>0, AbsoluteIsSlashed
<1>2. slash \in Seq(S) /\ Len(slash) = 1 /\ slash[1] = "/"
  OBVIOUS
<1>3. ASSUME NEW list \in Seq(Steps(S)), list \in T, NEW step \in Steps(S)
      PROVE  Append(list, step) \in T
  <2>1. list \in Seq(Seq(S)) /\ step \in Seq(S) /\ step # <<>> /\ step \in Seq(S \ {"/"})
    BY StepsAreTexts DEF Steps, WordsOver
  <2> DEFINE a == Slashed(list)
             b == slash \o step
             c == Slashed(Append(list, step))
  <2>2. a \in Seq(S) /\ c = a \o b
    BY <2>1, SlashedOneMore
  <2>3. b \in Seq(S) /\ Len(b) = 1 + Len(step) /\ b[2] = step[1] /\ Len(step) \in Nat \ {0}
    <3>1. Len(step) \in Nat \ {0}
      BY <2>1
    <3> HIDE DEF slash
    <3>2. /\ b \in Seq(S) /\ Len(b) = Len(slash) + Len(step)
          /\ \A i \in 1 .. Len(slash) + Len(step) : b[i] = IF i <= Len(slash) THEN slash[i] ELSE step[i - Len(slash)]
      BY <1>2, <2>1, ConcatProperties
    <3>3. 2 \in 1 .. Len(slash) + Len(step) /\ ~(2 <= Len(slash)) /\ 2 - Len(slash) = 1
      BY <1>2, <3>1
    <3> QED
      BY <1>2, <3>1, <3>2, <3>3
  <2>4. step[1] # "/"
    <3>1. step[1] \in S \ {"/"}
      BY <2>1
    <3> QED
      BY <3>1
  <2>5. /\ Len(c) = Len(a) + Len(b)
        /\ \A i \in 1 .. Len(a) + Len(b) : c[i] = IF i <= Len(a) THEN a[i] ELSE b[i - Len(a)]
    <3> HIDE DEF a, b, c
    <3> QED
      BY <2>2, <2>3, ConcatProperties, ZenonT(30)
  <2>6. list = <<>> => Len(a) = 0
    <3>1. Slashed(<<>>) = <<>> /\ Len(<<>>) = 0
      BY <2>1, SlashedOneMore
    <3> QED
      BY <3>1
  <2>7. list # <<>> => Len(a) >= 2 /\ a[2] # "/"
    BY <1>3
  <2>8. Append(list, step) \in Seq(Steps(S))
    BY AppendProperties
  <2>9. Len(c) >= 2 /\ c[2] # "/"
    <3>1. Len(a) \in Nat
      BY <2>2
    <3> HIDE DEF a, b, c
    <3>2. 2 \in 1 .. Len(a) + Len(b)
      BY <2>3, <3>1
    <3> QED
      BY <2>3, <2>4, <2>5, <2>6, <2>7, <3>1, <3>2
  <2> QED
    BY <2>8, <2>9
<1>4. <<>> \in T
  OBVIOUS
<1>5. segments \in T
  <2> HIDE DEF T
  <2>1. Seq(Steps(S)) \subseteq T
    BY <1>3, <1>4, AllSequences
  <2> QED
    BY <2>1
<1>6. Len(link) >= 1 /\ link[1] # "/"
  <2> DEFINE whole == slash \o link
  <2>1. Len(whole) >= 2 /\ whole[2] # "/"
    BY <1>1, <1>5
  <2> HIDE DEF link, slash
  <2>2. /\ Len(whole) = Len(slash) + Len(link)
        /\ \A i \in 1 .. Len(slash) + Len(link) : whole[i] = IF i <= Len(slash) THEN slash[i] ELSE link[i - Len(slash)]
    BY <1>1, <1>2, ConcatProperties
  <2> HIDE DEF whole
  <2>3. Len(link) \in Nat
    BY <1>1
  <2>4. Len(link) >= 1 /\ 2 \in 1 .. Len(slash) + Len(link) /\ ~(2 <= Len(slash)) /\ 2 - Len(slash) = 1
    BY <1>2, <2>1, <2>2, <2>3
  <2> QED
    BY <2>1, <2>2, <2>4
<1>7. link # <<>>
  BY <1>6
<1>8. Last(link) # "/"
  <2>1. ~(Last(Absolute(segments, FALSE)) = "/")
    BY <1>0, SegmentsOfAbsolute
  <2> HIDE DEF link, slash
  <2>2. Last(slash \o link) = Last(link)
    BY <1>1, <1>2, <1>7, ConcatEnds
  <2> QED
    BY <1>1, <2>1, <2>2
<1>9. Segments(link) = segments
  <2>1. Segments(Slashed(segments)) = segments
    BY SegmentsOfSlashed
  <2>2. Last(slash) = "/"
    BY <1>2 DEF Last
  <2>3. Split(slash \o link, "/") = Split(slash, "/") \o Split(link, "/")
    <3>1. \/ slash = <<>> \/ Last(slash) = "/"
          \/ link = <<>> \/ link[1] = "/"
      BY <2>2
    <3> HIDE DEF link, slash
    <3>2. link \in Seq(S) /\ slash \in Seq(S)
      BY <1>1, <1>2
    <3> QED
      BY <3>1, <3>2, SplitConcat, ZenonT(30)
  <2>4. Split(slash, "/") = <<>>
    BY SlashIsNoSegment DEF Segments
  <2>5. Split(link, "/") \in Seq(WordsOver(S, "/"))
    <3> HIDE DEF link
    <3> QED
      BY <1>1, SplitWords
  <2> HIDE DEF link, slash
  <2>6. <<>> \o Split(link, "/") = Split(link, "/")
    BY <2>5, ConcatEmptySeq
  <2> QED
    BY <1>1, <2>1, <2>3, <2>4, <2>6 DEF Segments
<1> QED
  BY <1>1, <1>6, <1>7, <1>8, <1>9

\* Where a path leads that climbs first and goes down again.
LEMMA WalkedDown ==
  ASSUME NEW S, NEW list \in Seq(Steps(S)), NEW more \in Seq(PlainSteps(S))
  PROVE  Walked(list \o more) = Walked(list) \o more
<1> DEFINE W == Steps(S)
           P == PlainSteps(S)
           T == {down \in Seq(P) : Walked(list \o down) = Walked(list) \o down}
<1>0. Walked(list) \in Seq(P) /\ P \subseteq W
  BY WalkedPlain DEF PlainSteps
<1>1. <<>> \in T
  <2>1. list \o <<>> = list
    BY ConcatEmptySeq
  <2> DEFINE there == Walked(list)
  <2>2. there \in Seq(P)
    BY <1>0
  <2> HIDE DEF there, P
  <2>3. there \o <<>> = there /\ <<>> \in Seq(P)
    BY <2>2, ConcatEmptySeq
  <2> QED
    BY <2>1, <2>3 DEF there
<1>2. ASSUME NEW down \in Seq(P), down \in T, NEW step \in P PROVE Append(down, step) \in T
  <2> DEFINE there == Walked(list)
             whole == list \o down
  <2>1. there \in Seq(P) /\ step \notin {Dot, DotDot} /\ step \in W /\ list \in Seq(W)
    BY <1>0 DEF PlainSteps
  <2>2. down \in Seq(W)
    BY <1>0, MoreCharacters
  <2> HIDE DEF P, W
  <2>3. list \o Append(down, step) = Append(whole, step) /\ whole \in Seq(W)
    BY <2>1, <2>2, ConcatAppend, ConcatProperties
  <2>4. there \o Append(down, step) = Append(there \o down, step) /\ Append(down, step) \in Seq(P)
        /\ there \o down \in Seq(P)
    <3> HIDE DEF there
    <3> QED
      BY <2>1, ConcatAppend, ConcatProperties, AppendProperties
  <2>5. Walked(whole) = there \o down
    BY <1>2
  <2> HIDE DEF whole, there
  <2>6. Walked(Append(whole, step)) = Entered(there \o down, step)
    BY <2>1, <2>3, <2>5, WalkedOneMore DEF W
  <2>7. Entered(there \o down, step) = Append(there \o down, step)
    BY <2>1, <2>4, EnteredIsThere
  <2> QED
    BY <2>3, <2>4, <2>6, <2>7 DEF there
<1> HIDE DEF T, P
<1>3. Seq(P) \subseteq T
  BY <1>1, <1>2, AllSequences
<1> QED
  BY <1>3 DEF T, P

\* That often to the directory above.
Climbing(n) == [i \in 1 .. n |-> DotDot]

LEMMA WalkedUp ==
  ASSUME NEW S, DotDot \in Steps(S), NEW list \in Seq(PlainSteps(S)), NEW n \in 0 .. Len(list)
  PROVE  /\ Climbing(n) \in Seq(Steps(S)) /\ list \in Seq(Steps(S))
         /\ Walked(list \o Climbing(n)) = SubSeq(list, 1, Len(list) - n)
<1> DEFINE W == Steps(S)
           P == PlainSteps(S)
           N == Len(list)
           left(k) == SubSeq(list, 1, N - k)
           T == {k \in 0 .. N : Climbing(k) \in Seq(W) /\ Walked(list \o Climbing(k)) = left(k)}
<1>1. list \in Seq(W) /\ Walked(list) = list /\ N \in Nat /\ list \in Seq(P)
  <2>1. list \in Seq(W)
    BY PlainStepsAreSteps
  <2> QED
    BY <2>1, WalkedPlain
<1>2. 0 \in T
  <2>1. Climbing(0) = <<>>
    BY DEF Climbing
  <2> HIDE DEF W
  <2>2. <<>> \in Seq(W) /\ list \o <<>> = list /\ SubSeq(list, 1, N) = list
    BY <1>1, ConcatEmptySeq, SubSeqFull
  <2>3. N - 0 = N /\ 0 \in 0 .. N
    BY <1>1
  <2> QED
    BY <1>1, <2>1, <2>2, <2>3
<1>3. ASSUME NEW k \in 0 .. N - 1, k \in T PROVE k + 1 \in T
  <2> DEFINE up == Climbing(k)
             more == Climbing(k + 1)
             stack == left(k)
  <2>1. k \in Nat /\ k + 1 \in 0 .. N /\ N - k >= 1 /\ N - k \in Int /\ N - k <= N /\ 1 \in Nat \ {0}
        /\ (N - k) - 1 = N - (k + 1) /\ N - k - 1 + 1 = N - k
    BY <1>1
  <2>2. up \in Seq(W) /\ Len(up) = k /\ Walked(list \o up) = stack
    <3>1. Len(Climbing(k)) = k
      BY <2>1 DEF Climbing
    <3> QED
      BY <1>3, <3>1
  <2>3. more = Append(up, DotDot)
    <3> DEFINE next == Append(up, DotDot)
    <3>1. /\ next \in Seq(W) /\ Len(next) = k + 1 /\ next[k + 1] = DotDot
          /\ \A i \in 1 .. k : next[i] = up[i]
      <4> HIDE DEF up
      <4> QED
        BY <2>2, AppendProperties
    <3>2. \A i \in 1 .. k : up[i] = DotDot
      BY DEF Climbing
    <3>3. \A i \in 1 .. k + 1 : i = k + 1 \/ i \in 1 .. k
      BY <2>1
    <3> HIDE DEF next, up
    <3>4. \A i \in 1 .. k + 1 : next[i] = DotDot
      BY <3>1, <3>2, <3>3
    <3>5. DOMAIN next = 1 .. k + 1
      BY <2>1, <3>1
    <3>6. next = [i \in 1 .. k + 1 |-> DotDot]
      BY <3>1, <3>4, <3>5
    <3> QED
      BY <3>6 DEF Climbing, next
  <2>4. stack \in Seq(P) /\ Len(stack) = N - k
    <3>1. /\ SubSeq(list, 1, N - k) \in Seq(P)
          /\ Len(SubSeq(list, 1, N - k)) = IF 1 <= N - k THEN N - k - 1 + 1 ELSE 0
      BY <1>1, <2>1, PartIsText
    <3> QED
      BY <2>1, <3>1
  <2>5. stack # <<>> /\ Front(stack) = left(k + 1)
    <3>1. Front(stack) = SubSeq(stack, 1, N - (k + 1))
      BY <2>1, <2>4 DEF Front
    <3>2. SubSeq(SubSeq(list, 1, N - k), 1, N - (k + 1)) = SubSeq(list, 1, N - (k + 1))
      <4>1. CASE N - (k + 1) = 0
        <5>1. SubSeq(SubSeq(list, 1, N - k), 1, 0) = <<>> /\ SubSeq(list, 1, 0) = <<>>
          BY SubSeqEmpty
        <5> QED
          BY <4>1, <5>1
      <4>2. CASE N - (k + 1) # 0
        <5>1. /\ 1 \in 1 .. N /\ N - k \in 1 .. N /\ 1 \in 1 .. (N - k) - 1 + 1
              /\ N - (k + 1) \in 1 .. (N - k) - 1 + 1 /\ 1 + 1 - 1 = 1
              /\ 1 + (N - (k + 1)) - 1 = N - (k + 1)
          <6>1. N \in Nat
            BY <1>1
          <6> HIDE DEF N
          <6> QED
            BY <2>1, <4>2, <6>1
        <5>2. SubSeq(SubSeq(list, 1, N - k), 1, N - (k + 1)) = SubSeq(list, 1 + 1 - 1, 1 + (N - (k + 1)) - 1)
          BY <1>1, <5>1, SubSeqOfSubSeq
        <5> QED
          BY <5>1, <5>2
      <4> QED
        BY <4>1, <4>2
    <3>3. stack # <<>>
      <4> HIDE DEF stack, N
      <4> QED
        BY <2>1, <2>4
    <3> QED
      BY <3>1, <3>2, <3>3
  <2> HIDE DEF stack, up, more, left
  <2>6. list \o more = Append(list \o up, DotDot) /\ list \o up \in Seq(W) /\ more \in Seq(W)
    BY <1>1, <2>2, <2>3, ConcatAppend, ConcatProperties, AppendProperties
  <2>7. Walked(list \o more) = Entered(stack, DotDot)
    BY <2>2, <2>6, WalkedOneMore
  <2>8. Entered(stack, DotDot) = Front(stack)
    BY <2>5 DEF Entered, Dot, DotDot
  <2> QED
    BY <2>1, <2>5, <2>6, <2>7, <2>8 DEF more
<1>4. 0 .. N \subseteq T
  <2> HIDE DEF T
  <2> QED
    BY <1>1, <1>2, <1>3, AllNumbers
<1> QED
  BY <1>1, <1>4

-----------------------------------------------------------------------------
(* Escapes.                                                                *)

\* Characters that a link can be made of, or that have an escape.
Encodable(T) == \A c \in T : c \in DOMAIN Unescaped => \E e \in DOMAIN Unescaped : Unescaped[e] = c
Linkable(T) == (T \cup DOMAIN Unescaped) \ (Forbidden \cup {"#", Space})

LEMMA CharacterEncoded ==
  ASSUME EscapesSuffice, NEW T, Encodable(T), NEW c \in T, c \notin Forbidden,
         NEW d, d = IF c \in Escaped THEN CHOOSE e \in DOMAIN Unescaped : Unescaped[e] = c ELSE c
  PROVE  /\ d \in Linkable(T)
         /\ (IF d \in DOMAIN Unescaped THEN Unescaped[d] ELSE d) = c
<1> DEFINE meant == {Unescaped[e] : e \in DOMAIN Unescaped}
<1>1. /\ \A e \in DOMAIN Unescaped : e \notin Spared /\ e \notin Forbidden /\ e \notin {"#", Space}
      /\ "#" \in meant /\ Space \in meant
  BY DEF EscapesSuffice
<1>2. Escaped = meant \ Spared
  BY DEF Escaped
<1>3. "#" \notin Spared /\ Space \notin Spared
  BY DEF Spared, Space
<1>4. CASE c \in Escaped
  <2>1. \E e \in DOMAIN Unescaped : Unescaped[e] = c
    BY <1>2, <1>4
  <2>2. d \in DOMAIN Unescaped /\ Unescaped[d] = c
    BY <1>4, <2>1
  <2> QED
    BY <1>1, <2>2 DEF Linkable
<1>5. CASE c \notin Escaped
  <2>1. d = c /\ (c \notin meant \/ c \in Spared)
    BY <1>2, <1>5
  <2>2. c \notin DOMAIN Unescaped
    BY <1>1, <2>1 DEF Encodable
  <2>3. c # "#" /\ c # Space
    BY <1>1, <1>3, <2>1
  <2> QED
    BY <2>1, <2>2, <2>3 DEF Linkable
<1> QED
  BY <1>4, <1>5

LEMMA NameEncoded ==
  ASSUME EscapesSuffice, NEW T, Encodable(T), NEW name \in SafeNames(T)
  PROVE  Encode(name) \in PlainSteps(Linkable(T)) /\ Decode(Encode(name)) = name
<1> DEFINE L == Linkable(T)
           code(c) == IF c \in Escaped THEN CHOOSE e \in DOMAIN Unescaped : Unescaped[e] = c ELSE c
           mean(c) == IF c \in DOMAIN Unescaped THEN Unescaped[c] ELSE c
           encoded == Encode(name)
           n == Len(name)
<1>1. /\ name \in Seq(T) /\ n \in Nat \ {0} /\ DOMAIN name = 1 .. n
      /\ \A i \in 1 .. n : name[i] \in T /\ name[i] \notin Forbidden
      /\ name # Dot /\ name # DotDot
  <2>1. name \in Seq(T) /\ SafeName(name)
    BY DEF SafeNames
  <2>2. DOMAIN name = 1 .. n /\ n \in Nat /\ \A i \in 1 .. n : name[i] \in T
    BY <2>1
  <2>3. name # <<>> /\ name # Dot /\ name # DotDot /\ \A i \in 1 .. n : name[i] \notin Forbidden
    BY <2>1, <2>2 DEF SafeName
  <2>4. n # 0
    BY <2>1, <2>3
  <2> QED
    BY <2>1, <2>2, <2>3, <2>4
<1>2. \A i \in 1 .. n : code(name[i]) \in L /\ mean(code(name[i])) = name[i]
  <2> TAKE i \in 1 .. n
  <2>1. name[i] \in T /\ name[i] \notin Forbidden
    BY <1>1
  <2> QED
    BY <2>1, CharacterEncoded
<1>3. encoded = [i \in 1 .. n |-> code(name[i])]
  BY <1>1 DEF Encode
<1> HIDE DEF code, encoded, n, L
<1>4. encoded \in Seq(L) /\ Len(encoded) = n /\ \A i \in 1 .. n : encoded[i] = code(name[i])
  <2>1. encoded \in [1 .. n -> L]
    BY <1>2, <1>3
  <2> QED
    BY <1>1, <1>3, <2>1, FunctionIsSeq
<1>5. Decode(encoded) = name
  <2>1. Decode(encoded) = [i \in 1 .. n |-> mean(encoded[i])]
    <3>1. DOMAIN encoded = 1 .. n
      BY <1>4
    <3> QED
      BY <3>1 DEF Decode
  <2>2. name = [i \in 1 .. n |-> name[i]]
    BY <1>1
  <2>3. \A i \in 1 .. n : mean(encoded[i]) = name[i]
    BY <1>2, <1>4
  <2> HIDE DEF mean
  <2> QED
    BY <2>1, <2>2, <2>3
<1>6. "/" \notin L
  BY DEF L, Linkable, Forbidden
<1>7. L \ {"/"} = L
  BY <1>6
<1>8. encoded # <<>>
  BY <1>1, <1>4
<1>9. "." \notin DOMAIN Unescaped
  BY DEF EscapesSuffice, Spared
<1>10. Decode(Dot) = Dot /\ Decode(DotDot) = DotDot
  <2>1. Dot = [i \in 1 .. 1 |-> "."] /\ DotDot = [i \in 1 .. 2 |-> "."]
    BY DEF Dot, DotDot
  <2>2. DOMAIN Dot = 1 .. 1 /\ DOMAIN DotDot = 1 .. 2
    BY <2>1
  <2>3. (\A i \in 1 .. 1 : Dot[i] = ".") /\ \A i \in 1 .. 2 : DotDot[i] = "."
    BY <2>1
  <2>4. Decode(Dot) = [i \in 1 .. 1 |-> "."]
    BY <1>9, <2>2, <2>3 DEF Decode
  <2>5. Decode(DotDot) = [i \in 1 .. 2 |-> "."]
    BY <1>9, <2>2, <2>3 DEF Decode
  <2> QED
    BY <2>1, <2>4, <2>5
<1>11. encoded # Dot /\ encoded # DotDot
  BY <1>1, <1>5, <1>10
<1>12. encoded \in PlainSteps(L)
  BY <1>4, <1>7, <1>8, <1>11 DEF PlainSteps, Steps, WordsOver
<1> QED
  BY <1>5, <1>12 DEF encoded, L

\* All the names of a path.
Encoded(path) == [i \in DOMAIN path |-> Encode(path[i])]

LEMMA PathEncoded ==
  ASSUME EscapesSuffice, NEW T, Encodable(T), NEW path \in Seq(SafeNames(T))
  PROVE  /\ Encoded(path) \in Seq(PlainSteps(Linkable(T))) /\ Len(Encoded(path)) = Len(path)
         /\ \A i \in 1 .. Len(path) : Encoded(path)[i] = Encode(path[i])
<1> DEFINE P == PlainSteps(Linkable(T))
<1>1. DOMAIN path = 1 .. Len(path) /\ Len(path) \in Nat /\ \A i \in 1 .. Len(path) : path[i] \in SafeNames(T)
  OBVIOUS
<1>2. \A i \in 1 .. Len(path) : Encode(path[i]) \in P
  <2> TAKE i \in 1 .. Len(path)
  <2>1. path[i] \in SafeNames(T)
    BY <1>1
  <2> QED
    BY <2>1, NameEncoded
<1>3. Encoded(path) = [i \in 1 .. Len(path) |-> Encode(path[i])]
  BY <1>1 DEF Encoded
<1> HIDE DEF P
<1>4. Encoded(path) \in [1 .. Len(path) -> P]
  BY <1>2, <1>3
<1>5. Encoded(path) \in Seq(P) /\ Len(Encoded(path)) = Len(path)
  BY <1>1, <1>4, FunctionIsSeq
<1> QED
  BY <1>3, <1>5 DEF P

LEMMA DecodeConcat ==
  ASSUME NEW S, NEW a \in Seq(S), NEW b \in Seq(S)
  PROVE  Decode(a \o b) = Decode(a) \o Decode(b)
<1> DEFINE mean(c) == IF c \in DOMAIN Unescaped THEN Unescaped[c] ELSE c
           M == {mean(c) : c \in S}
           ab == a \o b
           m == Len(a)
           n == Len(b)
<1>1. m \in Nat /\ n \in Nat /\ DOMAIN a = 1 .. m /\ DOMAIN b = 1 .. n
      /\ (\A i \in 1 .. m : a[i] \in S) /\ \A i \in 1 .. n : b[i] \in S
  OBVIOUS
<1>2. /\ ab \in Seq(S) /\ Len(ab) = m + n
      /\ \A i \in 1 .. m + n : ab[i] = IF i <= m THEN a[i] ELSE b[i - m]
  BY ConcatProperties
<1> HIDE DEF ab, m, n
<1>3. /\ Decode(a) = [i \in 1 .. m |-> mean(a[i])] /\ Decode(b) = [i \in 1 .. n |-> mean(b[i])]
      /\ Decode(ab) = [i \in 1 .. m + n |-> mean(ab[i])]
  <2>1. DOMAIN ab = 1 .. m + n
    BY <1>2
  <2> QED
    BY <1>1, <2>1 DEF Decode
<1>4. \A c \in S : mean(c) \in M
  OBVIOUS
<1> HIDE DEF mean, M
<1>5. Decode(a) \in [1 .. m -> M] /\ Decode(b) \in [1 .. n -> M]
  BY <1>1, <1>3, <1>4
<1> DEFINE da == Decode(a)
           db == Decode(b)
           dab == Decode(ab)
<1>6. /\ da \in Seq(M) /\ Len(da) = m /\ \A i \in 1 .. m : da[i] = mean(a[i])
  BY <1>1, <1>3, <1>5, FunctionIsSeq
<1>7. /\ db \in Seq(M) /\ Len(db) = n /\ \A i \in 1 .. n : db[i] = mean(b[i])
  BY <1>1, <1>3, <1>5, FunctionIsSeq
<1>8. \A i \in 1 .. m + n : dab[i] = mean(ab[i]) /\ mean(ab[i]) \in M
  <2>1. \A i \in 1 .. m + n : ab[i] \in S
    BY <1>2
  <2> QED
    BY <1>3, <1>4, <2>1
<1>9. dab \in Seq(M) /\ Len(dab) = m + n
  <2>1. m + n \in Nat /\ dab \in [1 .. m + n -> M]
    BY <1>1, <1>3, <1>8
  <2> HIDE DEF dab
  <2> QED
    BY <2>1, FunctionIsSeq
<1> HIDE DEF da, db, dab
<1>10. /\ da \o db \in Seq(M) /\ Len(da \o db) = m + n
       /\ \A i \in 1 .. m + n : (da \o db)[i] = IF i <= m THEN da[i] ELSE db[i - m]
  BY <1>6, <1>7, ConcatProperties
<1> DEFINE both == da \o db
<1> HIDE DEF both
<1>11. \A i \in 1 .. m + n : dab[i] = both[i]
  <2> TAKE i \in 1 .. m + n
  <2>1. CASE i <= m
    <3>1. i \in 1 .. m
      BY <1>1, <2>1
    <3> QED
      BY <1>2, <1>6, <1>8, <1>10, <2>1, <3>1 DEF both
  <2>2. CASE ~(i <= m)
    <3>1. i - m \in 1 .. n
      BY <1>1, <2>2
    <3> QED
      BY <1>2, <1>7, <1>8, <1>10, <2>2, <3>1 DEF both
  <2> QED
    BY <2>1, <2>2
<1>12. dab = both
  <2>1. both \in Seq(M) /\ Len(both) = m + n
    BY <1>10 DEF both
  <2> QED
    BY <1>9, <1>11, <2>1, SeqEqual
<1> QED
  BY <1>12 DEF dab, both, da, db, ab

\* The path of a file's URL stands for the file.
LEMMA PathDecoded ==
  ASSUME EscapesSuffice, NEW T, "/" \in T, Encodable(T), NEW path \in Seq(SafeNames(T))
  PROVE  Decode(Slashed(Encoded(path))) = Slashed(path)
<1> DEFINE N == SafeNames(T)
           L == Linkable(T) \cup {"/"}
           U == {list \in Seq(N) : Decode(Slashed(Encoded(list))) = Slashed(list)}
<1>0. "/" \in L /\ \A name \in N : Encode(name) \in Seq(L) /\ Decode(Encode(name)) = name /\ name \in Seq(T)
  <2> SUFFICES ASSUME NEW name \in N
               PROVE  Encode(name) \in Seq(L) /\ Decode(Encode(name)) = name /\ name \in Seq(T)
    OBVIOUS
  <2>1. Encode(name) \in PlainSteps(Linkable(T)) /\ Decode(Encode(name)) = name /\ name \in Seq(T)
    BY NameEncoded DEF SafeNames
  <2>2. Encode(name) \in Seq(Linkable(T))
    BY <2>1, StepsAreTexts DEF PlainSteps
  <2>3. Encode(name) \in Seq(L)
    BY <2>2, MoreCharacters
  <2> QED
    BY <2>1, <2>3
<1>1. "/" \notin DOMAIN Unescaped
  BY DEF EscapesSuffice, Forbidden
<1> HIDE DEF N, L
<1>2. <<>> \in U
  <2>1. Encoded(<<>>) = <<>> /\ Decode(<<>>) = <<>>
    BY DEF Encoded, Decode
  <2>2. <<>> \in Seq(N) /\ <<>> \in Seq(Seq(T)) /\ <<>> \in Seq(T)
    OBVIOUS
  <2>3. Slashed(<<>>) = <<>>
    BY <2>2, SlashedOneMore
  <2> QED
    BY <2>1, <2>2, <2>3
<1>3. ASSUME NEW list \in Seq(N), list \in U, NEW name \in N PROVE Append(list, name) \in U
  <2> DEFINE more == Append(list, name)
             codes == Encoded(list)
             code == Encode(name)
             slash == <<"/">>
  <2>1. codes \in Seq(Seq(L)) /\ code \in Seq(L) /\ list \in Seq(Seq(T)) /\ name \in Seq(T) /\ more \in Seq(N)
    <3>1. \A i \in 1 .. Len(list) : list[i] \in N
      OBVIOUS
    <3>2. DOMAIN list = 1 .. Len(list) /\ Len(list) \in Nat
      OBVIOUS
    <3>3. codes \in [1 .. Len(list) -> Seq(L)]
      BY <1>0, <3>1, <3>2 DEF Encoded
    <3>4. codes \in Seq(Seq(L))
      BY <3>2, <3>3, FunctionIsSeq
    <3>5. N \subseteq Seq(T)
      BY <1>0
    <3>6. list \in Seq(Seq(T))
      BY <3>5, MoreCharacters
    <3> QED
      BY <1>0, <3>4, <3>6, AppendProperties
  <2>2. Encoded(more) = Append(codes, code)
    <3>1. /\ Len(more) = Len(list) + 1 /\ more[Len(list) + 1] = name /\ Len(list) \in Nat
          /\ \A i \in 1 .. Len(list) : more[i] = list[i]
      BY AppendProperties
    <3>2. DOMAIN more = 1 .. Len(list) + 1
      BY <2>1, <3>1
    <3> HIDE DEF more
    <3>3. Encoded(more) = [i \in 1 .. Len(list) + 1 |-> Encode(more[i])]
      BY <3>2 DEF Encoded
    <3>4. Len(codes) = Len(list) /\ \A i \in 1 .. Len(list) : codes[i] = Encode(list[i])
      <4>1. DOMAIN list = 1 .. Len(list)
        OBVIOUS
      <4>2. codes = [i \in 1 .. Len(list) |-> Encode(list[i])]
        BY <4>1 DEF Encoded
      <4>3. codes \in [1 .. Len(list) -> {Encode(list[i]) : i \in 1 .. Len(list)}]
        BY <4>2
      <4>4. Len(codes) = Len(list)
        <5> HIDE DEF codes
        <5> QED
          BY <3>1, <4>3, FunctionIsSeq
      <4> QED
        BY <4>2, <4>4
    <3> DEFINE next == Append(codes, code)
    <3> HIDE DEF codes, code
    <3>5. /\ next \in Seq(Seq(L)) /\ Len(next) = Len(list) + 1 /\ next[Len(list) + 1] = code
          /\ \A i \in 1 .. Len(list) : next[i] = codes[i]
      BY <2>1, <3>4, AppendProperties
    <3> HIDE DEF next
    <3>6. \A i \in 1 .. Len(list) + 1 : next[i] = Encode(more[i])
      <4> TAKE i \in 1 .. Len(list) + 1
      <4>1. i = Len(list) + 1 \/ i \in 1 .. Len(list)
        BY <3>1
      <4> QED
        BY <3>1, <3>4, <3>5, <4>1 DEF code
    <3>7. DOMAIN next = 1 .. Len(list) + 1 /\ next = [i \in DOMAIN next |-> next[i]]
      BY <3>1, <3>5
    <3>8. next = [i \in 1 .. Len(list) + 1 |-> Encode(more[i])]
      BY <3>6, <3>7
    <3> QED
      BY <3>3, <3>8 DEF next, codes, code
  <2>3. Decode(Slashed(codes)) = Slashed(list) /\ Decode(code) = name
    BY <1>0, <1>3
  <2>4. slash \in Seq(L) /\ Decode(slash) = slash
    <3>1. slash = [i \in 1 .. 1 |-> "/"] /\ DOMAIN slash = 1 .. 1 /\ \A i \in 1 .. 1 : slash[i] = "/"
      OBVIOUS
    <3>2. slash \in Seq(L)
      BY <1>0
    <3> HIDE DEF slash
    <3>3. Decode(slash) = [i \in 1 .. 1 |-> "/"]
      BY <1>1, <3>1 DEF Decode
    <3> QED
      BY <3>1, <3>2, <3>3
  <2>5. /\ Slashed(Append(codes, code)) = Slashed(codes) \o (slash \o code)
        /\ Slashed(codes) \in Seq(L)
        /\ Slashed(more) = Slashed(list) \o (slash \o name)
    <3> HIDE DEF codes, code
    <3>1. /\ Slashed(Append(codes, code)) = Slashed(codes) \o (<<"/">> \o code)
          /\ Slashed(codes) \in Seq(L)
      BY <1>0, <2>1, SlashedOneMore
    <3>2. Slashed(Append(list, name)) = Slashed(list) \o (<<"/">> \o name)
      BY <2>1, SlashedOneMore
    <3> QED
      BY <3>1, <3>2
  <2> HIDE DEF codes, code, slash
  <2>6. slash \o code \in Seq(L)
    BY <2>1, <2>4, ConcatProperties
  <2>7. Decode(Slashed(codes) \o (slash \o code)) = Decode(Slashed(codes)) \o Decode(slash \o code)
    BY <2>5, <2>6, DecodeConcat
  <2>8. Decode(slash \o code) = Decode(slash) \o Decode(code)
    BY <2>1, <2>4, DecodeConcat
  <2>9. Decode(Slashed(Encoded(more))) = Slashed(more)
    BY <2>2, <2>3, <2>4, <2>5, <2>7, <2>8
  <2> QED
    BY <2>1, <2>9
<1> HIDE DEF U
<1>4. Seq(N) \subseteq U
  BY <1>2, <1>3, AllSequences
<1> QED
  BY <1>4 DEF U, N

\* What a text starts with.
LEMMA Begins ==
  ASSUME NEW S, NEW text \in Seq(S), NEW T, NEW prefix \in Seq(T)
  PROVE  StartsWith(text, prefix) <=>
           Len(prefix) <= Len(text) /\ \A i \in 1 .. Len(prefix) : text[i] = prefix[i]
<1> DEFINE n == Len(prefix)
           U == S \cup T
<1>1. n \in Nat /\ Len(text) \in Nat /\ prefix \in Seq(U) /\ text \in Seq(U)
  <2>1. S \subseteq U /\ T \subseteq U
    OBVIOUS
  <2> HIDE DEF U
  <2> QED
    BY <2>1, MoreCharacters
<1>2. CASE n <= Len(text)
  <2> DEFINE a == SubSeq(prefix, 1, n)
             b == SubSeq(text, 1, n)
  <2>1. 1 \in Nat \ {0} /\ n \in Int /\ n <= Len(prefix) /\ n - 1 + 1 = n
        /\ (\A i \in 1 .. n : 1 + i - 1 = i) /\ (~(1 <= n) => n = 0)
    BY <1>1
  <2> HIDE DEF n, U
  <2>2. /\ a \in Seq(U) /\ Len(a) = IF 1 <= n THEN n - 1 + 1 ELSE 0
        /\ \A i \in 1 .. n - 1 + 1 : a[i] = prefix[1 + i - 1]
    BY <1>1, <2>1, PartIsText
  <2>3. /\ b \in Seq(U) /\ Len(b) = IF 1 <= n THEN n - 1 + 1 ELSE 0
        /\ \A i \in 1 .. n - 1 + 1 : b[i] = text[1 + i - 1]
    BY <1>1, <1>2, <2>1, PartIsText
  <2> HIDE DEF a, b
  <2>4. Len(a) = n /\ Len(b) = n
    BY <1>1, <2>1, <2>2, <2>3
  <2>5. \A i \in 1 .. n : a[i] = prefix[i] /\ b[i] = text[i]
    BY <2>1, <2>2, <2>3
  <2>6. a = b <=> \A i \in 1 .. n : text[i] = prefix[i]
    <3>1. (\A i \in 1 .. n : a[i] = b[i]) => a = b
      BY <2>2, <2>3, <2>4, SeqEqual
    <3> QED
      BY <2>5, <3>1
  <2> QED
    BY <1>2, <2>6 DEF StartsWith, IsPrefix, a, b, n
<1>3. CASE ~(n <= Len(text))
  BY <1>3 DEF StartsWith, IsPrefix
<1> QED
  BY <1>2, <1>3

LEMMA BeginsWithOne ==
  ASSUME NEW S, NEW text \in Seq(S), NEW c
  PROVE  StartsWith(text, <<c>>) <=> text # <<>> /\ text[1] = c
<1> DEFINE one == <<c>>
<1>1. one \in Seq({c}) /\ Len(one) = 1 /\ one[1] = c /\ Len(text) \in Nat /\ (text # <<>> <=> 1 <= Len(text))
  OBVIOUS
<1>2. \A i \in 1 .. 1 : i = 1
  OBVIOUS
<1>3. 1 \in 1 .. 1
  OBVIOUS
<1> HIDE DEF one
<1>4. StartsWith(text, one) <=> 1 <= Len(text) /\ \A i \in 1 .. 1 : text[i] = one[i]
  <2>1. StartsWith(text, one) <=>
           Len(one) <= Len(text) /\ \A i \in 1 .. Len(one) : text[i] = one[i]
    BY <1>1, Begins
  <2> QED
    BY <1>1, <2>1
<1> QED
  BY <1>1, <1>2, <1>3, <1>4 DEF one

LEMMA BeginsWithTwo ==
  ASSUME NEW S, NEW text \in Seq(S), NEW c, NEW d
  PROVE  StartsWith(text, <<c, d>>) <=> Len(text) >= 2 /\ text[1] = c /\ text[2] = d
<1> DEFINE two == <<c, d>>
<1>1. two \in Seq({c, d}) /\ Len(two) = 2 /\ two[1] = c /\ two[2] = d /\ Len(text) \in Nat
      /\ (2 <= Len(text) <=> Len(text) >= 2)
  OBVIOUS
<1>2. (\A i \in 1 .. 2 : i = 1 \/ i = 2) /\ 1 \in 1 .. 2 /\ 2 \in 1 .. 2
  OBVIOUS
<1> HIDE DEF two
<1>3. StartsWith(text, two) <=> 2 <= Len(text) /\ \A i \in 1 .. 2 : text[i] = two[i]
  <2>1. StartsWith(text, two) <=>
           Len(two) <= Len(text) /\ \A i \in 1 .. Len(two) : text[i] = two[i]
    BY <1>1, Begins, ZenonT(30)
  <2> QED
    BY <1>1, <2>1
<1> QED
  BY <1>1, <1>2, <1>3 DEF two

\* The parts of a path in front of a name, and behind it.
LEMMA CutInTwo ==
  ASSUME NEW S, NEW list \in Seq(S), NEW n \in 0 .. Len(list)
  PROVE  /\ SubSeq(list, 1, n) \in Seq(S) /\ SubSeq(list, n + 1, Len(list)) \in Seq(S)
         /\ Len(SubSeq(list, 1, n)) = n /\ Len(SubSeq(list, n + 1, Len(list))) = Len(list) - n
         /\ \A i \in 1 .. n : SubSeq(list, 1, n)[i] = list[i]
         /\ \A i \in 1 .. Len(list) - n : SubSeq(list, n + 1, Len(list))[i] = list[n + i]
         /\ SubSeq(list, 1, n) \o SubSeq(list, n + 1, Len(list)) = list
<1> DEFINE N == Len(list)
           a == SubSeq(list, 1, n)
           b == SubSeq(list, n + 1, N)
<1>1. /\ N \in Nat /\ n \in Nat /\ n <= N /\ n + 1 \in Nat \ {0} /\ N \in Int /\ N <= N /\ n \in Int
      /\ 1 \in Nat \ {0} /\ n - 1 + 1 = n /\ N - (n + 1) + 1 = N - n
      /\ (~(1 <= n) => n = 0) /\ (~(n + 1 <= N) => N - n = 0)
      /\ \A i \in 1 .. n : 1 + i - 1 = i
  OBVIOUS
<1> HIDE DEF N
<1>2. \A i \in 1 .. N - n : n + 1 + i - 1 = n + i
  <2> SUFFICES ASSUME NEW i \in 1 .. N - n PROVE n + 1 + i - 1 = n + i
    OBVIOUS
  <2>1. i \in Int /\ n \in Int
    BY <1>1
  <2> QED
    BY <2>1
<1>3. /\ a \in Seq(S) /\ Len(a) = IF 1 <= n THEN n - 1 + 1 ELSE 0
      /\ \A i \in 1 .. n - 1 + 1 : a[i] = list[1 + i - 1]
  <2>1. n <= Len(list)
    BY <1>1 DEF N
  <2> QED
    BY <1>1, <2>1, PartIsText, SMTT(30)
<1>4. /\ b \in Seq(S) /\ Len(b) = IF n + 1 <= N THEN N - (n + 1) + 1 ELSE 0
      /\ \A i \in 1 .. N - (n + 1) + 1 : b[i] = list[n + 1 + i - 1]
  <2>1. N <= Len(list)
    BY <1>1 DEF N
  <2> QED
    BY <1>1, <2>1, PartIsText, SMTT(30)
<1>5. a \o b = list
  <2>1. 1 \in 1 .. N + 1 /\ n \in 1 - 1 .. N /\ N \in n .. N
    BY <1>1
  <2>2. SubSeq(list, 1, n) \o SubSeq(list, n + 1, N) = SubSeq(list, 1, N)
    BY <2>1, ConcatAdjacentSubSeq DEF N
  <2> QED
    BY <2>2, SubSeqFull DEF N
<1> HIDE DEF a, b
<1>6. Len(a) = n /\ Len(b) = N - n
  BY <1>1, <1>3, <1>4
<1>7. (\A i \in 1 .. n : a[i] = list[i]) /\ \A i \in 1 .. N - n : b[i] = list[n + i]
  BY <1>1, <1>2, <1>3, <1>4
<1> QED
  BY <1>3, <1>4, <1>5, <1>6, <1>7 DEF a, b, N

\* A link has a segment for every directory that is climbed and every name below.
LinkSteps(from, to) == Climbing(Climb(from, to)) \o Encoded(Descent(from, to))

\* Walking them from the directory of the document leads to the file.
LEMMA LinkWalks ==
  ASSUME EscapesSuffice, NEW T, "." \in T, Encodable(T),
         NEW from \in Seq(SafeNames(T)) \ {<<>>}, NEW to \in Seq(SafeNames(T)) \ {<<>>}
  PROVE  /\ LinkSteps(from, to) \in Seq(Steps(Linkable(T))) \ {<<>>}
         /\ Last(LinkSteps(from, to)) \in PlainSteps(Linkable(T))
         /\ Walked(Front(Encoded(from)) \o LinkSteps(from, to)) = Encoded(to)
<1> DEFINE L == Linkable(T)
           W == Steps(L)
           P == PlainSteps(L)
           N == SafeNames(T)
           m == Len(from)
           n == Len(to)
           c == CommonDirs(from, to)
           k == Climb(from, to)
           down == Descent(from, to)
           ef == Encoded(from)
           et == Encoded(to)
           ed == Encoded(down)
           dirs == Front(ef)
           up == Climbing(k)
           shared == SubSeq(et, 1, c)
<1>1. /\ m \in Nat \ {0} /\ n \in Nat \ {0} /\ c \in 0 .. m - 1 /\ c < n /\ c \in 0 .. n
      /\ SubSeq(from, 1, c) = SubSeq(to, 1, c) /\ k = m - 1 - c /\ down = SubSeq(to, c + 1, n)
  <2>1. m \in Nat \ {0} /\ n \in Nat \ {0}
    OBVIOUS
  <2>2. c \in 0 .. m - 1 /\ c < n /\ SubSeq(from, 1, c) = SubSeq(to, 1, c)
    BY CommonDirsShared
  <2> QED
    BY <2>1, <2>2 DEF Climb, Descent
<1>2. DotDot \in W
  <2>1. "." \in L
    BY DEF Linkable, Forbidden, Space
  <2>2. "." \in L \ {"/"}
    BY <2>1
  <2> HIDE DEF L
  <2> QED
    BY <2>2 DEF DotDot, Steps, WordsOver
<1>3. ef \in Seq(P) /\ Len(ef) = m /\ et \in Seq(P) /\ Len(et) = n
      /\ (\A i \in 1 .. m : ef[i] = Encode(from[i])) /\ \A i \in 1 .. n : et[i] = Encode(to[i])
  BY PathEncoded
<1>4. down \in Seq(N) /\ Len(down) = n - c /\ \A i \in 1 .. n - c : down[i] = to[c + i]
  <2>1. c \in 0 .. Len(to) /\ to \in Seq(N)
    BY <1>1
  <2> HIDE DEF N, down
  <2> QED
    BY <1>1, <2>1, CutInTwo, SMTT(30)
<1>5. ed \in Seq(P) /\ Len(ed) = n - c /\ \A i \in 1 .. n - c : ed[i] = Encode(down[i])
  <2> HIDE DEF down
  <2> QED
    BY <1>4, PathEncoded
<1> HIDE DEF ef, et, ed, W, down, N, m, n, c, k
<1>6. /\ shared \in Seq(P) /\ Len(shared) = c /\ (\A i \in 1 .. c : shared[i] = et[i])
      /\ SubSeq(et, c + 1, n) \in Seq(P) /\ Len(SubSeq(et, c + 1, n)) = n - c
      /\ (\A i \in 1 .. n - c : SubSeq(et, c + 1, n)[i] = et[c + i])
      /\ shared \o SubSeq(et, c + 1, n) = et
  <2>1. c \in 0 .. Len(et)
    BY <1>1, <1>3
  <2> HIDE DEF P
  <2> QED
    BY <1>3, <2>1, CutInTwo, ZenonT(30)
<1>7. SubSeq(et, c + 1, n) = ed
  <2> DEFINE rest == SubSeq(et, c + 1, n)
  <2>1. \A i \in 1 .. n - c : c + i \in 1 .. n
    BY <1>1
  <2>3. rest \in Seq(P) /\ Len(rest) = n - c /\ \A i \in 1 .. n - c : rest[i] = et[c + i]
    BY <1>6
  <2> HIDE DEF rest, P
  <2>2. \A i \in 1 .. n - c : rest[i] = ed[i]
    <3> SUFFICES ASSUME NEW i \in 1 .. n - c PROVE rest[i] = ed[i]
      OBVIOUS
    <3>1. rest[i] = et[c + i] /\ c + i \in 1 .. n
      BY <2>1, <2>3
    <3>2. et[c + i] = Encode(to[c + i])
      BY <1>3, <3>1
    <3>3. ed[i] = Encode(down[i]) /\ down[i] = to[c + i]
      BY <1>4, <1>5
    <3> QED
      BY <3>1, <3>2, <3>3
  <2>4. rest = ed
    BY <1>5, <2>2, <2>3, SeqEqual
  <2> QED
    BY <2>4 DEF rest
<1>8. /\ dirs \in Seq(P) /\ Len(dirs) = m - 1 /\ \A i \in 1 .. m - 1 : dirs[i] = ef[i]
  <2>1. ef # <<>>
    BY <1>1, <1>3
  <2> HIDE DEF P
  <2> QED
    BY <1>3, <2>1, FrontAndLast
<1>9. SubSeq(dirs, 1, c) = shared
  <2> DEFINE part == SubSeq(dirs, 1, c)
  <2>1. c \in 0 .. Len(dirs)
    BY <1>1, <1>8
  <2>2. part \in Seq(P) /\ Len(part) = c /\ \A i \in 1 .. c : part[i] = dirs[i]
    <3> HIDE DEF P, dirs
    <3> QED
      BY <1>8, <2>1, CutInTwo
  <2>3. \A i \in 1 .. c : from[i] = to[i]
    <3>1. \A i \in 1 .. c : SubSeq(from, 1, c)[i] = from[i]
      <4>1. c \in 0 .. Len(from) /\ from \in Seq(N)
        BY <1>1 DEF m, N
      <4> QED
        BY <4>1, CutInTwo
    <3>2. \A i \in 1 .. c : SubSeq(to, 1, c)[i] = to[i]
      <4>1. c \in 0 .. Len(to) /\ to \in Seq(N)
        BY <1>1 DEF n, N
      <4> QED
        BY <4>1, CutInTwo
    <3> QED
      BY <1>1, <3>1, <3>2
  <2>4. \A i \in 1 .. c : i \in 1 .. m - 1 /\ i \in 1 .. m /\ i \in 1 .. n
    BY <1>1
  <2>5. \A i \in 1 .. c : part[i] = shared[i]
    BY <1>3, <1>6, <1>8, <2>2, <2>3, <2>4
  <2> HIDE DEF part, P, shared
  <2>6. part = shared
    BY <1>6, <2>2, <2>5, SeqEqual
  <2> QED
    BY <2>6 DEF part
<1>10. k \in 0 .. Len(dirs) /\ Len(dirs) - k = c
  BY <1>1, <1>8
<1> HIDE DEF dirs, shared, up
<1>11. up \in Seq(W) /\ dirs \in Seq(W) /\ Walked(dirs \o up) = shared
  BY <1>2, <1>8, <1>9, <1>10, WalkedUp DEF W, up
<1>12. ed \in Seq(W) /\ ed # <<>>
  <2>1. ed \in Seq(W)
    BY <1>5, PlainStepsAreSteps DEF W
  <2>2. n - c # 0
    BY <1>1
  <2> QED
    BY <1>5, <2>1, <2>2
<1> HIDE DEF P
<1>13. Walked((dirs \o up) \o ed) = shared \o ed
  <2>1. dirs \o up \in Seq(W)
    BY <1>11, ConcatProperties
  <2> QED
    BY <1>5, <1>11, <2>1, WalkedDown DEF W, P
<1>14. (dirs \o up) \o ed = dirs \o (up \o ed)
  BY <1>11, <1>12, ConcatAssociative
<1>15. up \o ed \in Seq(W) /\ up \o ed # <<>> /\ Last(up \o ed) = Last(ed)
  BY <1>11, <1>12, ConcatEnds, ConcatProperties
<1>16. Last(ed) \in P
  BY <1>5, <1>12, FrontAndLast
<1>17. shared \o ed = et
  BY <1>6, <1>7
<1> QED
  BY <1>13, <1>14, <1>15, <1>16, <1>17 DEF LinkSteps, up, ed, dirs, et, ef, k, down, W, P

\* A link from one file of the mirror to another is a path, and nothing else.
LEMMA LinkIsPath ==
  ASSUME EscapesSuffice, NEW T, "." \in T, Encodable(T),
         NEW from \in Seq(SafeNames(T)) \ {<<>>}, NEW to \in Seq(SafeNames(T)) \ {<<>>},
         NEW link, link = RelativeLink(from, to)
  PROVE  /\ link \in Seq(Linkable(T) \cup {"/"}) /\ link # <<>> /\ link[1] # "/" /\ Last(link) # "/"
         /\ Segments(link) = LinkSteps(from, to)
         /\ StripWhitespace(link) = link /\ SchemeEnd(link) = 0
         /\ PathPart(link) = link /\ QueryPart(link) = None /\ FragmentPart(link) = None
<1> DEFINE L == Linkable(T)
           S == L \cup {"/"}
           steps == LinkSteps(from, to)
<1>1. steps \in Seq(Steps(L)) /\ steps # <<>>
  BY LinkWalks
<1>2. link = Join(steps)
  BY DEF RelativeLink, LinkSteps, Climbing, Encoded
<1>3. "/" \in S /\ S \ {"/"} = L \ {"/"}
  OBVIOUS
<1>4. Steps(S) = Steps(L)
  BY <1>3 DEF Steps, WordsOver
<1>5. S \cap {"nl", Space, ":", "?", "#"} = {}
  BY DEF Linkable, Forbidden, Space
<1> HIDE DEF S, L, steps
<1>6. link \in Seq(S) /\ link # <<>> /\ link[1] # "/" /\ Last(link) # "/" /\ Segments(link) = steps
  BY <1>1, <1>2, <1>3, <1>4, JoinIs
<1>7. StripWhitespace(link) = link
  BY <1>5, <1>6, StrippedIsText
<1>8. SchemeEnd(link) = 0
  <2>1. Find(link, ":") = 0
    BY <1>5, <1>6, NotThere
  <2> QED
    BY <2>1 DEF SchemeEnd
<1>9. Head1(link, "#") = link /\ Rest1(link, "#") = None
  BY <1>5, <1>6, NotThere
<1>10. Head1(link, "?") = link /\ Rest1(link, "?") = None
  BY <1>5, <1>6, NotThere
<1> QED
  BY <1>6, <1>7, <1>8, <1>9, <1>10 DEF PathPart, QueryPart, FragmentPart, S, L, steps

\* Put in place of the name of the document, and without its dots, it is the path of the
\* other file.
LEMMA LinkMerged ==
  ASSUME EscapesSuffice, NEW T, "." \in T, Encodable(T),
         NEW from \in Seq(SafeNames(T)) \ {<<>>}, NEW to \in Seq(SafeNames(T)) \ {<<>>},
         NEW base, base.path = Slashed(Encoded(from))
  PROVE  /\ StartsWith(Merge(base, RelativeLink(from, to)), <<"/">>)
         /\ RemoveDotSegments(Merge(base, RelativeLink(from, to))) = Slashed(Encoded(to))
<1> DEFINE L == Linkable(T)
           S == L \cup {"/"}
           link == RelativeLink(from, to)
           steps == LinkSteps(from, to)
           codes == Encoded(from)
           dirs == Front(codes)
           above == Absolute(dirs, TRUE)
           merged == above \o link
           target == Encoded(to)
<1>1. "/" \in S /\ S \ {"/"} = L \ {"/"}
  OBVIOUS
<1>2. Steps(S) = Steps(L) /\ PlainSteps(S) = PlainSteps(L)
  BY <1>1 DEF Steps, WordsOver, PlainSteps
<1>3. /\ link \in Seq(S) /\ link # <<>> /\ link[1] # "/" /\ Last(link) # "/" /\ Segments(link) = steps
  BY LinkIsPath, ZenonT(30)
<1>4. /\ steps \in Seq(Steps(S)) \ {<<>>} /\ Last(steps) \in PlainSteps(S)
      /\ Walked(dirs \o steps) = target
  BY <1>2, LinkWalks
<1>5. codes \in Seq(PlainSteps(S)) /\ codes # <<>> /\ target \in Seq(PlainSteps(S)) /\ target # <<>>
  <2>1. /\ codes \in Seq(PlainSteps(L)) /\ Len(codes) = Len(from)
        /\ target \in Seq(PlainSteps(L)) /\ Len(target) = Len(to)
    BY PathEncoded
  <2>2. Len(from) # 0 /\ Len(to) # 0
    OBVIOUS
  <2> HIDE DEF codes, target
  <2> QED
    BY <1>2, <2>1, <2>2
<1> HIDE DEF S, L, link, steps, codes, target
<1>6. /\ dirs \in Seq(Steps(S)) /\ Last(codes) \in Steps(S) /\ codes = Append(dirs, Last(codes))
      /\ target \in Seq(Steps(S))
  <2>1. codes \in Seq(Steps(S)) /\ target \in Seq(Steps(S))
    BY <1>5, PlainStepsAreSteps
  <2> QED
    BY <1>5, <2>1, FrontAndLast
<1> HIDE DEF dirs
<1>7. Before(base.path, RFind(base.path, "/") + 1) = Slashed(dirs) \o <<"/">>
  <2>1. base.path = Slashed(Append(dirs, Last(codes)))
    BY <1>6 DEF codes
  <2> QED
    BY <1>1, <1>6, <2>1, LastStep
<1>8. dirs \in Seq(Seq(S)) /\ <<"/">> \in Seq(S)
  BY <1>1, <1>6, StepsAreTexts
<1>9. above = Slashed(dirs) \o <<"/">>
  <2>1. TRUE \in BOOLEAN /\ <<>> \o <<"/">> = <<"/">>
    OBVIOUS
  <2>2. CASE dirs = <<>>
    <3>1. Slashed(dirs) = <<>>
      BY <1>1, <1>8, <2>2, SlashedOneMore
    <3>2. above = <<"/">>
      BY <1>1, <1>8, <2>1, <2>2, AbsoluteIsSlashed
    <3> QED
      BY <2>1, <3>1, <3>2
  <2>3. CASE dirs # <<>>
    BY <1>1, <1>8, <2>1, <2>3, AbsoluteIsSlashed
  <2> QED
    BY <2>2, <2>3
<1>10. /\ above \in Seq(S) /\ above[1] = "/" /\ above # <<>> /\ Segments(above) = dirs
       /\ Last(above) = "/"
  BY <1>1, <1>6, SegmentsOfAbsolute
<1> HIDE DEF above
<1>11. merged \in Seq(S) /\ merged # <<>> /\ merged[1] = "/" /\ Last(merged) # "/"
  BY <1>3, <1>10, ConcatEnds, ConcatProperties
<1>12. Segments(merged) = dirs \o steps
  <2>1. Split(above \o link, "/") = Split(above, "/") \o Split(link, "/")
    BY <1>3, <1>10, SplitConcat
  <2> QED
    BY <1>3, <1>10, <2>1 DEF Segments
<1>13. Last(dirs \o steps) \notin {Dot, DotDot}
  <2>1. Last(dirs \o steps) = Last(steps)
    BY <1>4, <1>6, ConcatEnds
  <2> QED
    BY <1>4, <2>1 DEF PlainSteps
<1> HIDE DEF merged
<1>14. RemoveDotSegments(merged) = Absolute(target, FALSE)
  BY <1>4, <1>11, <1>12, <1>13 DEF RemoveDotSegments
<1>15. Absolute(target, FALSE) = Slashed(target)
  <2>1. target \in Seq(Seq(S)) /\ FALSE \in BOOLEAN
    BY <1>6, StepsAreTexts
  <2> QED
    BY <1>1, <1>5, <2>1, AbsoluteIsSlashed
<1>16. Merge(base, link) = merged
  <2>1. ~StartsWith(link, <<"/">>)
    BY <1>3, BeginsWithOne
  <2> QED
    BY <1>3, <1>7, <1>9, <2>1 DEF Merge, merged
<1>17. StartsWith(merged, <<"/">>)
  BY <1>11, BeginsWithOne
<1> QED
  BY <1>14, <1>15, <1>16, <1>17 DEF link, target

\* The preview server answers the URL of a file with that file.
LEMMA FileIsServed ==
  ASSUME EscapesSuffice, NEW T, "/" \in T, Encodable(T),
         NEW path \in Seq(SafeNames(T)) \ {<<>>}
  PROVE  ServedPath(Slashed(Encoded(path))) = path
<1> DEFINE L == Linkable(T)
           S == L \cup {"/"}
           text == Slashed(Encoded(path))
           decoded == Slashed(path)
<1>1. "/" \in S /\ "?" \notin S /\ "#" \notin S
  BY DEF Linkable, Forbidden
<1>2. Encoded(path) \in Seq(Seq(S))
  <2>1. Encoded(path) \in Seq(PlainSteps(L))
    BY PathEncoded
  <2>2. Encoded(path) \in Seq(Seq(L))
    BY <2>1, PlainStepsAreSteps, StepsAreTexts
  <2>3. Seq(L) \subseteq Seq(S)
    <3>1. L \subseteq S
      OBVIOUS
    <3> HIDE DEF L, S
    <3> QED
      BY <3>1, MoreCharacters
  <2> HIDE DEF L, S
  <2> QED
    BY <2>2, <2>3, MoreCharacters
<1> HIDE DEF L, S
<1>3. text \in Seq(S)
  BY <1>1, <1>2, SlashedOneMore
<1>4. Head1(Head1(text, "?"), "#") = text
  BY <1>1, <1>3, NotThere
<1>5. Decode(text) = decoded
  BY PathDecoded
<1>6. path \in Seq(Steps(T)) /\ path # <<>> /\ \A i \in DOMAIN path : path[i] \notin {Dot, DotDot}
  <2>1. ASSUME NEW name \in SafeNames(T) PROVE name \in Steps(T) /\ name \notin {Dot, DotDot}
    <3>1. name \in Seq(T) /\ SafeName(name)
      BY DEF SafeNames
    <3>2. name # <<>> /\ name \notin {Dot, DotDot} /\ \A i \in DOMAIN name : name[i] # "/"
      BY <3>1 DEF SafeName, Forbidden
    <3>3. DOMAIN name = 1 .. Len(name)
      BY <3>1
    <3>4. name \in Seq(T \ {"/"})
      BY <3>1, <3>2, <3>3, WithoutIt
    <3> QED
      BY <3>2, <3>4 DEF Steps, WordsOver
  <2>2. SafeNames(T) \subseteq Steps(T)
    BY <2>1
  <2>3. path \in Seq(Steps(T))
    BY <2>2, MoreCharacters
  <2>4. \A i \in DOMAIN path : path[i] \in SafeNames(T)
    OBVIOUS
  <2> QED
    BY <2>1, <2>3, <2>4
<1>7. Segments(decoded) = path
  BY <1>6, SegmentsOfSlashed
<1>8. decoded # <<>> /\ decoded[1] = "/"
  <2>1. path \in Seq(Seq(T))
    BY <1>6, StepsAreTexts
  <2> QED
    BY <1>6, <2>1, SlashedBegins
<1> HIDE DEF text, decoded
<1>9. ServedPath(text) = path
  BY <1>4, <1>5, <1>6, <1>7, <1>8 DEF ServedPath
<1> QED
  BY <1>9 DEF text

\* Whatever a stored name has in it, a link can have, as it is or as an escape.
LEMMA NamesAreEncodable ==
  ASSUME EscapesSuffice, EveryHashIsName, NEW S, S = Characters \cup {"/"},
         NEW url, UrlOver(S, url), IsHttp(url)
  PROVE  Encodable(NameCharacters(S, url))
<1> DEFINE T == NameCharacters(S, url)
           meant == {Unescaped[e] : e \in DOMAIN Unescaped}
           shown == {"http", "https"} \cup {ShowPort(port) : port \in PortNumbers}
<1>1. /\ DOMAIN Unescaped \cap (Forbidden \cup Words \cup shown) = {}
      /\ Characters \cap DOMAIN Unescaped \subseteq meant
  BY DEF EscapesSuffice
<1>2. url.scheme \in shown /\ ShowPort(url.port) \in shown
  <2>1. url.port \in PortNumbers
    BY DEF UrlOver, UrlParts
  <2> QED
    BY <2>1 DEF IsHttp
<1>3. ShortHash(url.query) \notin DOMAIN Unescaped
  BY DEF EveryHashIsName, HashIsName
<1>4. "/" \in Forbidden
  BY DEF Forbidden
<1> HIDE DEF shown
<1>5. ASSUME NEW c \in T, c \in DOMAIN Unescaped PROVE c \in meant
  <2>1. c \in Characters \/ c \in meant
    BY <1>1, <1>2, <1>3, <1>4, <1>5 DEF NameCharacters
  <2> QED
    BY <1>1, <1>5, <2>1
<1>6. ASSUME NEW c \in T, c \in DOMAIN Unescaped
      PROVE  \E e \in DOMAIN Unescaped : Unescaped[e] = c
  BY <1>5, <1>6
<1> QED
  BY <1>6 DEF Encodable

\* A browser that follows a link asks for the path of the file.
LEMMA LinkFollowed ==
  ASSUME HttpDocuments, EscapesSuffice, NEW T, "." \in T, Encodable(T),
         NEW from \in Seq(SafeNames(T)) \ {<<>>}, NEW to \in Seq(SafeNames(T)) \ {<<>>},
         NEW there, there = Followed(from, RelativeLink(from, to))
  PROVE  there.query = None /\ there.fragment = None /\ there.path = Slashed(Encoded(to))
<1> DEFINE link == RelativeLink(from, to)
           base == UrlOf(from)
           S == Characters \cup {"/"}
           L == Linkable(T)
           R == L \cup {"/"}
           meant == [base EXCEPT !.query = None, !.fragment = None]
           merged == [meant EXCEPT !.path = Merge(base, link), !.query = None]
           target == Slashed(Encoded(to))
<1>1. Site \in UrlParts(S) /\ IsHttp(Site) /\ Site.host # <<>>
  <2>1. UrlOver(S, Site) /\ IsHttp(Site)
    BY PrimaryIsUrl DEF Site
  <2> QED
    BY <2>1 DEF UrlOver
<1> HIDE DEF S
<1>2. /\ base.path = <<"/">> \o Join(Encoded(from))
      /\ DOMAIN base = {"scheme", "userinfo", "host", "port", "path", "query", "fragment"}
      /\ base.scheme = Site.scheme /\ base.host = Site.host
  BY <1>1 DEF UrlOf, Encoded, UrlParts
<1>3. <<"/">> \o Join(Encoded(from)) = Slashed(Encoded(from))
  <2>1. Encoded(from) \in Seq(PlainSteps(L)) /\ Len(Encoded(from)) = Len(from)
    BY PathEncoded
  <2>2. Encoded(from) # <<>>
    BY <2>1
  <2>3. Encoded(from) \in Seq(Seq(R)) /\ "/" \in R
    <3>1. Encoded(from) \in Seq(Seq(L)) /\ L \subseteq R
      BY <2>1, PlainStepsAreSteps, StepsAreTexts
    <3> HIDE DEF L, R
    <3>2. Seq(L) \subseteq Seq(R)
      BY <3>1, MoreCharacters
    <3>3. "/" \in R
      BY DEF R
    <3> QED
      BY <3>1, <3>2, <3>3, MoreCharacters
  <2>4. FALSE \in BOOLEAN
    OBVIOUS
  <2> HIDE DEF R, L
  <2> QED
    BY <2>2, <2>3, <2>4, AbsoluteIsSlashed
<1>4. /\ StartsWith(Merge(base, link), <<"/">>)
      /\ RemoveDotSegments(Merge(base, link)) = target
  BY <1>2, <1>3, LinkMerged
<1>5. /\ link \in Seq(R) /\ link # <<>> /\ link[1] # "/"
      /\ StripWhitespace(link) = link /\ SchemeEnd(link) = 0
      /\ PathPart(link) = link /\ QueryPart(link) = None /\ FragmentPart(link) = None
  BY LinkIsPath
<1> HIDE DEF link, base, target, R
<1>6. there = Accepted([meant EXCEPT !.path = Merge(base, link), !.query = None])
  <2>1. ~StartsWith(link, <<"/", "/">>)
    BY <1>5, BeginsWithTwo
  <2>2. there = Relatively(base, link, link, None)
    BY <1>5 DEF Followed, ResolveUrl, ResolveText, link, base
  <2> QED
    BY <1>5, <2>1, <2>2 DEF Relatively
<1>7. /\ DOMAIN merged = {"scheme", "userinfo", "host", "port", "path", "query", "fragment"}
      /\ merged.scheme = Site.scheme /\ merged.host = Site.host
      /\ merged.path = Merge(base, link) /\ merged.query = None /\ merged.fragment = None
  BY <1>2
<1> HIDE DEF merged, meant
<1>8. there = Normalize(merged) /\ IsHttp(merged)
  BY <1>1, <1>6, <1>7 DEF Accepted, IsHttp, merged
<1> DEFINE port == IF merged.port = DefaultPort[merged.scheme] THEN 0 ELSE merged.port
           query == IF merged.query = <<>> THEN None ELSE merged.query
<1>9. Normalize(merged) = [merged EXCEPT !.port = port, !.path = target, !.query = query]
  BY <1>4, <1>7, <1>8 DEF Normalize
<1>10. query = None
  BY <1>7
<1> HIDE DEF port, query
<1> QED
  BY <1>7, <1>8, <1>9, <1>10 DEF target

\* The link that a document gets, followed by a browser from where the document is stored,
\* is answered by the preview server with the file that the target is stored in.
THEOREM LinksLeadToFiles ==
  ASSUME HttpDocuments, EscapesSuffice, EveryHashIsName
  PROVE  AddressSpec => []LinkLeadsToFile
<1>1. AddressInv => LinkLeadsToFile
  <2> SUFFICES ASSUME AddressInv, NEW url \in Fetched, NEW kind \in Kinds,
                      NEW from, from = PathFor(document, Site, "html"),
                      NEW to, to = PathFor(url, Site, kind),
                      NEW there, there = Followed(from, RelativeLink(from, to))
               PROVE  /\ there.query = None /\ there.fragment = None
                      /\ ServedPath(there.path) = to
    BY DEF LinkLeadsToFile
  <2> DEFINE S == Characters \cup {"/"}
             D == NameCharacters(S, document)
             U == NameCharacters(S, url)
             fullfrom == FullPath(document, Site, "html")
             fullto == FullPath(url, Site, kind)
             H == {ShortHash(Join(fullfrom)), ShortHash(Join(fullto))}
             T == D \cup U \cup H
  <2>1. /\ "/" \in S /\ UrlOver(S, url) /\ IsHttp(url) /\ UrlOver(S, document) /\ IsHttp(document)
    BY FetchedIsUrl DEF AddressInv
  <2>2. Encodable(D) /\ Encodable(U)
    BY <2>1, NamesAreEncodable
  <2>3. /\ "/" \in T /\ "." \in T /\ D \subseteq T /\ U \subseteq T
        /\ ShortHash(Join(fullfrom)) \in T /\ ShortHash(Join(fullto)) \in T
    <3>1. "/" \in D /\ "." \in D
      BY DEF NameCharacters, Words
    <3> HIDE DEF D, U, fullfrom, fullto
    <3> QED
      BY <3>1
  <2>4. Encodable(T)
    <3>1. \A c \in H : c \notin DOMAIN Unescaped
      BY DEF EveryHashIsName, HashIsName
    <3> HIDE DEF D, U, H
    <3> QED
      BY <2>2, <3>1 DEF Encodable
  <2> HIDE DEF S, T
  <2>5. from \in Seq(SafeNames(T)) \ {<<>>} /\ to \in Seq(SafeNames(T)) \ {<<>>}
    BY <2>1, <2>3, PathIsSafe
  <2>6. there.query = None /\ there.fragment = None /\ there.path = Slashed(Encoded(to))
    BY <2>3, <2>4, <2>5, LinkFollowed
  <2>7. ServedPath(Slashed(Encoded(to))) = to
    BY <2>3, <2>4, <2>5, FileIsServed
  <2> QED
    BY <2>6, <2>7
<1> QED
  BY <1>1, AddressesAreUrls, PTL

-----------------------------------------------------------------------------
(* A URL that is written and read again.                                   *)

\* A text without a character.
LEMMA NoSuch ==
  ASSUME NEW S, NEW text \in Seq(S), NEW c, c \notin S
  PROVE  \A i \in 1 .. Len(text) : text[i] # c
<1> TAKE i \in 1 .. Len(text)
<1>1. text[i] \in S
  OBVIOUS
<1> QED
  BY <1>1

\* What a port is written as, behind the host.
PortText(port) == IF port = 0 THEN <<>> ELSE <<":", ShowPort(port)>>

LEMMA PortRead ==
  ASSUME ReadAsWritten, NEW port \in PortNumbers, port # 0
  PROVE  /\ PortIn(<<ShowPort(port)>>) = port /\ LeadingPort(<<ShowPort(port)>>) = port /\ port # None
         /\ ~(port > 65535) /\ port % 65536 = port
<1> DEFINE word == ShowPort(port)
<1>1. word \in DOMAIN Ports /\ Ports[word] = port /\ None \notin Nat
  BY DEF ReadAsWritten
<1>2. PICK w \in DOMAIN Ports : port = Ports[w] % 65536
  BY DEF PortNumbers
<1>3. Ports[w] \in Nat
  BY UrlAssumption
<1>4. port \in Nat /\ port < 65536
  BY <1>2, <1>3
<1>5. Len(<<word>>) = 1 /\ <<word>>[1] = word
  OBVIOUS
<1>6. PortIn(<<word>>) = port
  <2> HIDE DEF word
  <2> QED
    BY <1>1, <1>5 DEF PortIn
<1>7. LeadingPort(<<word>>) = port
  <2>1. Head(<<word>>) = word /\ <<word>> # <<>> /\ port % 65536 = port
    BY <1>4
  <2> HIDE DEF word
  <2> QED
    BY <1>1, <2>1 DEF LeadingPort
<1> QED
  BY <1>1, <1>4, <1>6, <1>7

LEMMA NoPortRead == LeadingPort(<<>>) = 0
BY DEF LeadingPort

LEMMA BracketedIs ==
  ASSUME NEW text, NEW close, close = Find(text, "]"),
         ~(close <= 2 \/ (close < Len(text) /\ text[close + 1] # ":")),
         NEW port, port = LeadingPort(From(text, close + 2))
  PROVE  Bracketed(text) = [host |-> SubSeq(text, 1, close), port |-> port]
BY DEF Bracketed

\* Host and port are read as they are written.
LEMMA HostRead ==
  ASSUME ReadAsWritten, NEW S, NEW host \in Hosts(S), host # <<>>, Enclosed(host),
         host[1] = "[" \/ \A i \in 1 .. Len(host) : host[i] # ":",
         NEW port \in PortNumbers
  PROVE  HostPort(host \o PortText(port)) = [host |-> host, port |-> port]
<1> DEFINE word == ShowPort(port)
           one == <<word>>
           U == S \cup {":", word}
           text == host \o PortText(port)
           n == Len(host)
<1>1. host \in Seq(U) /\ ":" \in U /\ word \in U /\ n \in Nat \ {0}
  <2>1. host \in Seq(Names(S)) /\ Names(S) \subseteq U
    BY DEF Hosts, Names
  <2>2. host \in Seq(U)
    <3> HIDE DEF U
    <3> QED
      BY <2>1, MoreCharacters
  <2> QED
    BY <2>2
<1>2. one \in Seq(U) /\ Len(one) = 1 /\ one[1] = word
  BY <1>1
<1> HIDE DEF U
<1>3. CASE port = 0
  <2>1. text = host
    BY <1>1, <1>3, ConcatEmptySeq DEF PortText
  <2>2. CASE host[1] = "["
    <3>1. StartsWith(host, <<"[">>)
      BY <1>1, <2>2, BeginsWithOne
    <3>2. Find(host, "]") = n /\ n > 2
      BY <1>1, <2>2 DEF Enclosed
    <3>3. From(host, n + 2) = <<>>
      <4>1. n < n + 2 /\ n \in Int /\ n + 2 \in Int
        BY <1>1
      <4> HIDE DEF n
      <4>2. SubSeq(host, n + 2, n) = <<>>
        BY <4>1, SubSeqEmpty
      <4> QED
        BY <4>2 DEF From, n
    <3>4. SubSeq(host, 1, n) = host
      BY <1>1, SubSeqFull
    <3>5. ~(n <= 2) /\ ~(n < n)
      BY <1>1, <3>2
    <3>6. Bracketed(host) = [host |-> host, port |-> 0]
      BY <3>2, <3>3, <3>4, <3>5, NoPortRead DEF Bracketed
    <3>7. HostPort(host) = [host |-> host, port |-> 0]
      BY <3>1, <3>6 DEF HostPort
    <3> HIDE DEF text
    <3> QED
      BY <1>3, <2>1, <3>7 DEF text
  <2>3. CASE host[1] # "["
    <3>1. ~StartsWith(host, <<"[">>)
      BY <1>1, <2>3, BeginsWithOne
    <3>2. RFind(host, ":") = 0
      <4>1. \A i \in 1 .. Len(host) : host[i] # ":"
        BY <2>3
      <4>2. host \in Seq(U \ {":"})
        BY <1>1, <4>1, WithoutIt
      <4> QED
        BY <4>2, NotThere
    <3>3. HostPort(host) = [host |-> host, port |-> 0]
      BY <3>1, <3>2 DEF HostPort
    <3> HIDE DEF text
    <3> QED
      BY <1>3, <2>1, <3>3 DEF text
  <2> QED
    BY <2>2, <2>3
<1>4. CASE port # 0
  <2>1. PortIn(one) = port /\ LeadingPort(one) = port /\ port # None /\ ~(port > 65535)
    BY <1>4, PortRead
  <2>2. text = Joint(host, ":", one)
    <3>1. PortText(port) = <<":">> \o one
      BY <1>4 DEF PortText
    <3> QED
      BY <3>1 DEF Joint
  <2>3. word # ":"
    BY <1>4 DEF ReadAsWritten
  <2> HIDE DEF word, one, text
  <2>4. /\ text \in Seq(U) /\ Len(text) = n + 1 + Len(one)
        /\ (\A i \in 1 .. n : text[i] = host[i]) /\ text[n + 1] = ":"
    <3> DEFINE colon == ":"
               joint == Joint(host, colon, one)
    <3>0. colon \in U
      BY <1>1
    <3> HIDE DEF colon
    <3>4. host \in Seq(U) /\ one \in Seq(U)
      BY <1>1, <1>2
    <3>1. joint \in Seq(U) /\ Len(joint) = Len(host) + 1 + Len(one)
      <4>1. Joint(host, colon, one) \in Seq(U)
        BY <3>0, <3>4, Between DEF MeetingAt
      <4>2. Len(Joint(host, colon, one)) = Len(host) + 1 + Len(one)
        BY <3>0, <3>4, Between DEF MeetingAt
      <4> QED
        BY <4>1, <4>2
    <3>2. (\A i \in 1 .. Len(host) : joint[i] = host[i]) /\ joint[Len(host) + 1] = colon
      BY <1>1, <1>2, <3>0, Between DEF MeetingAt
    <3> HIDE DEF joint
    <3>3. text = joint
      BY <2>2 DEF joint, colon
    <3> QED
      BY <3>1, <3>2, <3>3 DEF colon
  <2>5. /\ Before(text, n + 1) = host /\ From(text, n + 1 + 1) = one
    <3>1. CutThere(text, n, host, ":", one)
      BY <1>1, <1>2, <2>2, BetweenCut
    <3> QED
      BY <3>1 DEF CutThere
  <2>6. 1 \in 1 .. n /\ text[1] = host[1] /\ text # <<>> /\ Len(text) = n + 2 /\ n + 1 + 1 = n + 2
    BY <1>1, <1>2, <2>4
  <2>7. CASE host[1] = "["
    <3>1. StartsWith(text, <<"[">>)
      BY <2>4, <2>6, <2>7, BeginsWithOne
    <3>2. Find(host, "]") = n /\ n > 2
      BY <1>1, <2>7 DEF Enclosed
    <3>3. Find(text, "]") = n
      <4> DEFINE close == Find(text, "]")
      <4>1. host[n] = "]" /\ \A i \in 1 .. n - 1 : host[i] # "]"
        <5>1. Find(host, "]") # 0
          BY <1>1, <3>2
        <5> QED
          BY <1>1, <3>2, <5>1, FindFirst
      <4>2. /\ close \in 0 .. Len(text)
            /\ close = 0 => \A i \in 1 .. Len(text) : text[i] # "]"
            /\ close # 0 => text[close] = "]" /\ \A i \in 1 .. close - 1 : text[i] # "]"
        BY <2>4, FindFirst
      <4>3. n \in 1 .. n /\ n \in 1 .. Len(text) /\ text[n] = "]"
        BY <1>1, <2>4, <2>6, <4>1
      <4> HIDE DEF close, n
      <4>4. close # 0 /\ n \notin 1 .. close - 1
        BY <4>2, <4>3
      <4>5. close \in 1 .. n
        BY <1>1, <4>2, <4>3, <4>4
      <4>6. close \notin 1 .. n - 1
        BY <2>4, <4>1, <4>2, <4>4, <4>5
      <4>7. close = n
        BY <1>1, <4>5, <4>6
      <4> QED
        BY <4>7 DEF close
    <3>4. SubSeq(text, 1, n) = host /\ From(text, n + 2) = one
      <4>1. (n + 1) - 1 = n
        BY <1>1
      <4> QED
        BY <2>5, <2>6, <4>1 DEF Before
    <3>5. ~(n <= 2) /\ ~(n < Len(text) /\ text[n + 1] # ":")
      BY <1>1, <2>4, <3>2
    <3>6. Bracketed(text) = [host |-> host, port |-> port]
      <4> HIDE DEF n
      <4>1. ~(n <= 2 \/ (n < Len(text) /\ text[n + 1] # ":"))
        BY <3>5
      <4>2. LeadingPort(From(text, n + 2)) = port
        BY <2>1, <3>4
      <4> QED
        BY <3>3, <3>4, <4>1, <4>2, BracketedIs
    <3> QED
      BY <3>1, <3>6 DEF HostPort, text
  <2>8. CASE host[1] # "["
    <3>1. ~StartsWith(text, <<"[">>)
      BY <2>4, <2>6, <2>8, BeginsWithOne
    <3>2. RFind(text, ":") = n + 1
      <4>1. \A i \in 1 .. Len(one) : one[i] # ":"
        <5>1. \A i \in 1 .. 1 : i = 1
          OBVIOUS
        <5> QED
          BY <1>2, <2>3, <5>1
      <4> QED
        BY <1>1, <1>2, <2>2, <4>1, FoundLast
    <3>3. n + 1 # 0
      BY <1>1
    <3> QED
      BY <2>1, <2>5, <3>1, <3>2, <3>3 DEF HostPort, text
  <2> QED
    BY <2>7, <2>8
<1> QED
  BY <1>3, <1>4

\* What follows "//": user, host and port.
AuthorityText(user, host, port) ==
  (IF user = <<>> THEN <<>> ELSE Append(user, "@")) \o host \o PortText(port)

\* Everything of which that is made.
Signs(S) == (S \cup {":", "@"} \cup DOMAIN Ports) \ {"/", "?", "#"}

LEMMA AuthorityRead ==
  ASSUME ReadAsWritten, NEW S, NEW user \in Seq(S \ {"/", "?", "#"}),
         NEW host \in Hosts(S), host # <<>>, Enclosed(host),
         host[1] = "[" \/ \A i \in 1 .. Len(host) : host[i] # ":",
         NEW port \in PortNumbers, NEW text, text = AuthorityText(user, host, port)
  PROVE  /\ text \in Seq(Signs(S)) /\ UserIn(text) = user
         /\ Authority(text) = [host |-> host, port |-> port]
<1> DEFINE A == Signs(S)
           H == A \ {"@"}
           ending == PortText(port)
           place == host \o ending
           at == "@"
<1>1. ending \in Seq(H)
  <2>1. CASE port = 0
    BY <2>1 DEF PortText
  <2>2. CASE port # 0
    <3>1. ShowPort(port) \in DOMAIN Ports
      BY <2>2 DEF ReadAsWritten
    <3>2. ShowPort(port) \in H /\ ":" \in H
      BY <3>1 DEF ReadAsWritten, Signs
    <3> HIDE DEF H
    <3> QED
      BY <2>2, <3>2 DEF PortText
  <2> QED
    BY <2>1, <2>2
<1>2. host \in Seq(H) /\ user \in Seq(A) /\ at \in A /\ H \subseteq A
  <2>1. host \in Seq(Names(S)) /\ Names(S) \subseteq H /\ S \ {"/", "?", "#"} \subseteq A
    BY DEF Hosts, Names, Signs
  <2>2. at \in A /\ H \subseteq A
    BY DEF Signs
  <2> HIDE DEF A, H
  <2> QED
    BY <2>1, <2>2, MoreCharacters
<1> HIDE DEF A, ending
<1>3. HostPort(place) = [host |-> host, port |-> port]
  BY HostRead DEF ending
<1>4. place \in Seq(H) /\ place \in Seq(A) /\ host \in Seq(A) /\ ending \in Seq(A)
  <2>1. place \in Seq(H)
    BY <1>1, <1>2, ConcatProperties
  <2>2. Seq(H) \subseteq Seq(A)
    <3> HIDE DEF H
    <3> QED
      BY <1>2, MoreCharacters
  <2> HIDE DEF place, H
  <2> QED
    BY <1>1, <1>2, <2>1, <2>2
<1>5. CASE user = <<>>
  <2>1. text = place
    <3>1. text = (<<>> \o host) \o ending
      BY <1>5 DEF AuthorityText, ending
    <3>2. <<>> \o host = host
      BY <1>4, ConcatEmptySeq
    <3> QED
      BY <3>1, <3>2
  <2> HIDE DEF place
  <2>2. RFind(place, at) = 0
    <3>1. at \notin H
      OBVIOUS
    <3> HIDE DEF H, at
    <3> QED
      BY <1>4, <3>1, NotThere
  <2>3. From(place, 0 + 1) = place
    <3>1. 0 + 1 = 1
      OBVIOUS
    <3> QED
      BY <1>4, <3>1, SubSeqFull DEF From
  <2> QED
    BY <1>3, <1>4, <1>5, <2>1, <2>2, <2>3 DEF UserIn, Authority, A, at
<1>6. CASE user # <<>>
  <2>1. text = Joint(user, at, place)
    <3> DEFINE one == <<at>>
    <3>1. text = (Append(user, at) \o host) \o ending
      BY <1>6 DEF AuthorityText, ending
    <3>2. Append(user, at) = user \o one /\ Append(user, at) \in Seq(A) /\ one \in Seq(A)
      <4>1. one \in Seq(A)
        BY <1>2
      <4> HIDE DEF at
      <4> QED
        BY <1>2, <4>1, AppendEnds DEF one
    <3> HIDE DEF one, at
    <3>3. (Append(user, at) \o host) \o ending = (user \o one) \o place
      <4> DEFINE start == Append(user, at)
      <4>1. start \in Seq(A) /\ start = user \o one
        BY <3>2
      <4> HIDE DEF start, A, ending
      <4>2. (start \o host) \o ending = start \o (host \o ending)
        BY <1>4, <4>1, ConcatAssociative, SMTT(30)
      <4> QED
        BY <4>1, <4>2 DEF start
    <3>4. (user \o one) \o place = user \o (one \o place)
      <4> HIDE DEF place
      <4> QED
        BY <1>2, <1>4, <3>2, ConcatAssociative, SMTT(30)
    <3> QED
      BY <3>1, <3>3, <3>4 DEF Joint, one
  <2> HIDE DEF place
  <2>2. \A i \in 1 .. Len(place) : place[i] # at
    <3>1. at \notin H
      OBVIOUS
    <3> HIDE DEF H, at
    <3> QED
      BY <1>4, <3>1, NoSuch
  <2> HIDE DEF at
  <2>3. text \in Seq(A)
    BY <1>2, <1>4, <2>1, Between DEF MeetingAt
  <2>4. RFind(text, at) = Len(user) + 1
    BY <1>2, <1>4, <2>1, <2>2, FoundLast
  <2>5. Before(text, Len(user) + 1) = user /\ From(text, Len(user) + 1 + 1) = place
    <3>1. CutThere(text, Len(user), user, at, place)
      BY <1>2, <1>4, <2>1, BetweenCut
    <3> QED
      BY <3>1 DEF CutThere
  <2>6. Len(user) + 1 # 0
    BY <1>2
  <2> QED
    BY <1>3, <2>3, <2>4, <2>5, <2>6 DEF UserIn, Authority, A, at
<1> QED
  BY <1>5, <1>6

\* A part that a text may have behind a sign.
Optional(sign, part) == IF part = None THEN <<>> ELSE <<sign>> \o part

\* It is found again.
FoundAgain(S, sign, body, part, text) ==
  text \in Seq(S) /\ Head1(text, sign) = body /\ Rest1(text, sign) = part

LEMMA OptionalRead ==
  ASSUME NEW S, NEW sign \in S, NEW body \in Seq(S \ {sign}), NEW part \in Seq(S) \cup {None}
  PROVE  FoundAgain(S, sign, body, part, body \o Optional(sign, part))
<1> DEFINE text == body \o Optional(sign, part)
<1>1. body \in Seq(S) /\ sign \notin S \ {sign}
  <2>1. S \ {sign} \subseteq S
    OBVIOUS
  <2> QED
    BY <2>1, MoreCharacters
<1>2. \A i \in 1 .. Len(body) : body[i] # sign
  BY <1>1, NoSuch
<1>3. CASE part = None
  <2>1. text = body
    BY <1>1, <1>3, ConcatEmptySeq DEF Optional
  <2> QED
    BY <1>1, <1>3, <2>1, NotThere DEF FoundAgain
<1>4. CASE part # None
  <2>1. text = Joint(body, sign, part) /\ part \in Seq(S)
    BY <1>4 DEF Optional, Joint
  <2>2. text \in Seq(S)
    BY <1>1, <2>1, Between DEF MeetingAt
  <2> QED
    BY <1>1, <1>2, <2>1, <2>2, FoundFirst DEF FoundAgain
<1> QED
  BY <1>3, <1>4

LEMMA FirstAndRest ==
  ASSUME NEW S, NEW text \in Seq(S), text # <<>>
  PROVE  /\ text = <<text[1]>> \o SubSeq(text, 2, Len(text))
         /\ SubSeq(text, 2, Len(text)) \in Seq(S)
<1>1. 1 \in 0 .. Len(text) /\ 1 + 1 = 2
  OBVIOUS
<1>2. SubSeq(text, 1, 1) \o SubSeq(text, 2, Len(text)) = text /\ SubSeq(text, 2, Len(text)) \in Seq(S)
  BY <1>1, CutInTwo
<1>3. SubSeq(text, 1, 1) = <<text[1]>>
  BY OneCharacter
<1> QED
  BY <1>2, <1>3

\* What stands between the scheme and the query: an authority, and a path.
Body(url) == (<<"/", "/">> \o AuthorityText(url.userinfo, url.host, url.port)) \o url.path

\* A URL of which nothing but the scheme, the query and the fragment is known.
Started(url) ==
  [scheme |-> url.scheme, userinfo |-> <<>>, host |-> <<>>, port |-> 0, path |-> <<>>,
   query |-> url.query, fragment |-> url.fragment]

\* Its host may have colons only in brackets.
PlainHost(host) == host[1] = "[" \/ \A i \in 1 .. Len(host) : host[i] # ":"

LEMMA BodyRead ==
  ASSUME ReadAsWritten, NEW S, S = Characters \cup {"/"}, NEW url, UrlOver(S, url), IsHttp(url),
         PlainHost(url.host)
  PROVE  /\ Body(url) \in Seq(Signs(S) \cup {"/"} \cup (S \ {"?", "#"}))
         /\ Absolutely(Started(url), Body(url)) = url
<1> DEFINE P == S \ {"?", "#"}
           A == Signs(S)
           B == A \cup {"/"} \cup P
           user == url.userinfo
           host == url.host
           port == url.port
           path == url.path
           authority == AuthorityText(user, host, port)
           place == authority \o path
           slash == "/"
           one == <<slash>>
           two == <<slash, slash>>
           tail == SubSeq(path, 2, Len(path))
           body == Body(url)
<1>1. /\ url \in UrlParts(S) /\ host \in Hosts(S) /\ host # <<>> /\ Enclosed(host)
      /\ user \in Seq(S \ {"/", "?", "#"}) /\ port \in PortNumbers /\ CleanPath(P, path)
      /\ PlainHost(host)
      /\ port # 0 => port # DefaultPort[url.scheme]
      /\ url.query = <<>> => None = <<>>
  BY DEF UrlOver, UrlParts
<1>2. slash \in P /\ slash \in B /\ slash \notin A /\ P \subseteq B /\ A \subseteq B
  BY DEF Signs
<1> HIDE DEF P, A, B, user, host, port, path
<1>3. path \in Seq(P) /\ path # <<>> /\ path[1] = slash /\ RemoveDotSegments(path) = path
  BY <1>1, <1>2, CleanIsPath, CleanStays
<1>4. /\ authority \in Seq(A) /\ UserIn(authority) = user
      /\ Authority(authority) = [host |-> host, port |-> port]
  BY <1>1, AuthorityRead DEF A, PlainHost
<1> HIDE DEF authority
<1>5. authority \in Seq(B) /\ path \in Seq(B)
  BY <1>2, <1>3, <1>4, MoreCharacters
<1> HIDE DEF slash
<1>6. one \in Seq(B) /\ two = one \o one /\ two \in Seq(B) /\ Len(one) = 1 /\ one[1] = slash
  BY <1>2
<1> HIDE DEF one, two
<1>7. path = one \o tail /\ tail \in Seq(B)
  BY <1>3, <1>5, FirstAndRest DEF one
<1> HIDE DEF tail
<1>8. place = Joint(authority, slash, tail) /\ place \in Seq(B)
  <2>1. place \in Seq(B)
    BY <1>5, ConcatProperties
  <2> QED
    BY <1>7, <2>1 DEF Joint, one
<1> HIDE DEF place
<1>9. \A i \in 1 .. Len(authority) : authority[i] # slash
  BY <1>2, <1>4, NoSuch
<1>10. Find(place, slash) = Len(authority) + 1 /\ Head1(place, slash) = authority
  BY <1>2, <1>5, <1>7, <1>8, <1>9, FoundFirst
<1>11. From(place, Len(authority) + 1) = path /\ Len(authority) + 1 # 0
  <2>1. CutThere(place, Len(authority), authority, slash, tail)
    BY <1>2, <1>5, <1>7, <1>8, BetweenCut
  <2>2. Len(authority) \in Nat
    BY <1>5
  <2> QED
    BY <1>7, <2>1, <2>2 DEF CutThere, one
<1>12. body = Joint(one, slash, place) /\ body \in Seq(B)
  <2>1. body = (two \o authority) \o path
    BY DEF Body, two, slash, authority, user, host, port, path
  <2>2. (two \o authority) \o path = two \o place
    BY <1>5, <1>6, ConcatAssociative, SMTT(30) DEF place
  <2>3. (one \o one) \o place = one \o (one \o place)
    BY <1>6, <1>8, ConcatAssociative
  <2>4. body = one \o (one \o place)
    BY <1>6, <2>1, <2>2, <2>3
  <2> HIDE DEF body
  <2>5. one \o place \in Seq(B)
    BY <1>6, <1>8, ConcatProperties
  <2>6. one \o (one \o place) \in Seq(B)
    BY <1>6, <2>5, ConcatProperties
  <2> QED
    BY <2>4, <2>6 DEF Joint, one
<1> HIDE DEF body
<1>13. StartsWith(body, <<slash, slash>>) /\ From(body, 3) = place
  <2>1. /\ Len(body) = Len(one) + 1 + Len(place)
        /\ \A i \in 1 .. Len(one) : body[i] = one[i]
    <3>0. slash \in B /\ one \in Seq(B) /\ place \in Seq(B)
      BY <1>2, <1>6, <1>8
    <3>1. Len(Joint(one, slash, place)) = Len(one) + 1 + Len(place)
      BY <3>0, Between DEF MeetingAt
    <3>2. \A i \in 1 .. Len(one) : Joint(one, slash, place)[i] = one[i]
      BY <3>0, Between DEF MeetingAt
    <3> QED
      BY <1>12, <3>1, <3>2
  <2>2. body[Len(one) + 1] = slash
    <3>0. slash \in B /\ one \in Seq(B) /\ place \in Seq(B)
      BY <1>2, <1>6, <1>8
    <3>1. Joint(one, slash, place)[Len(one) + 1] = slash
      BY <3>0, Between DEF MeetingAt
    <3> QED
      BY <1>12, <3>1
  <2>3. Len(place) \in Nat
    BY <1>8
  <2>4. Len(body) >= 2 /\ body[1] = slash /\ body[2] = slash
    <3>1. 1 + 1 = 2 /\ 1 \in 1 .. 1 /\ 1 + 1 + Len(place) >= 2
      BY <2>3
    <3> QED
      BY <1>6, <2>1, <2>2, <3>1
  <2>5. StartsWith(body, <<slash, slash>>)
    BY <1>12, <2>4, BeginsWithTwo
  <2>6. CutThere(body, Len(one), one, slash, place)
    BY <1>2, <1>6, <1>8, <1>12, BetweenCut
  <2>7. Len(one) + 1 + 1 = 3
    BY <1>6
  <2> QED
    BY <2>5, <2>6, <2>7 DEF CutThere
<1> DEFINE start == Started(url)
           led == [start EXCEPT !.path = path]
           found == [led EXCEPT !.userinfo = user, !.host = host, !.port = port]
           placed == [host |-> host, port |-> port]
<1>14. Absolutely(start, body) = Hosted(led, user, placed)
  <2>1. Absolutely(start, body) = Located(start, place, <<>>)
    BY <1>13 DEF Absolutely, slash
  <2>2. Located(start, place, <<>>) = Hosted(led, UserIn(authority), Authority(authority))
    BY <1>10, <1>11 DEF Located, slash
  <2> QED
    BY <1>4, <2>1, <2>2
<1>15. placed # None
  <2>1. placed \in [host : Seq(S), port : Nat]
    <3>1. host \in Seq(S)
      <4>1. Names(S) \subseteq S
        BY DEF Names
      <4> QED
        BY <1>1, <4>1, MoreCharacters DEF Hosts
    <3>2. port \in Nat
      <4>1. \A word \in DOMAIN Ports : Ports[word] % 65536 \in Nat
        BY UrlAssumption
      <4> QED
        BY <1>1, <4>1 DEF PortNumbers
    <3> QED
      BY <3>1, <3>2
  <2> QED
    BY <2>1 DEF ReadAsWritten
<1>16. url = found
  <2> DEFINE fields == {"scheme", "userinfo", "host", "port", "path", "query", "fragment"}
  <2>1. led = [scheme |-> url.scheme, userinfo |-> <<>>, host |-> <<>>, port |-> 0,
               path |-> path, query |-> url.query, fragment |-> url.fragment]
    BY DEF Started
  <2> HIDE DEF led
  <2>2. DOMAIN led = fields /\ led.scheme = url.scheme /\ led.path = path
        /\ led.query = url.query /\ led.fragment = url.fragment
    BY <2>1
  <2>3. /\ DOMAIN found = fields /\ found = [f \in fields |-> found[f]]
        /\ found.scheme = url.scheme /\ found.userinfo = user /\ found.host = host
        /\ found.port = port /\ found.path = path /\ found.query = url.query
        /\ found.fragment = url.fragment
    BY <2>2
  <2>4. DOMAIN url = fields /\ url = [f \in fields |-> url[f]]
    BY <1>1 DEF UrlParts
  <2> HIDE DEF found
  <2>5. \A f \in fields : url[f] = found[f]
    BY <2>3 DEF user, host, port, path
  <2> HIDE DEF fields
  <2> QED
    BY <2>3, <2>4, <2>5
<1>18. Hosted(led, user, placed) = Accepted(found)
  BY <1>15 DEF Hosted
<1> HIDE DEF found, led, placed, start
<1>19. Accepted(found) = url
  <2>1. IsHttp(found) /\ found.host # <<>>
    BY <1>1, <1>16 DEF host
  <2>2. StartsWith(path, <<"/">>)
    BY <1>3, BeginsWithOne DEF slash
  <2>3. Normalize(url) = [url EXCEPT !.port = port, !.path = path, !.query = url.query]
    <3>1. (IF url.port = DefaultPort[url.scheme] THEN 0 ELSE url.port) = port
      BY <1>1 DEF port
    <3>2. (IF url.query = <<>> THEN None ELSE url.query) = url.query
      BY <1>1
    <3>3. (IF ~IsHttp(url) THEN url.path
           ELSE RemoveDotSegments(IF StartsWith(url.path, <<"/">>) THEN url.path
                                  ELSE <<"/">> \o url.path)) = path
      BY <1>3, <2>2 DEF path
    <3> QED
      BY <3>1, <3>2, <3>3 DEF Normalize
  <2>4. [url EXCEPT !.port = port, !.path = path, !.query = url.query] = url
    BY <1>1 DEF UrlParts, port, path
  <2> QED
    BY <1>16, <2>1, <2>3, <2>4 DEF Accepted
<1> QED
  BY <1>12, <1>14, <1>18, <1>19 DEF start, body, B, A, P

\* What a URL is written as.
LEMMA TextHasParts ==
  ASSUME NEW S, NEW url, UrlOver(S, url), url.host # <<>>
  PROVE  ToText(url) =
           (((<<url.scheme, ":">>
               \o (<<"/", "/">> \o AuthorityText(url.userinfo, url.host, url.port)))
             \o url.path) \o Optional("?", url.query)) \o Optional("#", url.fragment)
<1> DEFINE user == IF url.userinfo = <<>> THEN <<>> ELSE Append(url.userinfo, "@")
           ending == IF url.port \in {0, DefaultPort[url.scheme]} THEN <<>>
                     ELSE <<":", ShowPort(url.port)>>
           host == url.host
           query == IF url.query = None THEN <<>> ELSE <<"?">> \o url.query
           fragment == IF url.fragment = None THEN <<>> ELSE <<"#">> \o url.fragment
<1>1. ending = PortText(url.port)
  BY DEF UrlOver, PortText
<1>2. query = Optional("?", url.query) /\ fragment = Optional("#", url.fragment)
  BY SMTT(30) DEF Optional
<1>3. ToText(url) =
        (((<<url.scheme, ":">> \o (<<"/", "/">> \o ((user \o host) \o ending)))
           \o url.path) \o query) \o fragment
  BY DEF ToText
<1>4. AuthorityText(url.userinfo, url.host, url.port) = (user \o host) \o PortText(url.port)
  BY DEF AuthorityText
<1> HIDE DEF user, ending, query, fragment
<1> QED
  BY <1>1, <1>2, <1>3, <1>4

LEMMA SideBySide == ASSUME NEW a, NEW b PROVE <<a, b>> = <<a>> \o <<b>>
<1> DEFINE s == <<a>>
           t == <<b>>
           U == {a, b}
<1>1. s \in Seq(U) /\ t \in Seq(U) /\ Len(s) = 1 /\ Len(t) = 1 /\ s[1] = a /\ t[1] = b
  OBVIOUS
<1>2. <<a, b>> \in Seq(U) /\ Len(<<a, b>>) = 2 /\ <<a, b>>[1] = a /\ <<a, b>>[2] = b
  OBVIOUS
<1> DEFINE u == <<a, b>>
<1> HIDE DEF s, t, U
<1>3. /\ s \o t \in Seq(U) /\ Len(s \o t) = Len(s) + Len(t)
      /\ \A i \in 1 .. Len(s) + Len(t) : (s \o t)[i] = IF i <= Len(s) THEN s[i] ELSE t[i - Len(s)]
  BY <1>1, ConcatProperties
<1>4. Len(s \o t) = 2 /\ (s \o t)[1] = a /\ (s \o t)[2] = b
  BY <1>1, <1>3
<1> DEFINE joined == s \o t
<1>5. joined \in Seq(U) /\ Len(joined) = 2 /\ joined[1] = a /\ joined[2] = b
  BY <1>3, <1>4
<1>6. \A i \in 1 .. 2 : i = 1 \/ i = 2
  OBVIOUS
<1>7. u \in Seq(U) /\ Len(u) = 2 /\ u[1] = a /\ u[2] = b
  BY <1>2
<1> HIDE DEF joined, u
<1>8. Len(joined) = Len(u) /\ \A i \in 1 .. Len(joined) : joined[i] = u[i]
  BY <1>5, <1>6, <1>7
<1>9. joined = u
  BY <1>5, <1>7, <1>8, SeqEqual
<1> QED
  BY <1>9 DEF joined, u, s, t

\* A URL is read as it is written.
LEMMA UrlRead ==
  ASSUME ReadAsWritten, NEW S, S = Characters \cup {"/"}, NEW url, UrlOver(S, url), IsHttp(url),
         PlainHost(url.host)
  PROVE  ParseText(ToText(url)) = url
<1> DEFINE scheme == url.scheme
           colon == ":"
           mark == "?"
           sign == "#"
           B == Signs(S) \cup {"/"} \cup (S \ {"?", "#"})
           Q == (B \cup S \cup {"?"}) \ {"#"}
           F == Q \cup S \cup {"#"}
           U == F \cup {scheme, ":"}
           body == Body(url)
           authority == <<"/", "/">> \o AuthorityText(url.userinfo, url.host, url.port)
           query == Optional(mark, url.query)
           fragment == Optional(sign, url.fragment)
           queried == body \o query
           rest == queried \o fragment
           name == <<scheme>>
           one == <<colon>>
           both == <<scheme, colon>>
           text == ToText(url)
<1>1. /\ url \in UrlParts(S) /\ url.host # <<>> /\ scheme \in {"http", "https"}
      /\ url.query \in Seq(S \ {"#"}) \cup {None} /\ url.fragment \in Seq(S) \cup {None}
      /\ url.path \in Seq(S \ {"?", "#"}) /\ scheme \in Schemes
  BY DEF UrlOver, UrlParts, IsHttp
<1>2. body \in Seq(B) /\ Absolutely(Started(url), body) = url
  BY BodyRead
<1>3. /\ B \subseteq Q \ {"?"} /\ S \ {"#"} \subseteq Q /\ mark \in Q
      /\ Q \subseteq F \ {"#"} /\ S \subseteq F /\ sign \in F
      /\ F \subseteq U /\ B \subseteq U /\ Q \subseteq U /\ S \ {"?", "#"} \subseteq U
      /\ scheme \in U /\ colon \in U /\ "/" \in U
  <2>1. "?" \notin B /\ "#" \notin B
    BY DEF Signs
  <2> QED
    BY <2>1
<1>4. authority \in Seq(U)
  <2>1. AuthorityText(url.userinfo, url.host, url.port) \in Seq(Signs(S))
    <3> DEFINE part == AuthorityText(url.userinfo, url.host, url.port)
    <3>1. /\ url.userinfo \in Seq(S \ {"/", "?", "#"}) /\ url.host \in Hosts(S)
          /\ Enclosed(url.host) /\ url.port \in PortNumbers
      BY DEF UrlOver, UrlParts
    <3> QED
      BY <1>1, <3>1, AuthorityRead DEF PlainHost
  <2>2. Signs(S) \subseteq U
    BY <1>3
  <2> HIDE DEF U
  <2>3. <<"/", "/">> \in Seq(U)
    BY <1>3
  <2> QED
    BY <2>1, <2>2, <2>3, MoreCharacters, ConcatProperties, ZenonT(30)
<1> HIDE DEF B, Q, F, U, body, authority, scheme
<1>5. queried \in Seq(Q) /\ Head1(queried, mark) = body /\ Rest1(queried, mark) = url.query
  <2>1. body \in Seq(Q \ {mark}) /\ url.query \in Seq(Q) \cup {None}
    BY <1>1, <1>2, <1>3, MoreCharacters
  <2>2. mark \in Q /\ queried = body \o Optional(mark, url.query)
    BY <1>3
  <2> HIDE DEF mark, queried
  <2>3. FoundAgain(Q, mark, body, url.query, body \o Optional(mark, url.query))
    BY <2>1, <2>2, OptionalRead
  <2> QED
    BY <2>2, <2>3 DEF FoundAgain
<1> HIDE DEF queried
<1>6. rest \in Seq(F) /\ Head1(rest, sign) = queried /\ Rest1(rest, sign) = url.fragment
  <2>1. queried \in Seq(F \ {sign}) /\ url.fragment \in Seq(F) \cup {None}
    BY <1>1, <1>3, <1>5, MoreCharacters
  <2>2. sign \in F /\ rest = queried \o Optional(sign, url.fragment)
    BY <1>3
  <2> HIDE DEF sign, rest
  <2>3. FoundAgain(F, sign, queried, url.fragment, queried \o Optional(sign, url.fragment))
    BY <2>1, <2>2, OptionalRead
  <2> QED
    BY <2>2, <2>3 DEF FoundAgain
<1> HIDE DEF rest
<1>7. PathPart(rest) = body /\ QueryPart(rest) = url.query /\ FragmentPart(rest) = url.fragment
  BY <1>5, <1>6 DEF PathPart, QueryPart, FragmentPart, mark, sign
<1>8. /\ rest \in Seq(U) /\ body \in Seq(U) /\ queried \in Seq(U) /\ url.path \in Seq(U)
      /\ name \in Seq(U) /\ one \in Seq(U) /\ both \in Seq(U) /\ both = name \o one
      /\ Len(name) = 1 /\ name[1] = scheme
  <2>1. rest \in Seq(U) /\ body \in Seq(U) /\ queried \in Seq(U) /\ url.path \in Seq(U)
    BY <1>1, <1>2, <1>3, <1>5, <1>6, MoreCharacters
  <2>2. scheme \in U /\ colon \in U
    BY <1>3
  <2> HIDE DEF colon
  <2>3. name \in Seq(U) /\ one \in Seq(U) /\ both \in Seq(U)
    BY <2>2
  <2>4. both = name \o one
    BY SideBySide
  <2>5. Len(name) = 1 /\ name[1] = scheme
    OBVIOUS
  <2> QED
    BY <2>1, <2>3, <2>4, <2>5
<1>9. query \in Seq(U) /\ fragment \in Seq(U)
  <2>1. <<mark>> \in Seq(U) /\ <<sign>> \in Seq(U)
    BY <1>3
  <2>2. S \ {"#"} \subseteq U /\ S \subseteq U
    BY <1>3
  <2>3. url.query \in Seq(U) \cup {None} /\ url.fragment \in Seq(U) \cup {None}
    BY <1>1, <2>2, MoreCharacters
  <2> HIDE DEF mark, sign
  <2>4. <<>> \in Seq(U)
    OBVIOUS
  <2> QED
    BY <2>1, <2>3, <2>4, ConcatProperties DEF Optional
<1> HIDE DEF name, one, both, query, fragment
<1>10. text = Joint(name, colon, rest)
  <2>1. text = (((both \o authority) \o url.path) \o query) \o fragment
    BY <1>1, TextHasParts DEF both, authority, query, fragment, mark, sign, colon, scheme
  <2>2. (both \o authority) \o url.path = both \o body
    <3>1. body = authority \o url.path
      BY DEF body, Body, authority
    <3>2. both \in Seq(U) /\ authority \in Seq(U) /\ url.path \in Seq(U)
      BY <1>4, <1>8
    <3> DEFINE path == url.path
    <3>3. path \in Seq(U)
      BY <3>2
    <3> HIDE DEF path
    <3>4. (both \o authority) \o path = both \o (authority \o path)
      BY <3>2, <3>3, ConcatAssociative
    <3> QED
      BY <3>1, <3>4 DEF path
  <2>3. (both \o body) \o query = both \o queried
    <3>1. both \in Seq(U) /\ body \in Seq(U) /\ query \in Seq(U)
      BY <1>8, <1>9
    <3> QED
      BY <3>1, ConcatAssociative DEF queried
  <2>4. (both \o queried) \o fragment = both \o rest
    <3>1. both \in Seq(U) /\ queried \in Seq(U) /\ fragment \in Seq(U)
      BY <1>8, <1>9
    <3> QED
      BY <3>1, ConcatAssociative DEF rest
  <2>5. (name \o one) \o rest = name \o (one \o rest)
    <3>1. name \in Seq(U) /\ one \in Seq(U) /\ rest \in Seq(U)
      BY <1>8
    <3> QED
      BY <3>1, ConcatAssociative
  <2> QED
    BY <1>8, <2>1, <2>2, <2>3, <2>4, <2>5 DEF Joint, one
<1> HIDE DEF text
<1>11. scheme \in Letters /\ scheme # colon
  BY <1>1, UrlAssumption
<1> HIDE DEF colon
<1>12. Find(text, colon) = 2
  <2>1. \A i \in 1 .. Len(name) : name[i] # colon
    <3>1. \A i \in 1 .. 1 : i = 1
      OBVIOUS
    <3> QED
      BY <1>8, <1>11, <3>1
  <2>2. name \in Seq(U) /\ colon \in U /\ rest \in Seq(U)
    BY <1>3, <1>8
  <2>3. Find(Joint(name, colon, rest), colon) = Len(name) + 1
    BY <2>1, <2>2, FoundFirst
  <2> QED
    BY <1>8, <1>10, <2>3
<1>13. text[1] = scheme /\ From(text, 2 + 1) = rest
  <2>1. name \in Seq(U) /\ colon \in U /\ rest \in Seq(U)
    BY <1>3, <1>8
  <2>2. \A i \in 1 .. Len(name) : Joint(name, colon, rest)[i] = name[i]
    <3>1. MeetingAt(U, Joint(name, colon, rest), name, colon, rest)
      BY <2>1, Between
    <3> QED
      BY <3>1 DEF MeetingAt
  <2>3. CutThere(Joint(name, colon, rest), Len(name), name, colon, rest)
    BY <2>1, BetweenCut
  <2>4. From(text, Len(name) + 1 + 1) = rest
    BY <1>10, <2>3 DEF CutThere
  <2>5. 1 \in 1 .. 1 /\ 1 + 1 = 2
    OBVIOUS
  <2> QED
    BY <1>8, <1>10, <2>2, <2>4, <2>5
<1>14. SchemeEnd(text) = 2
  <2>1. 2 > 1 /\ 2 .. 2 - 1 = {}
    OBVIOUS
  <2> QED
    BY <1>11, <1>12, <1>13, <2>1 DEF SchemeEnd, colon
<1>15. ParseText(text) =
         Absolutely([scheme |-> scheme, userinfo |-> <<>>, host |-> <<>>, port |-> 0, path |-> <<>>,
                     query |-> url.query, fragment |-> url.fragment], body)
  BY <1>1, <1>7, <1>13, <1>14 DEF ParseText
<1> QED
  BY <1>2, <1>15 DEF Started, scheme, text

\* The text that a URL is written as, in the manifest and in pages, is read as that URL.
THEOREM TextsAreUrls ==
  ASSUME HttpDocuments, ReadAsWritten PROVE AddressSpec => []TextIsUrl
<1>1. AddressInv => TextIsUrl
  <2> SUFFICES ASSUME AddressInv, NEW url \in Fetched, NEW text, text = ToText(url),
                      StripWhitespace(text) = text,
                      url.host[1] = "[" \/ \A i \in DOMAIN url.host : url.host[i] # ":"
               PROVE  ParseUrl(text) = url
    BY DEF TextIsUrl
  <2> DEFINE S == Characters \cup {"/"}
  <2>1. UrlOver(S, url) /\ IsHttp(url)
    BY FetchedIsUrl
  <2>2. PlainHost(url.host)
    <3>1. url.host \in Seq(Names(S))
      BY <2>1 DEF UrlOver, UrlParts, Hosts
    <3>2. DOMAIN url.host = 1 .. Len(url.host)
      BY <3>1
    <3> QED
      BY <3>2 DEF PlainHost
  <2>3. ParseText(text) = url
    BY <2>1, <2>2, UrlRead
  <2> QED
    BY <2>3 DEF ParseUrl
<1> QED
  BY <1>1, AddressesAreUrls, PTL

-----------------------------------------------------------------------------
(* The dots of a path, one after the other.                                *)

LEMMA SlashedConcat ==
  ASSUME NEW S, "/" \in S, NEW a \in Seq(Seq(S)), NEW b \in Seq(Seq(S))
  PROVE  Slashed(a \o b) = Slashed(a) \o Slashed(b)
<1> DEFINE W == Seq(S)
           T == {list \in Seq(W) : Slashed(a \o list) = Slashed(a) \o Slashed(list)}
           begun == Slashed(a)
           slash == <<"/">>
<1>1. begun \in Seq(S) /\ Slashed(<<>>) = <<>> /\ slash \in Seq(S)
  BY SlashedOneMore
<1>2. <<>> \in T
  <2>1. a \o <<>> = a /\ begun \o <<>> = begun
    BY <1>1, ConcatEmptySeq
  <2> QED
    BY <1>1, <2>1
<1> HIDE DEF begun, slash
<1>3. ASSUME NEW list \in Seq(W), list \in T, NEW word \in W PROVE Append(list, word) \in T
  <2> DEFINE done == Slashed(list)
             step == slash \o word
  <2>1. Slashed(a \o list) = begun \o done
    BY <1>3 DEF begun
  <2>2. done \in Seq(S) /\ Slashed(Append(list, word)) = done \o step
    BY SlashedOneMore DEF slash
  <2>3. a \o list \in Seq(Seq(S)) /\ Append(list, word) \in Seq(W)
    BY ConcatProperties, AppendProperties
  <2>4. Slashed(Append(a \o list, word)) = Slashed(a \o list) \o step
    BY <2>3, SlashedOneMore DEF slash
  <2>5. a \o Append(list, word) = Append(a \o list, word)
    BY ConcatAppend
  <2>6. step \in Seq(S)
    BY <1>1, ConcatProperties
  <2> HIDE DEF done, step
  <2>7. (begun \o done) \o step = begun \o (done \o step)
    BY <1>1, <2>2, <2>6, ConcatAssociative, SMTT(30)
  <2> QED
    BY <2>1, <2>2, <2>3, <2>4, <2>5, <2>7 DEF begun
<1> HIDE DEF T, W
<1>4. Seq(W) \subseteq T
  BY <1>2, <1>3, AllSequences
<1> QED
  BY <1>4 DEF T, W, begun

\* Where a walk leads depends on where it begins, and not on the way there.
LEMMA WalkedOn ==
  ASSUME NEW W, NEW a \in Seq(W), NEW b \in Seq(W), NEW c \in Seq(W), Walked(a) = Walked(b)
  PROVE  Walked(a \o c) = Walked(b \o c)
<1> DEFINE T == {list \in Seq(W) : Walked(a \o list) = Walked(b \o list)}
<1>1. <<>> \in T
  <2>1. a \o <<>> = a /\ b \o <<>> = b
    BY ConcatEmptySeq
  <2> QED
    BY <2>1
<1>2. ASSUME NEW list \in Seq(W), list \in T, NEW step \in W PROVE Append(list, step) \in T
  <2>1. a \o Append(list, step) = Append(a \o list, step)
        /\ b \o Append(list, step) = Append(b \o list, step)
    BY ConcatAppend, SMTT(30)
  <2>2. a \o list \in Seq(W) /\ b \o list \in Seq(W) /\ Append(list, step) \in Seq(W)
    BY ConcatProperties, AppendProperties
  <2>3. /\ Walked(Append(a \o list, step)) = Entered(Walked(a \o list), step)
        /\ Walked(Append(b \o list, step)) = Entered(Walked(b \o list), step)
    BY <2>2, WalkedOneMore
  <2> QED
    BY <1>2, <2>1, <2>2, <2>3
<1> HIDE DEF T
<1>3. Seq(W) \subseteq T
  BY <1>1, <1>2, AllSequences
<1> QED
  BY <1>3 DEF T

\* A slash at the end, or none.
Closing(directory) == IF directory THEN <<"/">> ELSE <<>>

Parts(text, a, b, c, d) == text = (a \o (b \o c)) \o d => text = a \o (b \o (c \o d))

LEMMA FourParts ==
  ASSUME NEW S, NEW a \in Seq(S), NEW b \in Seq(S), NEW c \in Seq(S), NEW d \in Seq(S), NEW text
  PROVE  Parts(text, a, b, c, d)
<1>1. b \o c \in Seq(S)
  BY ConcatProperties
<1>2. (a \o (b \o c)) \o d = a \o ((b \o c) \o d)
  BY <1>1, ConcatAssociative, SMTT(30)
<1>3. (b \o c) \o d = b \o (c \o d)
  BY ConcatAssociative, SMTT(30)
<1> QED
  BY <1>2, <1>3 DEF Parts

LEMMA SlashedLonger ==
  ASSUME NEW S, "/" \in S, NEW dirs \in Seq(Seq(S)), NEW last \in Seq(S), NEW c \in S
  PROVE  Slashed(Append(dirs, Append(last, c))) = Slashed(Append(dirs, last)) \o <<c>>
<1> DEFINE one == <<"/">>
           end == <<c>>
           more == Append(last, c)
           begun == Slashed(dirs)
<1>1. one \in Seq(S) /\ end \in Seq(S)
  OBVIOUS
<1>2. more \in Seq(S) /\ more = last \o end
  BY AppendEnds
<1> HIDE DEF more, end
<1>3. /\ begun \in Seq(S)
      /\ Slashed(Append(dirs, last)) = begun \o (one \o last)
      /\ Slashed(Append(dirs, more)) = begun \o (one \o more)
  BY <1>2, SlashedOneMore
<1> HIDE DEF begun, one
<1>4. begun \in Seq(S) /\ one \in Seq(S) /\ last \in Seq(S) /\ end \in Seq(S)
  BY <1>1, <1>3
<1>5. (begun \o (one \o last)) \o end = begun \o (one \o (last \o end))
  <2> DEFINE text == (begun \o (one \o last)) \o end
  <2> HIDE DEF text
  <2>1. Parts(text, begun, one, last, end)
    BY <1>4, FourParts
  <2> QED
    BY <2>1 DEF Parts, text
<1> QED
  BY <1>2, <1>3, <1>5 DEF more, end

\* A path without empty segments is its segments, each behind a slash.
LEMMA PathIsSlashed ==
  ASSUME NEW S, "/" \in S, NEW path \in Seq(S), path # <<>>, path[1] = "/", ~HasEmptySegment(path)
  PROVE  path = Slashed(Segments(path)) \o Closing(Last(path) = "/")
<1> DEFINE Good(p) == p # <<>> /\ p[1] = "/" /\ ~HasEmptySegment(p)
           Shown(p) == Slashed(Segments(p)) \o Closing(Last(p) = "/")
           T == {p \in Seq(S) : Good(p) => p = Shown(p)}
           slash == "/"
           one == <<slash>>
<1>1. <<>> \in T
  OBVIOUS
<1>2. ASSUME NEW p \in Seq(S), p \in T, NEW c \in S PROVE Append(p, c) \in T
  <2> DEFINE q == Append(p, c)
             n == Len(p)
  <2>1. /\ q \in Seq(S) /\ q # <<>> /\ Last(q) = c /\ (p # <<>> => q[1] = p[1])
        /\ (p = <<>> => q[1] = c) /\ q = p \o <<c>>
    BY AppendEnds
  <2>2. /\ Len(q) = n + 1 /\ (\A i \in 1 .. n : q[i] = p[i]) /\ q[n + 1] = c /\ n \in Nat
    BY AppendProperties
  <2>3. /\ Segments(q) =
           IF c = slash THEN Segments(p)
           ELSE IF p = <<>> \/ Last(p) = slash THEN Append(Segments(p), <<c>>)
           ELSE Append(Front(Segments(p)), Append(Last(Segments(p)), c))
    BY SplitOneMore DEF Segments
  <2>4. /\ Segments(p) \in Seq(Steps(S))
        /\ p # <<>> /\ Last(p) # slash => Segments(p) # <<>>
    BY SplitWords DEF Segments, Steps
  <2>5. Segments(p) \in Seq(Seq(S)) /\ Steps(S) \subseteq Seq(S)
    BY <2>4, StepsAreTexts
  <2> DEFINE segments == Segments(p)
  <2> HIDE DEF q, segments
  <2>6. SUFFICES ASSUME Good(q) PROVE q = Shown(q)
    BY <2>1 DEF q
  <2>7. CASE p = <<>>
    <3>1. c = slash /\ segments = <<>>
      BY <2>1, <2>6, <2>7, SplitNone DEF segments, Segments
    <3>2. q = one /\ Segments(q) = <<>>
      <4>1. <<>> \o <<c>> = <<c>>
        OBVIOUS
      <4> QED
        BY <2>1, <2>3, <2>7, <3>1, <4>1 DEF segments
    <3>3. Slashed(<<>>) = <<>>
      BY <2>5, SlashedOneMore
    <3>4. Shown(q) = <<>> \o one
      BY <2>1, <3>1, <3>2, <3>3 DEF Closing
    <3>5. <<>> \o one = one
      OBVIOUS
    <3>6. Shown(q) = one
      BY <3>4, <3>5
    <3> HIDE DEF Shown
    <3> QED
      BY <3>2, <3>6
  <2>8. CASE p # <<>>
    <3>1. n \in 1 .. n /\ Last(p) = p[n] /\ Last(p) \in S
      BY <2>2, <2>8, FrontAndLast DEF Last
    <3>2. Good(p)
      <4>1. ASSUME NEW i \in 2 .. n, p[i] = slash, p[i - 1] = slash PROVE FALSE
        <5>1. i \in 1 .. n /\ i - 1 \in 1 .. n /\ i \in 2 .. n + 1
          BY <2>2
        <5>2. q[i] = slash /\ q[i - 1] = slash /\ i \in 2 .. Len(q)
          BY <2>2, <4>1, <5>1
        <5> QED
          BY <2>6, <5>2 DEF HasEmptySegment
      <4>2. ~HasEmptySegment(p)
        BY <4>1 DEF HasEmptySegment
      <4> QED
        BY <2>1, <2>6, <2>8, <4>2
    <3>3. p = Slashed(segments) \o Closing(Last(p) = slash)
      BY <1>2, <3>2 DEF segments
    <3>4. ~(Last(p) = slash /\ c = slash)
      <4>1. n + 1 \in 2 .. Len(q) /\ (n + 1) - 1 = n
        BY <2>2, <3>1
      <4> QED
        BY <2>2, <2>6, <3>1, <4>1 DEF HasEmptySegment
    <3> DEFINE done == Slashed(segments)
    <3>5. done \in Seq(S) /\ one \in Seq(S) /\ <<c>> \in Seq(S) /\ <<>> \in Seq(S)
      <4>1. done \in Seq(S)
        BY <2>5, SlashedOneMore DEF segments
      <4> QED
        BY <4>1
    <3> HIDE DEF done
    <3>6. CASE c = slash
      <4>1. p = done
        <5>1. Closing(Last(p) = slash) = <<>>
          BY <3>4, <3>6 DEF Closing
        <5> QED
          BY <3>3, <3>5, <5>1, ConcatEmptySeq DEF done
      <4>2. Shown(q) = done \o one
        BY <2>1, <2>3, <3>6 DEF Closing, segments, done
      <4> QED
        BY <2>1, <3>6, <4>1, <4>2
    <3>7. CASE c # slash /\ Last(p) = slash
      <4>1. p = done \o one
        BY <3>3, <3>7 DEF Closing, done
      <4>2. Segments(q) = Append(segments, <<c>>)
        BY <2>3, <3>7 DEF segments
      <4>3. Slashed(Append(segments, <<c>>)) = done \o (one \o <<c>>)
        BY <2>5, <3>5, SlashedOneMore DEF segments, done
      <4>4. (done \o one) \o <<c>> = done \o (one \o <<c>>)
        <5> DEFINE last == <<c>>
        <5> HIDE DEF last, one
        <5>1. last \in Seq(S) /\ one \in Seq(S)
          BY <3>5 DEF last
        <5> QED
          BY <3>5, <5>1, ConcatAssociative, SMTT(30) DEF last
      <4>5. Slashed(Segments(q)) = q /\ Closing(Last(q) = slash) = <<>>
        BY <2>1, <3>7, <4>1, <4>2, <4>3, <4>4 DEF Closing
      <4>6. q \o <<>> = q
        BY <2>1, ConcatEmptySeq DEF q
      <4> QED
        BY <4>5, <4>6
    <3>8. CASE c # slash /\ Last(p) # slash
      <4> DEFINE dirs == Front(segments)
                 last == Last(segments)
                 more == Append(last, c)
      <4>1. dirs \in Seq(Seq(S)) /\ last \in Seq(S) /\ segments = Append(dirs, last)
        <5>1. segments # <<>> /\ segments \in Seq(Seq(S))
          BY <2>4, <2>5, <2>8, <3>8 DEF segments
        <5> QED
          BY <5>1, FrontAndLast
      <4>2. p = done
        <5>1. Closing(Last(p) = slash) = <<>>
          BY <3>8 DEF Closing
        <5> QED
          BY <3>3, <3>5, <5>1, ConcatEmptySeq DEF done
      <4>3. Segments(q) = Append(dirs, more)
        BY <2>3, <2>8, <3>8 DEF segments
      <4>4. Slashed(Append(dirs, more)) = Slashed(Append(dirs, last)) \o <<c>>
        <5> HIDE DEF dirs, last
        <5> QED
          BY <4>1, SlashedLonger
      <4>5. Slashed(Segments(q)) = done \o <<c>>
        BY <4>1, <4>3, <4>4 DEF done
      <4>7. Slashed(Segments(q)) = q /\ Closing(Last(q) = slash) = <<>>
        BY <2>1, <3>8, <4>2, <4>5 DEF Closing
      <4>8. q \o <<>> = q
        BY <2>1, ConcatEmptySeq DEF q
      <4> QED
        BY <4>7, <4>8
    <3> QED
      BY <3>6, <3>7, <3>8
  <2> QED
    BY <2>7, <2>8
<1> HIDE DEF T
<1>3. Seq(S) \subseteq T
  BY <1>1, <1>2, AllSequences
<1> QED
  BY <1>3 DEF T

\* A text of two parts is cut between them.
LEMMA ConcatCut ==
  ASSUME NEW S, NEW a \in Seq(S), NEW b \in Seq(S)
  PROVE  /\ SubSeq(a \o b, 1, Len(a)) = a
         /\ From(a \o b, Len(a) + 1) = b
<1> DEFINE text == a \o b
           m == Len(a)
           n == Len(b)
           front == SubSeq(text, 1, m)
           rest == SubSeq(text, m + 1, m + n)
<1>1. /\ text \in Seq(S) /\ Len(text) = m + n
      /\ \A i \in 1 .. m + n : text[i] = IF i <= m THEN a[i] ELSE b[i - m]
  BY ConcatProperties
<1>2. m \in Nat /\ n \in Nat
  OBVIOUS
<1> HIDE DEF text, m, n
<1>3. m \in 0 .. m + n /\ (m + n) - m = n
  BY <1>2
<1>4. /\ front \in Seq(S) /\ Len(front) = m /\ \A i \in 1 .. m : front[i] = text[i]
      /\ rest \in Seq(S) /\ Len(rest) = n /\ \A i \in 1 .. n : rest[i] = text[m + i]
  <2>1. m \in 0 .. Len(text)
    BY <1>1, <1>3
  <2>2. /\ SubSeq(text, 1, m) \in Seq(S) /\ SubSeq(text, m + 1, Len(text)) \in Seq(S)
        /\ Len(SubSeq(text, 1, m)) = m /\ Len(SubSeq(text, m + 1, Len(text))) = Len(text) - m
        /\ \A i \in 1 .. m : SubSeq(text, 1, m)[i] = text[i]
        /\ \A i \in 1 .. Len(text) - m : SubSeq(text, m + 1, Len(text))[i] = text[m + i]
    BY <1>1, <2>1, CutInTwo
  <2>3. Len(text) = m + n /\ Len(text) - m = n
    BY <1>1, <1>3
  <2> QED
    BY <2>2, <2>3
<1> HIDE DEF front, rest
<1>5. \A i \in 1 .. m : i \in 1 .. m + n /\ i <= m
  BY <1>2
<1>6. \A i \in 1 .. n : m + i \in 1 .. m + n /\ ~(m + i <= m) /\ (m + i) - m = i
  BY <1>2
<1>7. front = a
  <2>1. \A i \in 1 .. m : front[i] = a[i]
    BY <1>1, <1>4, <1>5
  <2>2. Len(a) = m
    BY DEF m
  <2> QED
    BY <1>4, <2>1, <2>2, SeqEqual
<1>8. rest = b
  <2>1. \A i \in 1 .. n : rest[i] = b[i]
    BY <1>1, <1>4, <1>6
  <2>2. Len(b) = n
    BY DEF n
  <2> QED
    BY <1>4, <2>1, <2>2, SeqEqual
<1>9. From(text, m + 1) = rest
  BY <1>1 DEF From, rest
<1> QED
  BY <1>7, <1>8, <1>9 DEF front, text, m

\* A path that begins with a segment: what is found there.
FirstSegment(input, s, next) ==
  /\ Len(input) = 1 + Len(s) + Len(next) /\ Tail(input) = s \o next
  /\ input[1] = "/"
  /\ \A i \in 1 .. Len(s) : input[1 + i] = s[i]
  /\ SubSeq(input, 1, 1 + Len(s)) = <<"/">> \o s
  /\ From(input, 1 + Len(s) + 1) = next

LEMMA SegmentFirst ==
  ASSUME NEW S, "/" \in S, NEW s \in Seq(S), NEW next \in Seq(S)
  PROVE  <<"/">> \o (s \o next) \in Seq(S) /\ FirstSegment(<<"/">> \o (s \o next), s, next)
<1> DEFINE slash == "/"
           one == <<slash>>
           begun == one \o s
           rest == s \o next
           input == one \o rest
<1>1. one \in Seq(S) /\ Len(one) = 1 /\ one[1] = slash /\ slash \in S
  OBVIOUS
<1> HIDE DEF slash, one
<1>11. one \in Seq(S)
  BY <1>1
<1>2. /\ rest \in Seq(S) /\ begun \in Seq(S) /\ Len(begun) = 1 + Len(s) /\ Len(rest) = Len(s) + Len(next)
      /\ Len(s) \in Nat /\ Len(next) \in Nat
  <2>1. rest \in Seq(S) /\ Len(rest) = Len(s) + Len(next)
    BY ConcatProperties
  <2>2. begun \in Seq(S) /\ Len(begun) = Len(one) + Len(s)
    BY <1>11, ConcatProperties
  <2>3. Len(s) \in Nat /\ Len(next) \in Nat
    OBVIOUS
  <2> HIDE DEF begun, rest
  <2> QED
    BY <1>1, <2>1, <2>2, <2>3
<1>3. input = begun \o next
  BY <1>11, ConcatAssociative
<1>4. input \in Seq(S) /\ Len(input) = 1 + Len(s) + Len(next)
  <2> HIDE DEF begun, rest, input
  <2> QED
    BY <1>2, <1>3, ConcatProperties, SMTT(30)
<1>5. SubSeq(input, 1, 1 + Len(s)) = begun /\ From(input, 1 + Len(s) + 1) = next
  <2> HIDE DEF begun, input
  <2>1. /\ SubSeq(begun \o next, 1, Len(begun)) = begun
        /\ From(begun \o next, Len(begun) + 1) = next
    BY <1>2, ConcatCut
  <2> QED
    BY <1>2, <1>3, <2>1
<1>6. Tail(input) = rest
  <2> HIDE DEF rest
  <2>1. From(one \o rest, Len(one) + 1) = rest
    BY <1>1, <1>2, ConcatCut
  <2>2. input # <<>> /\ Len(one) + 1 = 2
    BY <1>1, <1>2, <1>4
  <2> HIDE DEF input
  <2>3. Tail(input) = SubSeq(input, 2, Len(input))
    BY <1>4, <2>2, TailIsSubSeq
  <2> QED
    BY <2>1, <2>2, <2>3 DEF From, input
<1>7. input[1] = slash /\ \A i \in 1 .. Len(s) : input[1 + i] = s[i]
  <2>1. /\ \A i \in 1 .. Len(begun) + Len(next) : input[i] = IF i <= Len(begun) THEN begun[i] ELSE next[i - Len(begun)]
    <3> HIDE DEF begun, input
    <3> QED
      BY <1>2, <1>3, ConcatProperties
  <2>2. \A i \in 1 .. 1 + Len(s) : begun[i] = IF i <= 1 THEN one[i] ELSE s[i - 1]
    <3>1. \A i \in 1 .. Len(one) + Len(s) : begun[i] = IF i <= Len(one) THEN one[i] ELSE s[i - Len(one)]
      BY <1>11, ConcatProperties
    <3> HIDE DEF begun
    <3> QED
      BY <1>1, <3>1
  <2> HIDE DEF begun, input
  <2>3. \A i \in 1 .. 1 + Len(s) : input[i] = begun[i]
    BY <1>2, <2>1
  <2>4. 1 \in 1 .. 1 + Len(s) /\ \A i \in 1 .. Len(s) : 1 + i \in 1 .. 1 + Len(s) /\ ~(1 + i <= 1) /\ (1 + i) - 1 = i
    BY <1>2
  <2>5. input[1] = slash
    BY <1>1, <2>2, <2>3, <2>4
  <2>6. ASSUME NEW i \in 1 .. Len(s) PROVE input[1 + i] = s[i]
    BY <2>2, <2>3, <2>4
  <2> QED
    BY <2>5, <2>6
<1> QED
  BY <1>4, <1>5, <1>6, <1>7 DEF FirstSegment, one, slash

\* A text with three, and with four characters in front.
LEMMA BeginsWithThree ==
  ASSUME NEW S, NEW text \in Seq(S), NEW c, NEW d, NEW e
  PROVE  StartsWith(text, <<c, d, e>>) <=> Len(text) >= 3 /\ text[1] = c /\ text[2] = d /\ text[3] = e
<1> DEFINE three == <<c, d, e>>
<1>1. /\ three \in Seq({c, d, e}) /\ Len(three) = 3
      /\ three[1] = c /\ three[2] = d /\ three[3] = e /\ Len(text) \in Nat
  OBVIOUS
<1>2. 1 .. 3 = {1, 2, 3}
  OBVIOUS
<1> HIDE DEF three
<1>3. StartsWith(text, three) <=> 3 <= Len(text) /\ \A i \in 1 .. 3 : text[i] = three[i]
  <2>1. StartsWith(text, three) <=>
           Len(three) <= Len(text) /\ \A i \in 1 .. Len(three) : text[i] = three[i]
    BY <1>1, Begins, ZenonT(30)
  <2> QED
    BY <1>1, <2>1
<1> QED
  BY <1>1, <1>2, <1>3 DEF three

LEMMA BeginsWithFour ==
  ASSUME NEW S, NEW text \in Seq(S), NEW c, NEW d, NEW e, NEW f
  PROVE  StartsWith(text, <<c, d, e, f>>) <=>
           Len(text) >= 4 /\ text[1] = c /\ text[2] = d /\ text[3] = e /\ text[4] = f
<1> DEFINE four == <<c, d, e, f>>
<1>1. /\ four \in Seq({c, d, e, f}) /\ Len(four) = 4
      /\ four[1] = c /\ four[2] = d /\ four[3] = e /\ four[4] = f /\ Len(text) \in Nat
  OBVIOUS
<1>2. 1 .. 4 = {1, 2, 3, 4}
  OBVIOUS
<1> HIDE DEF four
<1>3. StartsWith(text, four) <=> 4 <= Len(text) /\ \A i \in 1 .. 4 : text[i] = four[i]
  <2>1. StartsWith(text, four) <=>
           Len(four) <= Len(text) /\ \A i \in 1 .. Len(four) : text[i] = four[i]
    BY <1>1, Begins, ZenonT(30)
  <2> QED
    BY <1>1, <2>1
<1> QED
  BY <1>1, <1>2, <1>3 DEF four

\* Whether there is a dot segment in front, and whether anything follows it.
DotsFirst(input, s, next) ==
  /\ StartsWith(input, <<"/", ".", "/">>) <=> s = Dot /\ next # <<>>
  /\ input = <<"/", ".">> <=> s = Dot /\ next = <<>>
  /\ StartsWith(input, <<"/", ".", ".", "/">>) <=> s = DotDot /\ next # <<>>
  /\ input = <<"/", ".", ".">> <=> s = DotDot /\ next = <<>>

LEMMA DotSegmentFirst ==
  ASSUME NEW S, "/" \in S, NEW s \in Steps(S), NEW next \in Seq(S), next = <<>> \/ next[1] = "/",
         NEW input \in Seq(S), FirstSegment(input, s, next)
  PROVE  DotsFirst(input, s, next)
<1> DEFINE m == Len(s)
           k == Len(next)
           slash == "/"
           dot == "."
<1>1. /\ s \in Seq(S) /\ s # <<>> /\ \A i \in 1 .. m : s[i] # slash
  <2>1. s \in Seq(S \ {slash}) /\ s # <<>>
    BY DEF Steps, WordsOver
  <2>2. \A i \in 1 .. Len(s) : s[i] \in S \ {slash}
    BY <2>1
  <2>3. s \in Seq(S)
    BY StepsAreTexts
  <2> QED
    BY <2>1, <2>2, <2>3
<1>2. m \in Nat \ {0} /\ k \in Nat /\ (k = 0 <=> next = <<>>)
  BY <1>1
<1>3. Dot \in Seq({dot}) /\ DotDot \in Seq({dot}) /\ Len(Dot) = 1 /\ Len(DotDot) = 2
      /\ Dot[1] = dot /\ DotDot[1] = dot /\ DotDot[2] = dot /\ dot # slash
  BY DEF Dot, DotDot
<1>4. /\ s = Dot <=> m = 1 /\ s[1] = dot
      /\ s = DotDot <=> m = 2 /\ s[1] = dot /\ s[2] = dot
  <2>1. m = 1 => 1 .. m = {1}
    OBVIOUS
  <2>2. m = 2 => 1 .. m = {1, 2}
    OBVIOUS
  <2>3. m = 1 /\ s[1] = dot => s = Dot
    <3>1. m = 1 /\ s[1] = dot => \A i \in 1 .. m : s[i] = Dot[i]
      BY <1>3, <2>1
    <3> QED
      BY <1>1, <1>3, <3>1, SeqEqual
  <2>4. m = 2 /\ s[1] = dot /\ s[2] = dot => s = DotDot
    <3>1. m = 2 /\ s[1] = dot /\ s[2] = dot => \A i \in 1 .. m : s[i] = DotDot[i]
      BY <1>3, <2>2
    <3> QED
      BY <1>1, <1>3, <3>1, SeqEqual, SMTT(30)
  <2> QED
    BY <1>3, <2>3, <2>4
<1>5. /\ Len(input) = 1 + m + k /\ input[1] = slash
      /\ (\A i \in 1 .. m : input[1 + i] = s[i])
  BY DEF FirstSegment
<1>6. k > 0 => input[1 + m + 1] = slash
  <2> HIDE DEF m, k
  <2>1. 1 + m \in 0 .. Len(input) /\ Len(input) - (1 + m) = k
    BY <1>2, <1>5
  <2>2. \A i \in 1 .. Len(input) - (1 + m) : SubSeq(input, 1 + m + 1, Len(input))[i] = input[1 + m + i]
    BY <2>1, CutInTwo
  <2>3. SubSeq(input, 1 + m + 1, Len(input)) = next
    BY DEF FirstSegment, From, m
  <2> QED
    BY <1>2, <2>1, <2>2, <2>3
<1> HIDE DEF m, k, slash, dot
<1>7. \A i \in 1 .. m : input[1 + i] # slash
  BY <1>1, <1>5
<1>8. /\ input[2] = s[1] /\ (m >= 2 => input[3] = s[2]) /\ input[2] # slash
      /\ (m >= 2 => input[3] # slash) /\ (m >= 3 => input[4] # slash)
      /\ (m = 1 /\ k > 0 => input[3] = slash) /\ (m = 2 /\ k > 0 => input[4] = slash)
  <2>1. 1 \in 1 .. m /\ (m >= 2 => 2 \in 1 .. m) /\ (m >= 3 => 3 \in 1 .. m)
    BY <1>2
  <2> QED
    BY <1>2, <1>5, <1>6, <1>7, <2>1
<1>9. StartsWith(input, <<slash, dot, slash>>) <=> s = Dot /\ next # <<>>
  <2>1. StartsWith(input, <<slash, dot, slash>>) <=>
          Len(input) >= 3 /\ input[1] = slash /\ input[2] = dot /\ input[3] = slash
    BY BeginsWithThree
  <2> QED
    BY <1>2, <1>4, <1>5, <1>8, <2>1
<1>10. StartsWith(input, <<slash, dot, dot, slash>>) <=> s = DotDot /\ next # <<>>
  <2>1. StartsWith(input, <<slash, dot, dot, slash>>) <=>
          Len(input) >= 4 /\ input[1] = slash /\ input[2] = dot /\ input[3] = dot /\ input[4] = slash
    BY BeginsWithFour
  <2> QED
    BY <1>2, <1>3, <1>4, <1>5, <1>8, <2>1
<1>11. input = <<slash, dot>> <=> Len(input) = 2 /\ input[1] = slash /\ input[2] = dot
  OBVIOUS
<1>12. input = <<slash, dot, dot>> <=>
         Len(input) = 3 /\ input[1] = slash /\ input[2] = dot /\ input[3] = dot
  OBVIOUS
<1>13. input = <<slash, dot>> <=> s = Dot /\ next = <<>>
  BY <1>2, <1>4, <1>5, <1>8, <1>11
<1>14. input = <<slash, dot, dot>> <=> s = DotDot /\ next = <<>>
  BY <1>2, <1>3, <1>4, <1>5, <1>8, <1>12, SMTT(30)
<1> QED
  BY <1>9, <1>10, <1>13, <1>14 DEF DotsFirst, slash, dot

\* What a turn makes of a path that begins with a segment.
Turned(s, next, output) ==
  IF s \notin {Dot, DotDot} THEN <<next, output \o (<<"/">> \o s)>>
  ELSE <<IF next = <<>> THEN <<"/">> ELSE next,
         IF s = Dot THEN output ELSE Before(output, RFind(output, "/"))>>

LEMMA EndFound ==
  ASSUME NEW S, "/" \in S, NEW s \in Steps(S), NEW next \in Seq(S), next = <<>> \/ next[1] = "/"
  PROVE  Find(s \o next, "/") = IF next = <<>> THEN 0 ELSE 1 + Len(s)
<1> DEFINE slash == "/"
<1>1. s \in Seq(S \ {slash}) /\ s \in Seq(S)
  BY StepsAreTexts DEF Steps, WordsOver
<1>2. CASE next = <<>>
  <2>1. s \o next = s
    BY <1>1, <1>2, ConcatEmptySeq
  <2>2. slash \notin S \ {slash}
    OBVIOUS
  <2>3. Find(s, slash) = 0
    BY <1>1, <2>2, NotThere
  <2> QED
    BY <1>2, <2>1, <2>3
<1>3. CASE next # <<>>
  <2> DEFINE rest == SubSeq(next, 2, Len(next))
  <2>1. next = <<slash>> \o rest /\ rest \in Seq(S)
    BY <1>3, FirstAndRest
  <2>2. \A i \in 1 .. Len(s) : s[i] # slash
    <3>1. \A i \in 1 .. Len(s) : s[i] \in S \ {slash}
      BY <1>1
    <3> QED
      BY <3>1
  <2> HIDE DEF rest
  <2>3. Find(Joint(s, slash, rest), slash) = Len(s) + 1
    BY <1>1, <2>1, <2>2, FoundFirst
  <2>4. Len(s) + 1 = 1 + Len(s)
    BY <1>1
  <2> QED
    BY <1>3, <2>1, <2>3, <2>4 DEF Joint
<1> QED
  BY <1>2, <1>3

LEMMA TurnTaken ==
  ASSUME NEW S, "/" \in S, NEW s \in Steps(S), NEW next \in Seq(S), next = <<>> \/ next[1] = "/",
         NEW output
  PROVE  RfcTurn(<<"/">> \o (s \o next), output) = Turned(s, next, output)
<1> DEFINE input == <<"/">> \o (s \o next)
           m == Len(s)
           up == Before(output, RFind(output, "/"))
           slash == Find(Tail(input), "/")
           end == IF slash = 0 THEN Len(input) ELSE slash
           begun == <<"/">> \o s
           one == <<"/">>
           dotSlash == StartsWith(input, <<"/", ".", "/">>)
           dotEnd == input = <<"/", ".">>
           dotsSlash == StartsWith(input, <<"/", ".", ".", "/">>)
           dotsEnd == input = <<"/", ".", ".">>
           third == From(input, 3)
           fourth == From(input, 4)
           behind == From(input, end + 1)
           front == SubSeq(input, 1, end)
<1>1. s \in Seq(S) /\ m \in Nat /\ Len(next) \in Nat
  BY StepsAreTexts
<1>2. input \in Seq(S) /\ FirstSegment(input, s, next)
  BY <1>1, SegmentFirst
<1> HIDE DEF input
<1>3. DotsFirst(input, s, next)
  BY <1>2, DotSegmentFirst
<1>4. slash = IF next = <<>> THEN 0 ELSE 1 + m
  BY <1>2, EndFound DEF FirstSegment
<1>5. end = 1 + m
  <2>1. Len(input) = 1 + m + Len(next) /\ (next = <<>> => Len(next) = 0)
    BY <1>2 DEF FirstSegment
  <2> QED
    BY <1>1, <1>4, <2>1
<1> HIDE DEF slash
<1>6. behind = next /\ front = begun
  <2> HIDE DEF end
  <2> QED
    BY <1>2, <1>5 DEF FirstSegment
<1>7. input # <<>>
  BY <1>1, <1>2 DEF FirstSegment
<1>8. (s = Dot => third = next) /\ (s = DotDot => fourth = next)
  <2>1. From(input, 1 + m + 1) = next
    BY <1>2 DEF FirstSegment
  <2>2. (s = Dot => 1 + m + 1 = 3) /\ (s = DotDot => 1 + m + 1 = 4)
    <3>1. Len(Dot) = 1 /\ Len(DotDot) = 2
      BY DEF Dot, DotDot
    <3>2. (s = Dot => m = 1) /\ (s = DotDot => m = 2)
      BY <3>1
    <3> HIDE DEF m
    <3> QED
      BY <3>2
  <2> QED
    BY <2>1, <2>2
<1>9. RfcTurn(input, output) =
        CASE input = <<>> -> <<input, output>>
          [] dotSlash -> <<third, output>>
          [] dotEnd -> <<one, output>>
          [] dotsSlash -> <<fourth, up>>
          [] dotsEnd -> <<one, up>>
          [] OTHER -> <<behind, output \o front>>
  BY DEF RfcTurn, slash
<1>10. /\ dotSlash <=> s = Dot /\ next # <<>>
       /\ dotEnd <=> s = Dot /\ next = <<>>
       /\ dotsSlash <=> s = DotDot /\ next # <<>>
       /\ dotsEnd <=> s = DotDot /\ next = <<>>
  BY <1>3 DEF DotsFirst
<1>11. Dot # DotDot
  BY DEF Dot, DotDot
<1> HIDE DEF dotSlash, dotEnd, dotsSlash, dotsEnd, third, fourth, behind, front, up, one, begun
<1>12. CASE s \notin {Dot, DotDot}
  <2>1. RfcTurn(input, output) = <<behind, output \o front>>
    BY <1>7, <1>9, <1>10, <1>12
  <2> QED
    BY <1>6, <1>12, <2>1 DEF Turned, input, begun
<1>13. CASE s = Dot
  <2>1. next # <<>> => RfcTurn(input, output) = <<third, output>>
    BY <1>7, <1>9, <1>10, <1>11, <1>13
  <2>2. next = <<>> => RfcTurn(input, output) = <<one, output>>
    BY <1>7, <1>9, <1>10, <1>11, <1>13
  <2> QED
    BY <1>8, <1>13, <2>1, <2>2 DEF Turned, input, one
<1>14. CASE s = DotDot
  <2>1. next # <<>> => RfcTurn(input, output) = <<fourth, up>>
    BY <1>7, <1>9, <1>10, <1>11, <1>14
  <2>2. next = <<>> => RfcTurn(input, output) = <<one, up>>
    BY <1>7, <1>9, <1>10, <1>11, <1>14
  <2> QED
    BY <1>8, <1>11, <1>14, <2>1, <2>2 DEF Turned, input, one, up
<1> QED
  BY <1>12, <1>13, <1>14 DEF input

\* And of a path that is a slash, and of none.
LEMMA SlashTaken ==
  ASSUME NEW output
  PROVE  /\ RfcTurn(<<"/">>, output) = <<<<>>, output \o <<"/">>>>
         /\ RfcTurn(<<>>, output) = <<<<>>, output>>
<1> DEFINE slash == "/"
           input == <<slash>>
           rest == Tail(input)
           first == Find(rest, slash)
           end == IF first = 0 THEN Len(input) ELSE first
           behind == From(input, end + 1)
           front == SubSeq(input, 1, end)
           dotSlash == StartsWith(input, <<slash, ".", slash>>)
           dotsSlash == StartsWith(input, <<slash, ".", ".", slash>>)
<1>1. input \in Seq({slash}) /\ Len(input) = 1 /\ input # <<>> /\ input # <<slash, ".">> /\ input # <<slash, ".", ".">>
  OBVIOUS
<1>2. ~dotSlash /\ ~dotsSlash
  <2> HIDE DEF input, slash
  <2>1. dotSlash => Len(input) >= 3
    BY <1>1, BeginsWithThree
  <2>2. dotsSlash => Len(input) >= 4
    BY <1>1, BeginsWithFour
  <2> QED
    BY <1>1, <2>1, <2>2
<1>3. rest = <<>>
  OBVIOUS
<1>4. first = 0
  <2> DEFINE nothing == <<>>
             none == {}
  <2>1. nothing \in Seq(none) /\ slash \notin none
    OBVIOUS
  <2> HIDE DEF nothing, none, slash
  <2>2. Find(nothing, slash) = 0
    BY <2>1, NotThere
  <2> QED
    BY <1>3, <2>2 DEF nothing
<1>5. end = 1
  BY <1>1, <1>4
<1>6. behind = <<>> /\ front = input
  <2> HIDE DEF end, input
  <2>1. behind = SubSeq(input, 2, 1) /\ front = SubSeq(input, 1, Len(input))
    BY <1>1, <1>5 DEF From
  <2>2. SubSeq(input, 1, Len(input)) = input
    BY <1>1, SubSeqFull
  <2>3. SubSeq(input, 2, 1) = <<>>
    BY <1>1, SubSeqEmpty
  <2> QED
    BY <2>1, <2>2, <2>3
<1> HIDE DEF behind, front, dotSlash, dotsSlash, end
<1>7. RfcTurn(input, output) = <<behind, output \o front>>
  BY <1>1, <1>2 DEF RfcTurn, behind, front, dotSlash, dotsSlash, end
<1>8. RfcTurn(<<>>, output) = <<<<>>, output>>
  <2>1. ASSUME NEW path, path = <<>> PROVE RfcTurn(path, output) = <<path, output>>
    <3> DEFINE a == StartsWith(path, <<"/", ".", "/">>)
               b == path = <<"/", ".">>
               c == StartsWith(path, <<"/", ".", ".", "/">>)
               d == path = <<"/", ".", ".">>
               up == Before(output, RFind(output, "/"))
               place == Find(Tail(path), "/")
               last == IF place = 0 THEN Len(path) ELSE place
    <3>1. RfcTurn(path, output) =
            CASE path = <<>> -> <<path, output>>
              [] a -> <<From(path, 3), output>>
              [] b -> << <<"/">>, output>>
              [] c -> <<From(path, 4), up>>
              [] d -> << <<"/">>, up>>
              [] OTHER -> <<From(path, last + 1), output \o SubSeq(path, 1, last)>>
      BY DEF RfcTurn
    <3>3. ~a /\ ~b /\ ~c /\ ~d
      <4>1. path \in Seq({slash}) /\ Len(path) = 0
        BY <2>1
      <4>2. a => Len(path) >= 3
        <5> HIDE DEF slash
        <5> QED
          BY <4>1, BeginsWithThree
      <4>3. c => Len(path) >= 4
        <5> HIDE DEF slash
        <5> QED
          BY <4>1, BeginsWithFour
      <4>4. ~b /\ ~d
        BY <2>1
      <4> HIDE DEF a, b, c, d
      <4> QED
        BY <4>1, <4>2, <4>3, <4>4
    <3> DEFINE x == <<From(path, 3), output>>
               y == <<From(path, 4), up>>
               z == <<From(path, last + 1), output \o SubSeq(path, 1, last)>>
               u == << <<"/">>, output>>
               v == << <<"/">>, up>>
    <3> HIDE DEF a, b, c, d, x, y, z, u, v
    <3>2. RfcTurn(path, output) =
            CASE path = <<>> -> <<path, output>> [] a -> x [] b -> u [] c -> y [] d -> v [] OTHER -> z
      BY <3>1 DEF x, y, z, u, v
    <3> QED
      BY <2>1, <3>2, <3>3
  <2> QED
    BY <2>1
<1> QED
  BY <1>6, <1>7, <1>8

\* What follows the first segment of a path.
Following(todo, directory) == Slashed(SubSeq(todo, 2, Len(todo))) \o Closing(directory)

LEMMA FirstStep ==
  ASSUME NEW S, "/" \in S, NEW todo \in Seq(Steps(S)), todo # <<>>, NEW directory \in BOOLEAN
  PROVE  /\ todo[1] \in Steps(S) /\ SubSeq(todo, 2, Len(todo)) \in Seq(Steps(S))
         /\ todo = <<todo[1]>> \o SubSeq(todo, 2, Len(todo))
         /\ Following(todo, directory) \in Seq(S)
         /\ Slashed(todo) \o Closing(directory) = <<"/">> \o (todo[1] \o Following(todo, directory))
<1> DEFINE s == todo[1]
           rest == SubSeq(todo, 2, Len(todo))
           end == Closing(directory)
           more == Slashed(rest)
           one == <<"/">>
           first == <<s>>
<1>1. s \in Steps(S) /\ todo = first \o rest /\ rest \in Seq(Steps(S))
  BY FirstAndRest
<1>2. end \in Seq(S) /\ one \in Seq(S)
  BY DEF Closing
<1> HIDE DEF s, rest
<1>3. s \in Seq(S) /\ rest \in Seq(Seq(S)) /\ first \in Seq(Seq(S)) /\ <<>> \in Seq(Seq(S))
  <2>1. s \in Seq(S) /\ rest \in Seq(Seq(S))
    BY <1>1, StepsAreTexts
  <2> QED
    BY <2>1
<1>4. more \in Seq(S)
  BY <1>3, SlashedOneMore
<1>5. Slashed(first) = one \o s
  <2>1. Slashed(Append(<<>>, s)) = Slashed(<<>>) \o (one \o s) /\ Slashed(<<>>) = <<>>
    BY <1>3, SlashedOneMore
  <2>2. Append(<<>>, s) = first
    OBVIOUS
  <2>3. one \o s \in Seq(S)
    BY <1>2, <1>3, ConcatProperties
  <2> HIDE DEF one, first
  <2>4. <<>> \o (one \o s) = one \o s
    BY <2>3, ConcatEmptySeq
  <2> QED
    BY <2>1, <2>2, <2>4
<1>6. Slashed(todo) = (one \o s) \o more
  <2> HIDE DEF first
  <2>1. Slashed(first \o rest) = Slashed(first) \o Slashed(rest)
    BY <1>3, SlashedConcat
  <2> QED
    BY <1>1, <1>5, <2>1
<1> HIDE DEF one, end, more, first
<1>7. more \o end \in Seq(S)
  BY <1>2, <1>4, ConcatProperties
<1>8. ((one \o s) \o more) \o end = one \o (s \o (more \o end))
  <2>1. one \o s \in Seq(S)
    BY <1>2, <1>3, ConcatProperties
  <2>2. ((one \o s) \o more) \o end = (one \o s) \o (more \o end)
    BY <1>2, <1>4, <2>1, ConcatAssociative, SMTT(30)
  <2> DEFINE next == more \o end
  <2>3. next \in Seq(S) /\ one \in Seq(S) /\ s \in Seq(S)
    BY <1>2, <1>3, <1>7
  <2> HIDE DEF next
  <2>4. (one \o s) \o next = one \o (s \o next)
    BY <2>3, ConcatAssociative
  <2> QED
    BY <2>2, <2>4 DEF next
<1> QED
  BY <1>1, <1>6, <1>7, <1>8 DEF Following, one, s, rest, end, more, first

\* It is nothing, or begins with a slash.
LEMMA NextStep ==
  ASSUME NEW S, "/" \in S, NEW rest \in Seq(Steps(S)), NEW directory \in BOOLEAN,
         NEW next, next = Slashed(rest) \o Closing(directory)
  PROVE  /\ next = <<>> <=> rest = <<>> /\ ~directory
         /\ next = <<>> \/ next[1] = "/"
         /\ rest = <<>> => next = Closing(directory)
<1> DEFINE more == Slashed(rest)
           end == Closing(directory)
           slash == "/"
<1>1. rest \in Seq(Seq(S))
  BY StepsAreTexts
<1>2. more \in Seq(S) /\ (rest # <<>> => more # <<>> /\ more[1] = slash)
  <2>1. more \in Seq(S)
    BY <1>1, SlashedOneMore
  <2>2. rest # <<>> => more # <<>> /\ more[1] = slash
    BY <1>1, SlashedBegins
  <2> QED
    BY <2>1, <2>2
<1>3. end \in Seq(S) /\ (directory => end = <<slash>>) /\ (~directory => end = <<>>)
  BY DEF Closing
<1>4. CASE rest # <<>>
  <2> HIDE DEF more, end, slash
  <2>1. more \o end # <<>> /\ (more \o end)[1] = more[1]
    BY <1>2, <1>3, <1>4, ConcatEnds
  <2> QED
    BY <1>2, <1>4, <2>1 DEF more, end, slash
<1>5. CASE rest = <<>>
  <2>1. more = <<>>
    <3>1. <<>> \in Seq(S)
      OBVIOUS
    <3> QED
      BY <1>1, <1>5, <3>1, SlashedOneMore
  <2> HIDE DEF more, end
  <2>2. <<>> \o end = end
    BY <1>3, ConcatEmptySeq
  <2>3. next = end
    BY <2>1, <2>2 DEF more, end
  <2>4. directory => end # <<>> /\ end[1] = slash
    <3>1. <<slash>> # <<>> /\ <<slash>>[1] = slash
      OBVIOUS
    <3> HIDE DEF slash
    <3> QED
      BY <1>3, <3>1
  <2> QED
    BY <1>3, <1>5, <2>3, <2>4 DEF end
<1> QED
  BY <1>4, <1>5

\* What has come out follows the stack.
LEMMA StackTurned ==
  ASSUME NEW S, "/" \in S, NEW stack \in Seq(PlainSteps(S)), NEW s \in Steps(S),
         NEW output, output = Slashed(stack)
  PROVE  /\ Entered(stack, s) \in Seq(PlainSteps(S))
         /\ Walked(Append(stack, s)) = Walked(Entered(stack, s))
         /\ Walked(Append(stack, s)) = Entered(stack, s)
         /\ s \notin {Dot, DotDot} => output \o (<<"/">> \o s) = Slashed(Entered(stack, s))
         /\ s = Dot => output = Slashed(Entered(stack, s))
         /\ s = DotDot => Before(output, RFind(output, "/")) = Slashed(Entered(stack, s))
<1> DEFINE P == PlainSteps(S)
           W == Steps(S)
           next == Entered(stack, s)
<1>1. /\ s \notin {Dot, DotDot} => s \in P
      /\ stack \in Seq(W)
  BY PlainStepsAreSteps DEF PlainSteps
<1>2. stack # <<>> => Front(stack) \in Seq(P) /\ Last(stack) \in P /\ stack = Append(Front(stack), Last(stack))
  BY FrontAndLast
<1>3. /\ s \notin {Dot, DotDot} => next = Append(stack, s)
      /\ s = Dot => next = stack
      /\ s = DotDot /\ stack = <<>> => next = stack
      /\ s = DotDot /\ stack # <<>> => next = Front(stack)
  <2>1. Dot # DotDot
    BY DEF Dot, DotDot
  <2> QED
    BY <2>1 DEF Entered
<1> HIDE DEF next, P
<1>4. next \in Seq(P)
  <2>1. s \in P => Append(stack, s) \in Seq(P)
    BY AppendProperties DEF P
  <2> QED
    BY <1>1, <1>2, <1>3, <2>1 DEF P
<1>5. Walked(next) = next /\ Walked(stack) = stack
  <2>1. next \in Seq(W) /\ stack \in Seq(W)
    BY <1>4, PlainStepsAreSteps DEF P
  <2> HIDE DEF W
  <2> QED
    BY <1>4, <2>1, WalkedPlain DEF P, W
<1>6. Walked(Append(stack, s)) = next
  <2>1. Walked(Append(stack, s)) = Entered(Walked(stack), s)
    BY <1>1, WalkedOneMore
  <2> QED
    BY <1>5, <2>1 DEF next
<1>7. stack \in Seq(Seq(S)) /\ s \in Seq(S)
  BY <1>1, StepsAreTexts
<1>8. ASSUME s \notin {Dot, DotDot} PROVE output \o (<<"/">> \o s) = Slashed(next)
  <2>1. Slashed(Append(stack, s)) = Slashed(stack) \o (<<"/">> \o s)
    BY <1>7, SlashedOneMore
  <2> QED
    BY <1>3, <1>8, <2>1
<1>9. ASSUME s = DotDot PROVE Before(output, RFind(output, "/")) = Slashed(next)
  <2>1. CASE stack = <<>>
    <3> DEFINE nothing == <<>>
               none == {}
               slash == "/"
    <3>1. output = nothing /\ Slashed(next) = nothing
      BY <1>3, <1>7, <1>9, <2>1, SlashedOneMore
    <3>2. nothing \in Seq(none) /\ slash \notin none
      OBVIOUS
    <3>3. SubSeq(nothing, 1, 0 - 1) = nothing
      <4>1. 0 - 1 \in Int /\ 1 \in Int /\ 0 - 1 < 1
        OBVIOUS
      <4> HIDE DEF nothing
      <4>2. SubSeq(nothing, 1, 0 - 1) = <<>>
        BY <4>1, SubSeqEmpty
      <4> QED
        BY <4>2 DEF nothing
    <3> HIDE DEF nothing, none, slash
    <3>4. RFind(nothing, slash) = 0
      BY <3>2, NotThere
    <3> QED
      BY <3>1, <3>3, <3>4 DEF Before, slash
  <2>2. CASE stack # <<>>
    <3>1. Front(stack) \in Seq(W) /\ Last(stack) \in W /\ output = Slashed(Append(Front(stack), Last(stack)))
      BY <1>2, <2>2, PlainStepsAreSteps DEF P, PlainSteps
    <3> DEFINE dirs == Front(stack)
               last == Last(stack)
    <3>2. dirs \in Seq(W) /\ last \in W /\ output = Slashed(Append(dirs, last))
      BY <3>1
    <3> HIDE DEF dirs, last
    <3>3. Before(output, RFind(output, "/")) = Slashed(dirs)
      BY <3>2, LastStep
    <3> QED
      BY <1>3, <1>9, <2>2, <3>3 DEF dirs
  <2> QED
    BY <2>1, <2>2
<1>10. s = Dot => output = Slashed(next)
  BY <1>3
<1> QED
  BY <1>4, <1>5, <1>6, <1>8, <1>9, <1>10 DEF next, P

\* A turn of the loop finds segments that are still to be walked behind those that have come out.
Under(S, goal, input, output, todo, directory, stack) ==
  /\ directory \/ todo # <<>>
  /\ input = Slashed(todo) \o Closing(directory) /\ output = Slashed(stack)
  /\ goal = Absolute(Walked(stack \o todo), directory \/ Last(todo) \in {Dot, DotDot})

OnTheWay(S, goal, input, output) ==
  \E todo \in Seq(Steps(S)), directory \in BOOLEAN, stack \in Seq(PlainSteps(S)) :
    Under(S, goal, input, output, todo, directory, stack)

\* Or nothing is left.
TurnedOut(S, goal, new) == new = <<<<>>, goal>> \/ OnTheWay(S, goal, new[1], new[2])

\* The last turn, of the slash at the end.
LEMMA LastTurn ==
  ASSUME NEW S, "/" \in S, NEW goal, NEW input, NEW output, NEW directory \in BOOLEAN,
         NEW stack \in Seq(PlainSteps(S)), Under(S, goal, input, output, <<>>, directory, stack)
  PROVE  input = <<"/">> /\ RfcTurn(input, output) = <<<<>>, goal>>
<1> DEFINE slash == <<"/">>
           nothing == <<>>
           flag == directory \/ Last(nothing) \in {Dot, DotDot}
<1>1. /\ directory = TRUE /\ input = Slashed(nothing) \o slash /\ output = Slashed(stack)
      /\ goal = Absolute(Walked(stack \o nothing), flag)
  BY DEF Under, Closing
<1>2. stack \in Seq(Steps(S)) /\ stack \in Seq(Seq(S)) /\ nothing \in Seq(Seq(S)) /\ nothing \in Seq(S) /\ slash \in Seq(S)
  BY PlainStepsAreSteps, StepsAreTexts
<1>3. Slashed(nothing) = nothing /\ output \in Seq(S)
  BY <1>1, <1>2, SlashedOneMore
<1>4. stack \o nothing = stack
  BY ConcatEmptySeq
<1>5. Walked(stack) = stack
  BY <1>2, WalkedPlain
<1>6. nothing \o slash = slash /\ nothing \o slash = slash
  BY <1>2, ConcatEmptySeq
<1>7. goal = Absolute(stack, TRUE)
  BY <1>1, <1>4, <1>5 DEF Absolute
<1>8. goal = output \o slash
  <2>1. CASE stack = <<>>
    <3>1. goal = slash
      BY <1>2, <1>7, <2>1, AbsoluteIsSlashed
    <3>2. output = nothing
      BY <1>1, <1>3, <2>1
    <3> QED
      BY <1>6, <3>1, <3>2
  <2>2. CASE stack # <<>>
    <3> HIDE DEF slash
    <3>1. TRUE \in BOOLEAN
      OBVIOUS
    <3>2. Absolute(stack, TRUE) = IF TRUE THEN Slashed(stack) \o <<"/">> ELSE Slashed(stack)
      BY <1>2, <2>2, <3>1, AbsoluteIsSlashed
    <3> QED
      BY <1>1, <1>7, <3>2 DEF slash
  <2> QED
    BY <2>1, <2>2
<1>9. input = slash
  BY <1>1, <1>3, <1>6
<1>10. RfcTurn(slash, output) = <<<<>>, output \o slash>>
  BY SlashTaken
<1> QED
  BY <1>8, <1>9, <1>10

MovedOver(a, s, b) == Append(a, s) \o b = a \o (<<s>> \o b)

LEMMA AppendConcat ==
  ASSUME NEW W, NEW a \in Seq(W), NEW s \in W, NEW b \in Seq(W)
  PROVE  MovedOver(a, s, b)
<1> DEFINE one == <<s>>
<1>1. Append(a, s) = a \o one /\ one \in Seq(W)
  BY AppendEnds
<1> HIDE DEF one
<1>2. (a \o one) \o b = a \o (one \o b)
  BY <1>1, ConcatAssociative
<1> QED
  BY <1>1, <1>2 DEF MovedOver, one

\* The segments that are left, when the first one is gone.
Onward(goal, stack, s, rest, directory) ==
  goal = Absolute(Walked(Entered(stack, s) \o rest),
                  IF rest = <<>> THEN directory \/ s \in {Dot, DotDot}
                  ELSE directory \/ Last(rest) \in {Dot, DotDot})

LEMMA WayOn ==
  ASSUME NEW S, "/" \in S, NEW goal, NEW todo \in Seq(Steps(S)), todo # <<>>, NEW directory \in BOOLEAN,
         NEW stack \in Seq(PlainSteps(S)), NEW rest, rest = SubSeq(todo, 2, Len(todo)),
         goal = Absolute(Walked(stack \o todo), directory \/ Last(todo) \in {Dot, DotDot})
  PROVE  Onward(goal, stack, todo[1], rest, directory)
<1> DEFINE s == todo[1]
           W == Steps(S)
           next == Entered(stack, s)
           dots == {Dot, DotDot}
           first == <<s>>
           was == directory \/ Last(todo) \in dots
           is == IF rest = <<>> THEN directory \/ s \in dots ELSE directory \/ Last(rest) \in dots
<1>1. s \in W /\ rest \in Seq(W) /\ todo = first \o rest
  BY FirstStep
<1>2. stack \in Seq(W)
  BY PlainStepsAreSteps
<1> HIDE DEF s
<1>3. /\ next \in Seq(W) /\ Walked(Append(stack, s)) = Walked(next)
  <2>1. next \in Seq(PlainSteps(S)) /\ Walked(Append(stack, s)) = Walked(next)
    BY <1>1, StackTurned
  <2> QED
    BY <2>1, PlainStepsAreSteps
<1>4. stack \o todo = Append(stack, s) \o rest /\ Append(stack, s) \in Seq(W)
  <2>1. Append(stack, s) = stack \o first /\ Append(stack, s) \in Seq(W) /\ first \in Seq(W)
    BY <1>1, <1>2, AppendEnds
  <2> HIDE DEF first, W
  <2>2. Append(stack, s) \o rest = stack \o (first \o rest)
    <3>1. stack \in Seq(W) /\ s \in W /\ rest \in Seq(W)
      BY <1>1, <1>2
    <3>2. MovedOver(stack, s, rest)
      BY <3>1, AppendConcat
    <3> QED
      BY <3>2 DEF MovedOver, first
  <2> QED
    BY <1>1, <2>1, <2>2
<1>5. Walked(Append(stack, s) \o rest) = Walked(next \o rest)
  <2> HIDE DEF W, next
  <2> QED
    BY <1>1, <1>3, <1>4, WalkedOn
<1>6. Last(todo) = IF rest = <<>> THEN s ELSE Last(rest)
  <2> HIDE DEF W
  <2>1. first \in Seq(W) /\ Last(first) = s
    <3>1. <<>> \in Seq(W)
      OBVIOUS
    <3>2. Append(<<>>, s) \in Seq(W) /\ Last(Append(<<>>, s)) = s
      BY <1>1, <3>1, AppendEnds, ZenonT(30)
    <3>3. Append(<<>>, s) = first
      OBVIOUS
    <3> QED
      BY <3>2, <3>3
  <2> HIDE DEF first
  <2>2. rest = <<>> => first \o rest = first
    BY <2>1, ConcatEmptySeq
  <2>3. rest # <<>> => Last(first \o rest) = Last(rest)
    BY <1>1, <2>1, ConcatEnds
  <2> QED
    BY <1>1, <2>1, <2>2, <2>3
<1>7. was <=> is
  BY <1>6
<1>8. goal = Absolute(Walked(next \o rest), was)
  BY <1>4, <1>5 DEF s
<1> HIDE DEF was, is, next
<1>9. goal = Absolute(Walked(next \o rest), is)
  BY <1>7, <1>8 DEF Absolute
<1> QED
  BY <1>9 DEF Onward, is, next, s

\* A turn with a segment in front.
TurnedOn(S, goal, input, new) ==
  /\ TurnedOut(S, goal, new) /\ input \in Seq(S)
  /\ new = <<new[1], new[2]>> /\ new[1] \in Seq(S) /\ Len(new[1]) < Len(input)

LEMMA NextTurn ==
  ASSUME NEW S, "/" \in S, NEW goal, NEW input, NEW output,
         NEW todo \in Seq(Steps(S)), todo # <<>>, NEW directory \in BOOLEAN,
         NEW stack \in Seq(PlainSteps(S)), Under(S, goal, input, output, todo, directory, stack)
  PROVE  TurnedOn(S, goal, input, RfcTurn(input, output))
<1> DEFINE s == todo[1]
           rest == SubSeq(todo, 2, Len(todo))
           next == Following(todo, directory)
           on == Entered(stack, s)
           new == RfcTurn(input, output)
           dots == {Dot, DotDot}
           slash == <<"/">>
           up == Before(output, RFind(output, "/"))
           plainOut == output \o (slash \o s)
           left == IF s \notin dots THEN next ELSE IF next = <<>> THEN slash ELSE next
           out == IF s \notin dots THEN plainOut ELSE IF s = Dot THEN output ELSE up
           dir == directory \/ (s \in dots /\ rest = <<>>)
<1>1. /\ input = Slashed(todo) \o Closing(directory) /\ output = Slashed(stack)
      /\ goal = Absolute(Walked(stack \o todo), directory \/ Last(todo) \in {Dot, DotDot})
  BY DEF Under
<1>2. s \in Steps(S) /\ rest \in Seq(Steps(S)) /\ next \in Seq(S)
      /\ Slashed(todo) \o Closing(directory) = slash \o (s \o next)
  BY FirstStep
<1>4. Onward(goal, stack, s, rest, directory)
  <2> HIDE DEF rest
  <2>1. rest = SubSeq(todo, 2, Len(todo))
    BY DEF rest
  <2> QED
    BY <1>1, <2>1, WayOn
<1>6. next = Slashed(rest) \o Closing(directory)
  BY DEF Following
<1> HIDE DEF s, rest, next
<1>3. /\ next = <<>> <=> rest = <<>> /\ ~directory
      /\ next = <<>> \/ next[1] = "/"
      /\ rest = <<>> => next = Closing(directory)
  <2>1. rest \in Seq(Steps(S))
    BY <1>2
  <2> QED
    BY <1>6, <2>1, NextStep
<1>5. /\ on \in Seq(PlainSteps(S))
      /\ s \notin dots => plainOut = Slashed(on)
      /\ s = Dot => output = Slashed(on)
      /\ s = DotDot => up = Slashed(on)
  <2>1. output = Slashed(stack) /\ s \in Steps(S)
    BY <1>1, <1>2
  <2> QED
    BY <2>1, StackTurned, ZenonT(30)
<1>7. s \in Seq(S) /\ s # <<>>
  <2>1. s \in Seq(S)
    BY <1>2, StepsAreTexts
  <2>2. s # <<>>
    BY <1>2 DEF Steps, WordsOver
  <2> HIDE DEF s
  <2> QED
    BY <2>1, <2>2
<1> HIDE DEF on, slash
<1>8. new = Turned(s, next, output)
  <2>1. RfcTurn(<<"/">> \o (s \o next), output) = Turned(s, next, output)
    BY <1>2, <1>3, TurnTaken
  <2> QED
    BY <1>1, <1>2, <2>1 DEF slash
<1>9. new = <<left, out>>
  BY <1>8 DEF Turned, slash
<1>10. out = Slashed(on)
  BY <1>5
<1> HIDE DEF up, plainOut, out
<1>11. left = <<>> => rest = <<>> /\ ~directory /\ s \notin dots
  <2>1. slash # <<>>
    BY DEF slash
  <2> QED
    BY <1>3, <2>1
<1>12. left # <<>> => left = Slashed(rest) \o Closing(dir) /\ (dir \/ rest # <<>>)
  <2>1. CASE next # <<>>
    <3>1. left = next
      BY <2>1
    <3>2. Closing(dir) = Closing(directory)
      <4>1. dir <=> directory
        BY <1>3, <2>1
      <4> QED
        BY <4>1 DEF Closing
    <3> QED
      BY <1>3, <1>6, <2>1, <3>1, <3>2
  <2>2. CASE next = <<>>
    <3>1. ASSUME left # <<>> PROVE left = Slashed(rest) \o Closing(dir) /\ dir
      <4>1. s \in dots /\ left = slash /\ rest = <<>> /\ dir
        BY <1>3, <2>2, <3>1
      <4>2. Closing(dir) = slash
        BY <4>1 DEF Closing, slash
      <4>3. Slashed(rest) = <<>>
        <5>1. <<>> \in Seq(Seq(S)) /\ <<>> \in Seq(S)
          OBVIOUS
        <5> QED
          BY <4>1, <5>1, SlashedOneMore
      <4>4. <<>> \o slash = slash
        BY DEF slash
      <4> QED
        BY <4>1, <4>2, <4>3, <4>4
    <3> QED
      BY <3>1
  <2> QED
    BY <2>1, <2>2
<1>13. dir \in BOOLEAN
  OBVIOUS
<1>15. TurnedOut(S, goal, new)
  <2>1. CASE left = <<>>
    <3>1. on \o <<>> = on
      BY <1>5, ConcatEmptySeq
    <3>2. goal = Absolute(Walked(on), FALSE)
      BY <1>4, <1>11, <2>1, <3>1 DEF Onward, Absolute, on
    <3>3. Walked(on) = on
      <4>1. on \in Seq(Steps(S))
        BY <1>5, PlainStepsAreSteps
      <4> QED
        BY <1>5, <4>1, WalkedPlain
    <3>4. on # <<>>
      <4>1. s \notin dots
        BY <1>11, <2>1
      <4>2. on = Append(stack, s)
        BY <4>1, EnteredIsThere, PlainStepsAreSteps, <1>2 DEF on
      <4> QED
        BY <4>2
    <3>5. goal = Slashed(on)
      <4>1. on \in Seq(Seq(S)) /\ FALSE \in BOOLEAN
        BY <1>5, PlainStepsAreSteps, StepsAreTexts
      <4>2. Absolute(on, FALSE) = IF FALSE THEN Slashed(on) \o <<"/">> ELSE Slashed(on)
        BY <3>4, <4>1, AbsoluteIsSlashed
      <4> QED
        BY <3>2, <3>3, <4>2
    <3> HIDE DEF left
    <3> QED
      BY <1>9, <1>10, <2>1, <3>5 DEF TurnedOut
  <2>2. CASE left # <<>>
    <3>1. goal = Absolute(Walked(on \o rest), dir \/ Last(rest) \in dots)
      <4>1. /\ rest = <<>> => dir /\ (directory \/ s \in dots)
            /\ rest # <<>> => (dir <=> directory)
        BY <1>12, <2>2
      <4> QED
        BY <1>3, <1>4, <4>1 DEF Onward, Absolute, on
    <3>2. Under(S, goal, left, out, rest, dir, on)
      BY <1>10, <1>12, <2>2, <3>1 DEF Under
    <3> HIDE DEF left, dir
    <3>3. new[1] = left /\ new[2] = out
      BY <1>9
    <3> QED
      BY <1>2, <1>5, <1>13, <3>2, <3>3 DEF TurnedOut, OnTheWay
  <2> QED
    BY <2>1, <2>2
<1>16. left \in Seq(S) /\ input \in Seq(S) /\ Len(left) < Len(input)
  <2>1. input \in Seq(S) /\ FirstSegment(input, s, next)
    BY <1>1, <1>2, <1>7, SegmentFirst DEF slash
  <2>2. Len(input) = 1 + Len(s) + Len(next)
    BY <2>1 DEF FirstSegment
  <2>3. slash \in Seq(S) /\ Len(slash) = 1
    BY DEF slash
  <2>4. Len(s) \in Nat \ {0} /\ Len(next) \in Nat
    BY <1>2, <1>7
  <2>5. left = next \/ (left = slash /\ next = <<>>)
    OBVIOUS
  <2> HIDE DEF left
  <2>6. Len(left) = Len(next) \/ Len(left) = 1
    BY <2>3, <2>5
  <2> DEFINE a == Len(left)
             b == Len(next)
             c == Len(s)
             d == Len(input)
  <2>7. a < d
    <3>1. (a = b \/ a = 1) /\ d = 1 + c + b /\ c \in Nat \ {0} /\ b \in Nat
      BY <2>2, <2>4, <2>6
    <3> HIDE DEF a, b, c, d
    <3> QED
      BY <3>1
  <2> QED
    BY <1>2, <2>1, <2>3, <2>5, <2>7
<1> HIDE DEF left, new
<1> QED
  <2>1. new[1] = left /\ new[2] = out
    BY <1>9
  <2> QED
    BY <1>9, <1>15, <1>16, <2>1 DEF new, TurnedOn

\* What the loop can be at, if it is to end in a goal.
Ways(S, goal) == {pair \in Seq(S) \X Seq(S) : TurnedOut(S, goal, pair)}

LEMMA WayIsTaken ==
  ASSUME NEW S, "/" \in S, NEW goal \in Seq(S), NEW pair \in Ways(S, goal),
         NEW new, new = RfcTurn(pair[1], pair[2])
  PROVE  new \in Ways(S, goal) /\ (Len(new[1]) < Len(pair[1]) \/ new[1] = <<>>)
<1> DEFINE input == pair[1]
           output == pair[2]
           end == <<<<>>, goal>>
<1>1. /\ pair \in Seq(S) \X Seq(S)
      /\ pair = end \/ OnTheWay(S, goal, input, output)
  BY DEF Ways, TurnedOut
<1>2. end \in Ways(S, goal) /\ end[1] = <<>> /\ end[2] = goal
  <2> DEFINE nothing == <<>>
  <2>2. nothing \in Seq(S) /\ goal \in Seq(S)
    OBVIOUS
  <2> HIDE DEF nothing
  <2>3. <<nothing, goal>> \in Seq(S) \X Seq(S)
    BY <2>2
  <2>1. end \in Seq(S) \X Seq(S)
    BY <2>3 DEF nothing
  <2> QED
    BY <2>1 DEF Ways, TurnedOut
<1>3. CASE pair = end
  <2>1. input = <<>> /\ output = goal
    BY <1>3
  <2>2. RfcTurn(<<>>, goal) = <<<<>>, goal>>
    BY SlashTaken
  <2> QED
    BY <1>2, <1>3, <2>1, <2>2
<1>4. CASE OnTheWay(S, goal, input, output)
  <2>1. PICK todo \in Seq(Steps(S)), directory \in BOOLEAN, stack \in Seq(PlainSteps(S)) :
          Under(S, goal, input, output, todo, directory, stack)
    BY <1>4 DEF OnTheWay
  <2> HIDE DEF input, output
  <2>2. new = RfcTurn(input, output)
    BY DEF input, output
  <2>3. CASE todo = <<>>
    <3>1. Under(S, goal, input, output, <<>>, directory, stack)
      BY <2>1, <2>3
    <3>2. new = end
      BY <2>2, <3>1, LastTurn
    <3> QED
      BY <1>2, <3>2
  <2>4. CASE todo # <<>>
    <3>1. /\ TurnedOut(S, goal, new) /\ new[1] \in Seq(S) /\ Len(new[1]) < Len(input)
          /\ new = <<new[1], new[2]>>
      <4>1. TurnedOn(S, goal, input, RfcTurn(input, output))
        BY <2>1, <2>4, NextTurn
      <4> QED
        BY <2>2, <4>1 DEF TurnedOn
    <3>2. new = end \/ OnTheWay(S, goal, new[1], new[2])
      BY <3>1 DEF TurnedOut
    <3>3. ASSUME OnTheWay(S, goal, new[1], new[2]) PROVE new[2] \in Seq(S)
      <4>1. PICK stacked \in Seq(PlainSteps(S)) : new[2] = Slashed(stacked)
        BY <3>3 DEF OnTheWay, Under
      <4>2. stacked \in Seq(Seq(S)) /\ <<>> \in Seq(S)
        BY PlainStepsAreSteps, StepsAreTexts
      <4> QED
        BY <4>1, <4>2, SlashedOneMore
    <3>4. new[2] \in Seq(S)
      BY <1>2, <3>2, <3>3
    <3> DEFINE left == new[1]
               out == new[2]
    <3>5. left \in Seq(S) /\ out \in Seq(S) /\ new = <<left, out>>
      BY <3>1, <3>4
    <3> HIDE DEF left, out
    <3>6. new \in Seq(S) \X Seq(S)
      BY <3>5
    <3> QED
      BY <3>1, <3>6 DEF Ways, input
  <2> QED
    BY <2>3, <2>4
<1> QED
  BY <1>1, <1>3, <1>4

\* It is at its end when nothing is left.
LEMMA WayIsDone ==
  ASSUME NEW S, "/" \in S, NEW goal, NEW pair \in Ways(S, goal), pair[1] = <<>>
  PROVE  pair[2] = goal
<1> DEFINE input == pair[1]
           output == pair[2]
<1>1. pair = <<<<>>, goal>> \/ OnTheWay(S, goal, input, output)
  BY DEF Ways, TurnedOut
<1>2. ASSUME OnTheWay(S, goal, input, output) PROVE FALSE
  <2>1. PICK todo \in Seq(Steps(S)), directory \in BOOLEAN, stack \in Seq(PlainSteps(S)) :
          Under(S, goal, input, output, todo, directory, stack)
    BY <1>2 DEF OnTheWay
  <2> HIDE DEF input, output
  <2>2. input = Slashed(todo) \o Closing(directory) /\ (directory \/ todo # <<>>)
    BY <2>1 DEF Under
  <2>3. input = <<>> <=> todo = <<>> /\ ~directory
    BY <2>2, NextStep
  <2>4. input = <<>>
    BY DEF input
  <2> QED
    BY <2>2, <2>3, <2>4
<1> QED
  BY <1>1, <1>2

\* The function that RfcRemoveDots is defined by.
Turns(f, path) ==
  f = [n \in 0 .. Len(path) |-> IF n = 0 THEN <<path, <<>>>> ELSE RfcTurn(f[n - 1][1], f[n - 1][2])]

LEMMA TurnsExist ==
  ASSUME NEW S, "/" \in S, NEW path \in Seq(S), NEW goal \in Seq(S), <<path, <<>>>> \in Ways(S, goal)
  PROVE  \E f : Turns(f, path) /\ RfcRemoveDots(path) = f[Len(path)][2]
<1> DEFINE N == Len(path)
           T == Ways(S, goal)
           base == <<path, <<>>>>
           step == [x \in T \X (1 .. N) |-> RfcTurn(x[1][1], x[1][2])]
<1>1. N \in Nat /\ base \in T
  OBVIOUS
<1>2. step \in [T \X (1 .. N) -> T]
  <2>1. \A x \in T \X (1 .. N) : RfcTurn(x[1][1], x[1][2]) \in T
    <3> TAKE x \in T \X (1 .. N)
    <3> DEFINE pair == x[1]
               new == RfcTurn(pair[1], pair[2])
    <3>1. pair \in T
      OBVIOUS
    <3> HIDE DEF pair
    <3>2. new = RfcTurn(pair[1], pair[2])
      OBVIOUS
    <3> HIDE DEF new
    <3>3. new \in T
      BY <3>1, <3>2, WayIsTaken
    <3> QED
      BY <3>3 DEF new, pair
  <2> HIDE DEF T, N
  <2> QED
    BY <2>1
<1>3. PICK f \in [0 .. N -> T] : StepByStep(f, N, base, step)
  <2> HIDE DEF step, T, N, base
  <2> QED
    BY <1>1, <1>2, FoldExists
<1>4. f[0] = base /\ \A n \in 1 .. N : f[n] = RfcTurn(f[n - 1][1], f[n - 1][2])
  <2>1. f[0] = base /\ \A n \in 1 .. N : f[n] = step[<<f[n - 1], n>>]
    BY <1>3 DEF StepByStep
  <2>2. ASSUME NEW n \in 1 .. N PROVE f[n] = RfcTurn(f[n - 1][1], f[n - 1][2])
    <3>1. n - 1 \in 0 .. N
      BY <1>1
    <3>2. f[n - 1] \in T
      BY <1>3, <3>1
    <3>3. <<f[n - 1], n>> \in T \X (1 .. N)
      BY <3>2
    <3>4. step[<<f[n - 1], n>>] = RfcTurn(f[n - 1][1], f[n - 1][2])
      BY <3>3
    <3> QED
      BY <2>1, <3>4
  <2> QED
    BY <2>1, <2>2
<1>5. Turns(f, path)
  <2> DEFINE g == [n \in 0 .. N |-> IF n = 0 THEN base ELSE RfcTurn(f[n - 1][1], f[n - 1][2])]
  <2>1. N \in Nat
    BY <1>1
  <2> HIDE DEF N, base, T
  <2>2. \A n \in 0 .. N : f[n] = g[n]
    <3> TAKE n \in 0 .. N
    <3>1. n = 0 \/ n \in 1 .. N
      BY <2>1
    <3> QED
      BY <1>4, <3>1
  <2>3. DOMAIN f = 0 .. N /\ f = [n \in 0 .. N |-> f[n]]
    BY <1>3
  <2>4. f = g
    BY <2>2, <2>3
  <2> QED
    BY <2>4 DEF Turns, N, base
<1> DEFINE h == CHOOSE h : Turns(h, path)
<1>6. Turns(h, path)
  BY <1>5
<1>7. RfcRemoveDots(path) = h[N][2]
  BY DEF RfcRemoveDots, Turns
<1> QED
  BY <1>6, <1>7

\* At each turn the loop is on its way, and less is left than at the one before.
LEMMA TurnsArrive ==
  ASSUME NEW S, "/" \in S, NEW path \in Seq(S), NEW goal \in Seq(S), <<path, <<>>>> \in Ways(S, goal)
  PROVE  RfcRemoveDots(path) = goal
<1> DEFINE N == Len(path)
<1>1. PICK f : Turns(f, path) /\ RfcRemoveDots(path) = f[N][2]
  BY TurnsExist
<1>2. N \in Nat
  OBVIOUS
<1> DEFINE good == {n \in 0 .. N : f[n] \in Ways(S, goal) /\ Len(f[n][1]) <= N - n}
<1>3. f = [n \in 0 .. N |-> IF n = 0 THEN <<path, <<>>>> ELSE RfcTurn(f[n - 1][1], f[n - 1][2])]
  BY <1>1 DEF Turns
<1>4. 0 \in good
  <2>1. f[0] = <<path, <<>>>>
    <3>1. 0 \in 0 .. N
      BY <1>2
    <3> HIDE DEF N
    <3> QED
      BY <1>3, <3>1
  <2>2. f[0][1] = path
    BY <2>1
  <2>3. f[0] \in Ways(S, goal)
    BY <2>1
  <2>4. Len(f[0][1]) = N /\ N <= N - 0 /\ 0 \in 0 .. N
    BY <1>2, <2>2
  <2> HIDE DEF N
  <2> QED
    BY <2>3, <2>4
<1>5. ASSUME NEW n \in 0 .. N - 1, n \in good PROVE n + 1 \in good
  <2>1. n + 1 \in 0 .. N /\ n + 1 # 0 /\ (n + 1) - 1 = n
    BY <1>2
  <2> DEFINE was == f[n]
             new == f[n + 1]
  <2>2. new = RfcTurn(was[1], was[2])
    <3> HIDE DEF N
    <3> QED
      BY <1>3, <2>1
  <2>3. was \in Ways(S, goal) /\ Len(was[1]) <= N - n
    BY <1>5
  <2> HIDE DEF was, new, N
  <2>4. new \in Ways(S, goal) /\ (Len(new[1]) < Len(was[1]) \/ new[1] = <<>>)
    BY <2>2, <2>3, WayIsTaken
  <2>5. Len(new[1]) \in Nat /\ Len(was[1]) \in Nat
    BY <2>3, <2>4 DEF Ways
  <2>6. Len(new[1]) <= N - (n + 1)
    <3>1. new[1] = <<>> => Len(new[1]) = 0
      OBVIOUS
    <3> DEFINE a == Len(new[1])
               b == Len(was[1])
    <3>2. a \in Nat /\ b \in Nat /\ b <= N - n /\ (a < b \/ a = 0)
      BY <2>3, <2>4, <2>5, <3>1
    <3> HIDE DEF a, b
    <3>3. a <= N - (n + 1)
      BY <1>2, <2>1, <3>2
    <3> QED
      BY <3>3 DEF a
  <2> QED
    BY <2>1, <2>4, <2>6 DEF new
<1> HIDE DEF good, N
<1>6. 0 .. N \subseteq good
  BY <1>2, <1>4, <1>5, AllNumbers
<1>7. f[N] \in Ways(S, goal) /\ Len(f[N][1]) <= N - N
  BY <1>2, <1>6 DEF good
<1> DEFINE last == f[N]
<1>8. last[1] = <<>>
  <2>1. last[1] \in Seq(S)
    BY <1>7 DEF Ways
  <2>2. Len(last[1]) <= 0
    BY <1>2, <1>7
  <2> QED
    BY <2>1, <2>2
<1>9. last[2] = goal
  <2>1. last \in Ways(S, goal)
    BY <1>7
  <2> HIDE DEF last
  <2> QED
    BY <1>8, <2>1, WayIsDone
<1> QED
  BY <1>1, <1>9 DEF N

\* The loop and remove_dot_segments() make the same of a path without empty segments.
LEMMA DotsRemovedAlike ==
  ASSUME NEW S, "/" \in S, NEW path \in Seq(S), path # <<>>, path[1] = "/", ~HasEmptySegment(path)
  PROVE  RfcRemoveDots(path) = RemoveDotSegments(path)
<1> DEFINE goal == RemoveDotSegments(path)
           todo == Segments(path)
           directory == Last(path) = "/"
           nothing == <<>>
<1>1. goal \in Seq(S)
  <2>1. CleanPath(S, goal)
    BY RemovedIsClean
  <2> HIDE DEF goal
  <2> QED
    BY <2>1, CleanIsPath
<1>2. path = Slashed(todo) \o Closing(directory)
  BY PathIsSlashed
<1>3. todo \in Seq(Steps(S)) /\ (directory \/ todo # <<>>) /\ directory \in BOOLEAN
  BY SplitWords DEF Segments, Steps
<1>4. Slashed(nothing) = nothing /\ nothing \o todo = todo /\ nothing \in Seq(PlainSteps(S)) /\ nothing \in Seq(S)
  <2>1. nothing \in Seq(Seq(S)) /\ nothing \in Seq(S) /\ nothing \in Seq(PlainSteps(S))
    OBVIOUS
  <2> HIDE DEF todo
  <2>2. <<>> \o todo = todo
    BY <1>3, ConcatEmptySeq
  <2> QED
    BY <2>1, <2>2, SlashedOneMore
<1>5. goal = Absolute(Walked(todo), directory \/ Last(todo) \in {Dot, DotDot})
  BY DEF RemoveDotSegments
<1> HIDE DEF goal, todo, directory, nothing
<1>6. Under(S, goal, path, nothing, todo, directory, nothing)
  BY <1>2, <1>3, <1>4, <1>5 DEF Under
<1> DEFINE first == <<path, nothing>>
<1>7. first \in Ways(S, goal)
  <2>1. first \in Seq(S) \X Seq(S) /\ first[1] = path /\ first[2] = nothing
    BY <1>4
  <2>2. OnTheWay(S, goal, path, nothing)
    BY <1>3, <1>4, <1>6 DEF OnTheWay
  <2> HIDE DEF first
  <2> QED
    BY <2>1, <2>2 DEF Ways, TurnedOut
<1> QED
  BY <1>1, <1>7, TurnsArrive DEF goal, nothing

-----------------------------------------------------------------------------
(* References.                                                             *)

\* Where two paths without empty segments meet, one may come about.
LEMMA NoneWhereTheyMeet ==
  ASSUME NEW S, NEW a \in Seq(S), NEW b \in Seq(S), ~HasEmptySegment(a), ~HasEmptySegment(b),
         a # <<>> /\ b # <<>> => ~(Last(a) = "/" /\ b[1] = "/")
  PROVE  ~HasEmptySegment(a \o b)
<1> DEFINE m == Len(a)
           n == Len(b)
           text == a \o b
           slash == "/"
<1>1. m \in Nat /\ n \in Nat /\ (m # 0 => a # <<>>) /\ (n # 0 => b # <<>>) /\ Last(a) = a[m]
  BY DEF Last
<1>2. /\ Len(text) = m + n
      /\ \A i \in 1 .. m + n : text[i] = IF i <= m THEN a[i] ELSE b[i - m]
  BY ConcatProperties
<1>3. /\ \A i \in 2 .. m : ~(a[i] = slash /\ a[i - 1] = slash)
      /\ \A i \in 2 .. n : ~(b[i] = slash /\ b[i - 1] = slash)
  BY DEF HasEmptySegment
<1> HIDE DEF text, m, n
<1>4. ASSUME NEW i \in 2 .. m + n, text[i] = slash, text[i - 1] = slash PROVE FALSE
  <2>1. i \in 1 .. m + n /\ i - 1 \in 1 .. m + n
    BY <1>1
  <2>2. CASE i <= m
    <3>1. i \in 2 .. m /\ i - 1 <= m
      BY <1>1, <2>2
    <3>2. text[i] = a[i] /\ text[i - 1] = a[i - 1]
      BY <1>2, <2>1, <2>2, <3>1
    <3> QED
      BY <1>3, <1>4, <3>1, <3>2
  <2>3. CASE i = m + 1
    <3>1. m # 0 /\ n # 0 /\ i - 1 = m /\ i - m = 1 /\ ~(i <= m) /\ m <= m
      BY <1>1, <2>3
    <3>2. text[i] = b[1] /\ text[i - 1] = a[m]
      BY <1>2, <2>1, <3>1
    <3>3. a[m] = slash /\ b[1] = slash
      BY <1>4, <3>2
    <3> QED
      BY <1>1, <3>1, <3>3
  <2>4. CASE i > m + 1
    <3>1. i - m \in 2 .. n /\ ~(i <= m) /\ ~(i - 1 <= m) /\ (i - 1) - m = (i - m) - 1
      BY <1>1, <2>4
    <3>2. text[i] = b[i - m] /\ text[i - 1] = b[(i - m) - 1]
      BY <1>2, <2>1, <3>1
    <3> QED
      BY <1>3, <1>4, <3>1, <3>2
  <2> QED
    BY <1>1, <2>2, <2>3, <2>4
<1> QED
  BY <1>2, <1>4 DEF HasEmptySegment, text

\* There is none between segments.
LEMMA SlashedHasNone ==
  ASSUME NEW S, "/" \in S, NEW segments \in Seq(Steps(S))
  PROVE  /\ ~HasEmptySegment(Slashed(segments))
         /\ segments # <<>> => Last(Slashed(segments)) # "/"
<1> DEFINE slash == "/"
           one == <<slash>>
           Fine(list) == ~HasEmptySegment(Slashed(list)) /\ (list # <<>> => Last(Slashed(list)) # slash)
           T == {list \in Seq(Steps(S)) : Fine(list)}
<1>1. /\ \A text \in Seq(S) : (\A i \in 1 .. Len(text) : text[i] # slash) => ~HasEmptySegment(text)
      /\ ~HasEmptySegment(<<>>) /\ ~HasEmptySegment(one)
  <2>1. ASSUME NEW text \in Seq(S), \A i \in 1 .. Len(text) : text[i] # slash PROVE ~HasEmptySegment(text)
    <3>1. \A i \in 2 .. Len(text) : i \in 1 .. Len(text)
      OBVIOUS
    <3> QED
      BY <2>1, <3>1 DEF HasEmptySegment
  <2>2. ~HasEmptySegment(<<>>) /\ ~HasEmptySegment(one)
    BY DEF HasEmptySegment
  <2> QED
    BY <2>1, <2>2
<1>2. <<>> \in T
  <2>1. <<>> \in Seq(Seq(S)) /\ <<>> \in Seq(S) /\ <<>> \in Seq(Steps(S))
    OBVIOUS
  <2>2. Slashed(<<>>) = <<>>
    BY <2>1, SlashedOneMore
  <2> QED
    BY <1>1, <2>1, <2>2
<1>3. ASSUME NEW list \in Seq(Steps(S)), list \in T, NEW s \in Steps(S) PROVE Append(list, s) \in T
  <2> DEFINE a == Slashed(list)
             b == one \o s
  <2>1. s \in Seq(S \ {slash}) /\ s \in Seq(S) /\ s # <<>> /\ list \in Seq(Seq(S))
    BY StepsAreTexts DEF Steps, WordsOver
  <2>2. a \in Seq(S) /\ Slashed(Append(list, s)) = a \o b
    BY <2>1, SlashedOneMore
  <2>3. \A i \in 1 .. Len(s) : s[i] # slash
    <3>1. \A i \in 1 .. Len(s) : s[i] \in S \ {slash}
      BY <2>1
    <3> QED
      BY <3>1
  <2>4. ~HasEmptySegment(s) /\ s[1] # slash /\ Last(s) # slash
    <3>1. 1 \in 1 .. Len(s) /\ Len(s) \in 1 .. Len(s)
      BY <2>1
    <3> QED
      BY <1>1, <2>1, <2>3, <3>1 DEF Last
  <2>5. one \in Seq(S)
    OBVIOUS
  <2> HIDE DEF one, slash
  <2>6. ~HasEmptySegment(b)
    BY <1>1, <2>1, <2>4, <2>5, NoneWhereTheyMeet DEF slash
  <2>7. b \in Seq(S) /\ b # <<>> /\ Last(b) # slash
    <3>1. b \in Seq(S)
      BY <2>1, <2>5, ConcatProperties
    <3>2. b # <<>> /\ Last(b) = Last(s)
      BY <2>1, <2>5, ConcatEnds
    <3> QED
      BY <2>4, <3>1, <3>2
  <2>8. ~HasEmptySegment(a) /\ (a # <<>> => Last(a) # slash)
    <3>1. list = <<>> => a = <<>>
      BY <2>1, SlashedOneMore
    <3> QED
      BY <1>3, <3>1
  <2> HIDE DEF a, b
  <2>9. ~HasEmptySegment(a \o b)
    BY <2>2, <2>6, <2>7, <2>8, NoneWhereTheyMeet DEF slash
  <2>10. Last(a \o b) = Last(b)
    BY <2>2, <2>7, ConcatEnds
  <2>11. Append(list, s) \in Seq(Steps(S))
    BY AppendProperties
  <2> QED
    BY <2>2, <2>7, <2>9, <2>10, <2>11
<1> HIDE DEF T
<1>4. Seq(Steps(S)) \subseteq T
  BY <1>2, <1>3, AllSequences
<1> QED
  BY <1>4 DEF T

LEMMA CleanHasNone ==
  ASSUME NEW S, "/" \in S, NEW path, CleanPath(S, path)
  PROVE  ~HasEmptySegment(path)
<1>1. PICK segments \in Seq(PlainSteps(S)), directory \in BOOLEAN : path = Absolute(segments, directory)
  BY DEF CleanPath
<1> DEFINE begun == Slashed(segments)
           one == <<"/">>
<1>2. segments \in Seq(Steps(S)) /\ segments \in Seq(Seq(S)) /\ one \in Seq(S)
  BY PlainStepsAreSteps, StepsAreTexts
<1>3. ~HasEmptySegment(begun) /\ (segments # <<>> => Last(begun) # "/") /\ begun \in Seq(S)
  <2>1. begun \in Seq(S)
    BY <1>2, SlashedOneMore
  <2> QED
    BY <1>2, <2>1, SlashedHasNone
<1>4. ~HasEmptySegment(one)
  BY DEF HasEmptySegment
<1>5. path = one \/ path = begun \/ (segments # <<>> /\ path = begun \o one)
  BY <1>1, <1>2, AbsoluteIsSlashed
<1>6. segments # <<>> => ~HasEmptySegment(begun \o one)
  <2> HIDE DEF begun, one
  <2> QED
    BY <1>2, <1>3, <1>4, NoneWhereTheyMeet
<1> QED
  BY <1>3, <1>4, <1>5, <1>6

\* What a reference is put behind ends in a slash.
LEMMA MergedHasNone ==
  ASSUME NEW S, "/" \in S, NEW path, CleanPath(S, path), NEW rest \in Seq(S), rest # <<>>,
         rest[1] # "/", ~HasEmptySegment(rest), NEW merged,
         merged = Before(path, RFind(path, "/") + 1) \o rest
  PROVE  merged \in Seq(S) /\ merged # <<>> /\ merged[1] = "/" /\ ~HasEmptySegment(merged)
<1> DEFINE slash == "/"
           k == RFind(path, slash)
           n == Len(path)
           front == SubSeq(path, 1, k)
<1>1. path \in Seq(S) /\ path # <<>> /\ path[1] = slash /\ ~HasEmptySegment(path)
  <2>1. path \in Seq(S) /\ path # <<>> /\ path[1] = slash
    BY CleanIsPath
  <2> QED
    BY <2>1, CleanHasNone
<1>2. k \in 0 .. n /\ (k # 0 => path[k] = slash) /\ (\A i \in k + 1 .. n : path[i] # slash)
  <2> HIDE DEF slash
  <2>1. k \in 0 .. n /\ (k # 0 => path[k] = slash)
    BY <1>1, FindLast
  <2>2. \A i \in k + 1 .. n : path[i] # slash
    BY <1>1, LastIsLast
  <2> QED
    BY <2>1, <2>2
<1> HIDE DEF k
<1>3. n \in Nat \ {0} /\ k \in 1 .. n
  <2>1. n \in Nat \ {0}
    BY <1>1
  <2>2. k # 0
    <3>1. 1 \in 0 + 1 .. n
      BY <2>1
    <3> QED
      BY <1>1, <1>2, <3>1
  <2> QED
    BY <1>2, <2>1, <2>2
<1>4. front \in Seq(S) /\ Len(front) = k /\ \A i \in 1 .. k : front[i] = path[i]
  <2>1. k \in 0 .. Len(path)
    BY <1>2
  <2> QED
    BY <1>1, <2>1, CutInTwo
<1>5. Before(path, k + 1) = front
  <2>1. (k + 1) - 1 = k
    BY <1>3
  <2> QED
    BY <2>1 DEF Before
<1> HIDE DEF front
<1>6. front # <<>> /\ front[1] = slash
  BY <1>1, <1>3, <1>4
<1>7. ~HasEmptySegment(front)
  <2>1. ASSUME NEW i \in 2 .. k, front[i] = slash, front[i - 1] = slash PROVE FALSE
    <3>1. i \in 2 .. n /\ i \in 1 .. k /\ i - 1 \in 1 .. k
      BY <1>3
    <3>2. path[i] = slash /\ path[i - 1] = slash
      BY <1>4, <2>1, <3>1
    <3> QED
      BY <1>1, <3>1, <3>2 DEF HasEmptySegment
  <2> QED
    BY <1>4, <2>1 DEF HasEmptySegment
<1>8. ~HasEmptySegment(front \o rest)
  BY <1>4, <1>7, NoneWhereTheyMeet
<1>9. front \o rest # <<>> /\ (front \o rest)[1] = slash /\ front \o rest \in Seq(S)
  BY <1>4, <1>6, ConcatEnds, ConcatProperties
<1> QED
  BY <1>5, <1>8, <1>9 DEF k

\* The path that the code gives a reference, and the one of RFC 3986.
LEMMA PathsAgree ==
  ASSUME NEW S, "/" \in S, NEW base, CleanPath(S, base.path), NEW rest \in Seq(S), ~HasEmptySegment(rest)
  PROVE  RemoveDotSegments(IF StartsWith(Merge(base, rest), <<"/">>) THEN Merge(base, rest)
                           ELSE <<"/">> \o Merge(base, rest))
         = RfcPath(base, rest)
<1> DEFINE path == base.path
           front == Before(path, RFind(path, "/") + 1)
           one == <<"/">>
           merged == Merge(base, rest)
           begun == IF StartsWith(merged, one) THEN merged ELSE one \o merged
<1>1. path \in Seq(S) /\ path # <<>> /\ path[1] = "/"
  <2> HIDE DEF path
  <2>1. CleanPath(S, path)
    BY DEF path
  <2> QED
    BY <2>1, CleanIsPath
<1>2. /\ StartsWith(path, one)
      /\ StartsWith(rest, one) <=> rest # <<>> /\ rest[1] = "/"
  <2> HIDE DEF path
  <2> QED
    BY <1>1, BeginsWithOne
<1>3. CASE rest = <<>>
  <2>1. merged = path /\ RfcPath(base, rest) = path
    BY <1>2, <1>3 DEF Merge, RfcPath
  <2>2. begun = path
    BY <1>2, <2>1
  <2>3. RemoveDotSegments(path) = path
    <3> HIDE DEF path
    <3>1. CleanPath(S, path)
      BY DEF path
    <3> QED
      BY <3>1, CleanStays
  <2> QED
    BY <2>1, <2>2, <2>3
<1>4. CASE rest # <<>> /\ rest[1] = "/"
  <2>1. merged = rest /\ RfcPath(base, rest) = RfcRemoveDots(rest)
    BY <1>2, <1>4 DEF Merge, RfcPath
  <2>2. begun = rest
    BY <1>2, <1>4, <2>1
  <2>3. RfcRemoveDots(rest) = RemoveDotSegments(rest)
    BY <1>4, DotsRemovedAlike
  <2> QED
    BY <2>1, <2>2, <2>3
<1>5. CASE rest # <<>> /\ rest[1] # "/"
  <2>1. merged = front \o rest /\ RfcPath(base, rest) = RfcRemoveDots(front \o rest)
    BY <1>2, <1>5 DEF Merge, RfcPath
  <2>2. merged \in Seq(S) /\ merged # <<>> /\ merged[1] = "/" /\ ~HasEmptySegment(merged)
    <3> HIDE DEF path, merged
    <3>1. CleanPath(S, path) /\ merged = Before(path, RFind(path, "/") + 1) \o rest
      BY <2>1 DEF path
    <3> QED
      BY <1>5, <3>1, MergedHasNone
  <2> HIDE DEF merged
  <2>3. StartsWith(merged, one)
    BY <2>2, BeginsWithOne
  <2>4. RfcRemoveDots(merged) = RemoveDotSegments(merged)
    BY <2>2, DotsRemovedAlike
  <2> QED
    BY <2>1, <2>3, <2>4 DEF merged
<1> QED
  BY <1>3, <1>4, <1>5

\* A reference of no scheme and no authority.
AsRfc(url, base, rest, query, fragment) ==
  url = [base EXCEPT !.path = RfcPath(base, rest),
                     !.query = IF rest = <<>> /\ query = None THEN base.query
                               ELSE IF query = <<>> THEN None ELSE query,
                     !.fragment = fragment]

LEMMA ResolvedLikeRfc ==
  ASSUME NEW S, "/" \in S, NEW base, UrlOver(S, base), IsHttp(base), NEW text \in Seq(S),
         SchemeEnd(text) = 0, ~StartsWith(text, <<"/", "/">>),
         NEW rest, rest = PathPart(text), ~HasEmptySegment(rest), NEW query, query = QueryPart(text),
         NEW fragment, fragment = FragmentPart(text)
  PROVE  AsRfc(ResolveText(base, text), base, rest, query, fragment)
<1> DEFINE P == S \ {"?", "#"}
           asked == IF rest = <<>> /\ query = None THEN base.query ELSE query
           path == Merge(base, rest)
           url == [[base EXCEPT !.query = query, !.fragment = fragment]
                     EXCEPT !.path = path, !.query = asked]
           begun == IF StartsWith(path, <<"/">>) THEN path ELSE <<"/">> \o path
           port == IF base.port = DefaultPort[base.scheme] THEN 0 ELSE base.port
           clean == RemoveDotSegments(begun)
           kept == IF asked = <<>> THEN None ELSE asked
<1>1. ResolveText(base, text) = Accepted(url)
  BY DEF ResolveText, Relatively
<1>2. /\ base \in UrlParts(S) /\ base.host # <<>> /\ CleanPath(P, base.path)
      /\ base.port # 0 => base.port # DefaultPort[base.scheme]
      /\ base.query = <<>> => None = <<>>
  BY DEF UrlOver
<1>3. "/" \in P /\ rest \in Seq(P)
  <2>1. "/" \in P
    OBVIOUS
  <2> QED
    BY <2>1, PartsAreTexts
<1>4. clean = RfcPath(base, rest)
  <2> HIDE DEF P
  <2> QED
    BY <1>2, <1>3, PathsAgree
<1>5. port = base.port
  BY <1>2
<1>6. kept = IF rest = <<>> /\ query = None THEN base.query ELSE IF query = <<>> THEN None ELSE query
  BY <1>2
<1> HIDE DEF path, asked
<1>7. url.scheme = base.scheme /\ url.host = base.host /\ url.path = path /\ url.query = asked /\ url.port = base.port
  BY <1>2 DEF UrlParts
<1>8. Accepted(url) = [url EXCEPT !.port = port, !.path = clean, !.query = kept]
  <2>1. IsHttp(url) /\ url.host # <<>>
    BY <1>2, <1>7 DEF IsHttp
  <2>2. Accepted(url) = Normalize(url)
    BY <2>1 DEF Accepted
  <2> HIDE DEF url
  <2>3. Normalize(url) =
          [url EXCEPT !.port = IF url.port = DefaultPort[url.scheme] THEN 0 ELSE url.port,
                      !.path = RemoveDotSegments(IF StartsWith(url.path, <<"/">>) THEN url.path
                                                 ELSE <<"/">> \o url.path),
                      !.query = IF url.query = <<>> THEN None ELSE url.query]
    BY <2>1 DEF Normalize
  <2> QED
    BY <1>7, <2>2, <2>3
<1> HIDE DEF port, clean, kept
<1>9. [url EXCEPT !.port = port, !.path = clean, !.query = kept]
        = [base EXCEPT !.path = clean, !.query = kept, !.fragment = fragment]
  BY <1>2, <1>5 DEF UrlParts
<1> QED
  BY <1>1, <1>4, <1>6, <1>8, <1>9 DEF AsRfc

\* A reference without a scheme or an authority leads where RFC 3986 says, as long as no two
\* slashes stand side by side in it: the code takes the path apart and walks its segments
\* with a stack, the RFC moves the path over, a segment at a turn.
THEOREM ReferencesResolveLikeRfc == ASSUME HttpDocuments PROVE AddressSpec => []ResolvesAsRfc
<1>1. AddressInv => ResolvesAsRfc
  <2> SUFFICES ASSUME AddressInv PROVE ResolvesAsRfc
    OBVIOUS
  <2> DEFINE S == Characters \cup {"/"}
             text == StripWhitespace(reference)
             rest == Head1(Head1(text, "#"), "?")
             query == Rest1(Head1(text, "#"), "?")
             fragment == Rest1(text, "#")
  <2>1. "/" \in S /\ UrlOver(S, document) /\ IsHttp(document) /\ reference \in Seq(S)
    BY DEF AddressInv
  <2> HIDE DEF S
  <2>2. text \in Seq(S)
    BY <2>1, StrippedIsText
  <2>3. rest = PathPart(text) /\ query = QueryPart(text) /\ fragment = FragmentPart(text)
    BY DEF PathPart, QueryPart, FragmentPart
  <2>4. Target = ResolveText(document, text)
    BY DEF Target, ResolveUrl
  <2> HIDE DEF text, rest, query, fragment
  <2>5. ASSUME SchemeEnd(text) = 0, ~StartsWith(text, <<"/", "/">>), ~HasEmptySegment(rest)
        PROVE  Target = [document EXCEPT !.path = RfcPath(document, rest),
                                         !.query = IF rest = <<>> /\ query = None THEN @
                                                   ELSE IF query = <<>> THEN None ELSE query,
                                         !.fragment = fragment]
    <3>1. AsRfc(ResolveText(document, text), document, rest, query, fragment)
      BY <2>1, <2>2, <2>3, <2>5, ResolvedLikeRfc
    <3> QED
      BY <2>4, <3>1 DEF AsRfc
  <2> QED
    BY <2>5 DEF ResolvesAsRfc, text, rest, query, fragment
<1> QED
  BY <1>1, AddressesAreUrls, PTL

-----------------------------------------------------------------------------
(* Pages kept apart.                                                       *)

\* A text that sanitize_path_component() keeps, but for the mark of a device.
FairName(S, name) ==
  name \in Seq(S \ Forbidden) /\ name # <<>> /\ name[1] # Underscore /\ Last(name) \notin Dropped

LEMMA FairNameStays ==
  ASSUME NEW S, NEW name, FairName(S, name)
  PROVE  Named(name) = Undeviced(name)
<1>1. /\ DOMAIN name = 1 .. Len(name) /\ Len(name) \in Nat \ {0} /\ name \in Seq(S \ Forbidden)
      /\ \A i \in 1 .. Len(name) : name[i] \notin Forbidden
  BY DEF FairName
<1>2. Clean(name) = name
  <2>1. Clean(name) = [i \in 1 .. Len(name) |-> name[i]]
    BY <1>1 DEF Clean
  <2> QED
    BY <1>1, <2>1
<1>3. name[Len(name)] \notin Dropped
  BY DEF FairName, Last
<1>4. Trimmed(name) = name
  <2> DEFINE kept == {i \in 1 .. Len(name) : name[i] \notin Dropped}
             last == CHOOSE i \in kept : \A j \in kept : i >= j
  <2>1. Len(name) \in kept /\ kept # {}
    BY <1>1, <1>3
  <2>2. \A j \in kept : Len(name) >= j
    BY <1>1
  <2>3. last \in kept /\ last >= Len(name)
    BY <2>1, <2>2
  <2>4. last = Len(name)
    BY <1>1, <2>3
  <2>5. Trimmed(name) = SubSeq(name, 1, last)
    BY <1>1, <2>1 DEF Trimmed
  <2> QED
    BY <1>1, <2>4, <2>5, SubSeqFull
<1>5. name # <<".">> /\ name # <<".", ".">>
  <2>1. "." \in Dropped
    BY DEF Dropped
  <2> QED
    BY <1>3, <2>1
<1>6. Undeviced(name) # <<>>
  <2>1. CASE Undeviced(name) = name
    BY <1>1, <2>1
  <2>2. CASE Undeviced(name) = <<Underscore>> \o name
    <3>1. Undeviced(name)[1] = Underscore /\ Len(<<Underscore>> \o name) = 1 + Len(name)
      BY <1>1, <2>2
    <3> QED
      BY <1>1, <2>2, <3>1
  <2> QED
    BY <2>1, <2>2 DEF Undeviced
<1>7. Named(name) =
        CASE Clean(name) = <<".">>      -> <<Underscore, "dot">>
          [] Clean(name) = <<".", ".">> -> <<Underscore, "dotdot">>
          [] OTHER -> IF Undeviced(Marked(Clean(name))) = <<>> THEN <<Underscore>>
                      ELSE Undeviced(Marked(Clean(name)))
  BY DEF Named, Clean, Marked, Undeviced
<1>8. Marked(Clean(name)) = name
  BY <1>2, <1>4 DEF Marked
<1> QED
  BY <1>2, <1>5, <1>6, <1>7, <1>8

\* A name that comes out shorter than the limit has not been cut.
LEMMA ShortIsUncut ==
  ASSUME NEW S, NEW name \in Seq(S), Len(Cut(name)) < NameLimit
  PROVE  Cut(name) = name
<1>1. ~ (Len(name) > NameLimit)
  <2> SUFFICES ASSUME Len(name) > NameLimit PROVE FALSE
    OBVIOUS
  <2>1. Len(Cut(name)) = NameLimit
    BY CutIs
  <2> QED
    BY <2>1, NameLimits
<1>2. Len(name) <= NameLimit
  BY <1>1, NameLimits
<1> QED
  BY <1>2 DEF Cut

\* Two such texts are stored under two names, if they are not cut.
LEMMA FairNamesApart ==
  ASSUME NEW S, NEW a, FairName(S, a), NEW b, FairName(S, b),
         Sanitize(a) = Sanitize(b), Len(Sanitize(a)) < NameLimit
  PROVE  a = b
<1> DEFINE C == S \ Forbidden
           one == <<Underscore>>
<1>1. /\ a \in Seq(C \cup {Underscore}) /\ a # <<>> /\ a[1] # Underscore
      /\ b \in Seq(C \cup {Underscore}) /\ b # <<>> /\ b[1] # Underscore
  BY MoreCharacters DEF FairName
<1>2. one \in Seq(C \cup {Underscore}) /\ one # <<>> /\ one[1] = Underscore
  OBVIOUS
<1> HIDE DEF C, one
<1>3. (one \o a)[1] = Underscore /\ (one \o b)[1] = Underscore
  BY <1>1, <1>2, ConcatEnds
<1>4. Undeviced(a) = Undeviced(b)
  <2>1. Undeviced(a) \in Seq(C \cup {Underscore}) /\ Undeviced(b) \in Seq(C \cup {Underscore})
    <3>1. one \o a \in Seq(C \cup {Underscore}) /\ one \o b \in Seq(C \cup {Underscore})
      BY <1>1, <1>2, ConcatProperties
    <3> QED
      BY <1>1, <3>1 DEF Undeviced, one
  <2>2. Sanitize(a) = Undeviced(a) /\ Sanitize(b) = Undeviced(b)
    BY <2>1, FairNameStays, ShortIsUncut DEF Sanitize
  <2> QED
    BY <2>2
<1>5. Undeviced(a) \in {a, one \o a} /\ Undeviced(b) \in {b, one \o b}
  BY DEF Undeviced, one
<1>6. a = b \/ one \o a = one \o b
  BY <1>1, <1>3, <1>4, <1>5
<1> QED
  BY <1>1, <1>2, <1>6, ConcatSimplifications

\* A name that is stored as it is, and has no mark in it.
LEMMA KeptIsFair ==
  ASSUME NEW S, NEW name \in Seq(S), Sanitize(name) = name, Len(name) < NameLimit,
         \A i \in 1 .. Len(name) : name[i] # Underscore
  PROVE  FairName(S, name)
<1> DEFINE T == S \cup {Underscore}
<1>1. name \in Seq(T) /\ Underscore \in T
  BY MoreCharacters
<1> HIDE DEF T
<1>2. SafeName(name) /\ EndsWell(name)
  BY <1>1, SanitizeIsSafe
<1>3. name # <<>> /\ Last(name) \notin Dropped /\ \A i \in 1 .. Len(name) : name[i] \notin Forbidden
  BY <1>2, NameLimits DEF SafeName, EndsWell
<1>4. name \in [1 .. Len(name) -> S \ Forbidden] /\ Len(name) \in Nat
  BY <1>3
<1>5. name \in Seq(S \ Forbidden)
  BY <1>4, FunctionIsSeq
<1>6. name[1] # Underscore
  BY <1>3
<1> QED
  BY <1>3, <1>5, <1>6 DEF FairName

Index == <<"index", ".", "html">>

\* The name of a file before it is stored: of a page that is called so, or of a directory.
PageName(S, name) ==
  /\ FairName(S, name) /\ \A i \in 1 .. Len(name) : name[i] # "@"
  /\ name = Index \/ \A i \in 1 .. Len(name) : name[i] \notin {"html", "index"}

\* The ending that a page gets, and the text in which its query is put in front of the
\* extension.
HtmlAdded(name) == IF IsHtml(Ending(name)) THEN <<>> ELSE <<".", "html">>

Ended(name) == Ending(name) \o HtmlAdded(name)
Hashed(query) == IF query \in {None, <<>>} THEN <<>> ELSE <<"@", ShortHash(query)>>
PageText(name, query) == Stem(name) \o (Hashed(query) \o Ended(name))

\* Characters of such a text, but for the query.
LEMMA PageParts ==
  ASSUME NEW S, NEW name, PageName(S, name),
         NEW C, S \ (Forbidden \cup {"@"}) \subseteq C, "." \in C, "html" \in C
  PROVE  /\ Stem(name) \in Seq(C) /\ Stem(name) # <<>> /\ Stem(name)[1] = name[1]
         /\ Ended(name) \in Seq(C) /\ Ended(name) # <<>> /\ Last(Ended(name)) \notin Dropped
         /\ HtmlAdded(name) \in {<<>>, <<".", "html">>}
         /\ name \in Seq(C) /\ name # <<>>
         /\ Stem(name) \o Ended(name) = name \o HtmlAdded(name)
<1> DEFINE extension == Ending(name)
           added == HtmlAdded(name)
<1>1. name \in Seq(C) /\ name # <<>>
  <2>1. name \in [1 .. Len(name) -> S \ Forbidden] /\ Len(name) \in Nat /\ name # <<>>
    BY DEF PageName, FairName
  <2>2. \A i \in 1 .. Len(name) : name[i] # "@"
    BY DEF PageName
  <2>3. name \in [1 .. Len(name) -> C]
    BY <2>1, <2>2
  <2> QED
    BY <2>1, <2>3, FunctionIsSeq
<1>3. added \in {<<>>, <<".", "html">>} /\ added \in Seq(C)
  <2>1. <<".", "html">> \in Seq(C)
    OBVIOUS
  <2> QED
    BY <2>1 DEF HtmlAdded
<1>4. added = <<>> => Len(extension) = 2
  <2>1. <<".", "html">> # <<>>
    OBVIOUS
  <2> QED
    BY <2>1 DEF HtmlAdded, IsHtml
<1> HIDE DEF added
<1>5. /\ Stem(name) \in Seq(C) /\ Stem(name) # <<>> /\ Stem(name)[1] = name[1]
      /\ extension \in Seq(C) /\ Stem(name) \o extension = name
  BY <1>1, EndingIs
<1>7. Ended(name) = extension \o added
  BY DEF Ended, added
<1> HIDE DEF extension
<1>8. Ended(name) \in Seq(C) /\ Stem(name) \o Ended(name) = name \o added
  <2> DEFINE stem == Stem(name)
  <2>1. stem \in Seq(C) /\ extension \in Seq(C) /\ added \in Seq(C)
    BY <1>3, <1>5
  <2> HIDE DEF stem
  <2>2. (stem \o extension) \o added = stem \o (extension \o added)
    BY <2>1, ConcatAssociative
  <2> QED
    BY <1>3, <1>5, <1>7, <2>2, ConcatProperties DEF stem
<1>9. Ended(name) # <<>> /\ Last(Ended(name)) \notin Dropped
  <2>1. CASE added = <<".", "html">>
    <3>1. added # <<>> /\ Last(added) = "html" /\ "html" \notin Dropped
      BY <2>1 DEF Last, Dropped, Space
    <3> QED
      BY <1>3, <1>5, <1>7, <3>1, ConcatEnds
  <2>2. CASE added = <<>>
    <3>1. Len(extension) = 2 /\ extension # <<>>
      <4>1. Len(extension) = 2 /\ Len(<<>>) = 0
        BY <1>4, <2>2
      <4> QED
        BY <4>1
    <3>2. Ended(name) = extension
      BY <1>5, <1>7, <2>2, ConcatEmptySeq
    <3> DEFINE stem == Stem(name)
    <3>3. stem \in Seq(C) /\ stem \o extension = name
      BY <1>5
    <3> HIDE DEF stem
    <3>4. Last(extension) = Last(name)
      BY <1>5, <3>1, <3>3, ConcatEnds
    <3> QED
      BY <3>1, <3>2, <3>4 DEF PageName, FairName
  <2> QED
    BY <1>3, <2>1, <2>2
<1> QED
  BY <1>1, <1>3, <1>5, <1>8, <1>9 DEF added

LEMMA LeafIsPageText ==
  ASSUME NEW S, NEW name, PageName(S, name), NEW query, ShortHash(query) \notin Forbidden
  PROVE  /\ Leaf(name, query, "html") = Sanitize(PageText(name, query))
         /\ FairName(S \cup {"@", ".", "html", ShortHash(query)}, PageText(name, query))
<1> DEFINE T == S \cup {"@", ".", "html", ShortHash(query)}
           C == T \ Forbidden
           hash == Hashed(query)
           stem == Stem(name)
           ended == Ended(name)
<1>1. "@" \in C /\ "." \in C /\ "html" \in C /\ ShortHash(query) \in C
      /\ S \ (Forbidden \cup {"@"}) \subseteq C
  BY Zenon DEF Forbidden
<1> HIDE DEF C
<1>2. /\ stem \in Seq(C) /\ stem # <<>> /\ stem[1] = name[1]
      /\ ended \in Seq(C) /\ ended # <<>> /\ Last(ended) \notin Dropped
  BY <1>1, PageParts
<1>3. hash \in Seq(C)
  BY <1>1 DEF Hashed
<1> HIDE DEF hash
<1>4. Leaf(name, query, "html") = Sanitize(PageText(name, query))
  <2> DEFINE added == HtmlAdded(name)
             extension == Ending(name)
  <2>1. Leaf(name, query, "html") = Sanitize(stem \o hash \o extension \o added)
    BY DEF Leaf, Hashed, HtmlAdded, hash
  <2>2. extension \in Seq(C) /\ added \in Seq(C)
    <3>1. added \in {<<>>, <<".", "html">>} /\ name \in Seq(C)
      BY <1>1, PageParts
    <3>2. <<".", "html">> \in Seq(C) /\ <<>> \in Seq(C)
      BY <1>1
    <3>3. extension \in Seq(C)
      BY <3>1, EndingIs
    <3> QED
      BY <3>1, <3>2, <3>3
  <2>3. ended = extension \o added
    BY DEF Ended
  <2> HIDE DEF stem, ended, added, extension
  <2>4. ((stem \o hash) \o extension) \o added = (stem \o hash) \o (extension \o added)
    <3>1. stem \o hash \in Seq(C)
      BY <1>2, <1>3, ConcatProperties
    <3> QED
      BY <2>2, <3>1, ConcatAssociative, SMTT(30)
  <2>5. (stem \o hash) \o ended = stem \o (hash \o ended)
    BY <1>2, <1>3, ConcatAssociative, SMTT(30)
  <2> QED
    BY <2>1, <2>3, <2>4, <2>5 DEF PageText, stem, ended, hash
<1> DEFINE text == PageText(name, query)
<1>5. text = stem \o (hash \o ended)
  BY DEF PageText, hash
<1> HIDE DEF stem, ended, text
<1>6. hash \o ended \in Seq(C) /\ hash \o ended # <<>> /\ Last(hash \o ended) = Last(ended)
  BY <1>2, <1>3, ConcatEnds, ConcatProperties
<1>7. text \in Seq(C) /\ text # <<>> /\ text[1] = name[1] /\ Last(text) = Last(ended)
  BY <1>2, <1>5, <1>6, ConcatEnds, ConcatProperties
<1>8. FairName(T, text)
  BY <1>2, <1>7 DEF FairName, PageName, C
<1> QED
  BY <1>4, <1>8 DEF text

\* The ending does not hide the name.
LEMMA EndingsApart ==
  ASSUME NEW S, NEW a, PageName(S, a), NEW b, PageName(S, b),
         a \o HtmlAdded(a) = b \o HtmlAdded(b)
  PROVE  a = b
<1> DEFINE C == S \cup {".", "html"}
           ending == <<".", "html">>
<1>1. S \ (Forbidden \cup {"@"}) \subseteq C /\ "." \in C /\ "html" \in C
  OBVIOUS
<1> HIDE DEF C
<1>2. /\ a \in Seq(C) /\ a # <<>> /\ HtmlAdded(a) \in {<<>>, ending}
      /\ b \in Seq(C) /\ b # <<>> /\ HtmlAdded(b) \in {<<>>, ending}
  BY <1>1, PageParts
<1>3. ending \in Seq(C) /\ ending # <<>> /\ Last(ending) = "html"
  BY <1>1 DEF Last
<1> HIDE DEF ending
<1>4. (a \o HtmlAdded(a))[1] = a[1] /\ (b \o HtmlAdded(b))[1] = b[1]
  BY <1>2, <1>3, ConcatEnds
<1>5. Index[1] = "index" /\ Len(a) \in Nat \ {0} /\ Len(b) \in Nat \ {0}
  BY <1>2 DEF Index
<1>6. a = Index <=> b = Index
  <2>1. 1 \in 1 .. Len(a) /\ 1 \in 1 .. Len(b) /\ a[1] = b[1]
    BY <1>4, <1>5
  <2> QED
    BY <1>5, <2>1 DEF PageName
<1>7. CASE a = Index
  BY <1>6, <1>7
<1>8. CASE a # Index
  <2>1. /\ \A i \in 1 .. Len(a) : a[i] # "html"
        /\ \A i \in 1 .. Len(b) : b[i] # "html"
    BY <1>6, <1>8 DEF PageName
  <2>2. Last(a) # "html" /\ Last(b) # "html"
    BY <1>5, <2>1 DEF Last
  <2>3. /\ a \o <<>> = a /\ b \o <<>> = b
        /\ Last(a \o ending) = "html" /\ Last(b \o ending) = "html"
    BY <1>2, <1>3, ConcatEnds, ConcatEmptySeq
  <2>4. HtmlAdded(a) = HtmlAdded(b)
    BY <1>2, <2>2, <2>3
  <2>5. HtmlAdded(a) \in Seq(C)
    <3>1. <<>> \in Seq(C)
      OBVIOUS
    <3> QED
      BY <1>2, <1>3, <3>1
  <2> DEFINE added == HtmlAdded(a)
  <2> HIDE DEF added
  <2>6. a \o added = b \o added /\ added \in Seq(C)
    BY <2>4, <2>5 DEF added
  <2> QED
    BY <1>2, <2>6, ConcatSimplifications
<1> QED
  BY <1>7, <1>8

\* Two words one after the other.
LEMMA TwoWords ==
  ASSUME NEW T, NEW a \in T, NEW b \in T
  PROVE  <<a>> \o <<b>> = <<a, b>>
<1> DEFINE one == <<a>>
           other == <<b>>
           both == <<a, b>>
<1>1. /\ one \in Seq(T) /\ Len(one) = 1 /\ one[1] = a
      /\ other \in Seq(T) /\ Len(other) = 1 /\ other[1] = b
      /\ both \in Seq(T) /\ Len(both) = 2 /\ both[1] = a /\ both[2] = b
  OBVIOUS
<1> HIDE DEF one, other, both
<1>2. /\ one \o other \in Seq(T) /\ Len(one \o other) = 2
      /\ \A i \in 1 .. 2 : (one \o other)[i] = IF i <= 1 THEN one[i] ELSE other[i - 1]
  <2>1. /\ one \o other \in Seq(T) /\ Len(one \o other) = Len(one) + Len(other)
        /\ \A i \in 1 .. Len(one) + Len(other) :
             (one \o other)[i] = IF i <= Len(one) THEN one[i] ELSE other[i - Len(one)]
    BY <1>1, ConcatProperties
  <2> QED
    BY <1>1, <2>1
<1>3. \A i \in 1 .. 2 : (one \o other)[i] = both[i]
  BY <1>1, <1>2
<1>4. one \o other = both
  BY <1>1, <1>2, <1>3, SeqEqual
<1> QED
  BY <1>4 DEF one, other, both

LEMMA FairNameOver ==
  ASSUME NEW S, NEW T, S \subseteq T, NEW name, FairName(S, name)
  PROVE  FairName(T, name)
<1>1. S \ Forbidden \subseteq T \ Forbidden
  OBVIOUS
<1>2. name \in Seq(T \ Forbidden)
  BY <1>1, MoreCharacters DEF FairName
<1> QED
  BY <1>2 DEF FairName

\* Where the query begins, and what is in front and behind.
LEMMA PageTextCut ==
  ASSUME NEW S, NEW name, PageName(S, name), NEW query, query = <<>> => None = <<>>,
         NEW text, text = PageText(name, query),
         NEW stem, stem = Stem(name), NEW ended, ended = Ended(name),
         NEW hash, hash = ShortHash(query)
  PROVE  /\ query = None => Find(text, "@") = 0 /\ text = stem \o ended
         /\ query # None => Find(text, "@") # 0 /\ Head1(text, "@") = stem
                            /\ Rest1(text, "@") = <<hash>> \o ended
<1> DEFINE at == "@"
           C == (S \ (Forbidden \cup {at})) \cup {".", "html"}
           D == C \cup {at, hash}
<1>1. S \ (Forbidden \cup {"@"}) \subseteq C /\ "." \in C /\ "html" \in C /\ at \notin C
  OBVIOUS
<1>2. C \subseteq D /\ at \in D /\ hash \in D
  OBVIOUS
<1> HIDE DEF C, D
<1>3. stem \in Seq(C) /\ stem # <<>> /\ ended \in Seq(C)
  BY <1>1, PageParts
<1>4. text = stem \o (Hashed(query) \o ended)
  BY DEF PageText
<1>5. ASSUME query = None PROVE Find(text, "@") = 0 /\ text = stem \o ended
  <2>1. Hashed(query) = <<>>
    BY <1>5 DEF Hashed
  <2>2. text = stem \o ended
    BY <1>3, <1>4, <2>1, ConcatEmptySeq
  <2>3. stem \o ended \in Seq(C)
    BY <1>3, ConcatProperties
  <2> QED
    BY <1>1, <2>2, <2>3, NotThere DEF at
<1>6. ASSUME query # None
      PROVE  Find(text, "@") # 0 /\ Head1(text, "@") = stem /\ Rest1(text, "@") = <<hash>> \o ended
  <2> DEFINE sign == <<at>>
             word == <<hash>>
             rest == word \o ended
  <2>1. Hashed(query) = sign \o word
    <3>1. Hashed(query) = <<at, hash>>
      BY <1>6 DEF Hashed
    <3> HIDE DEF at
    <3>2. sign \o word = <<at, hash>>
      BY <1>2, TwoWords
    <3> QED
      BY <3>1, <3>2
  <2>2. sign \in Seq(D) /\ word \in Seq(D)
    BY <1>2
  <2>3. stem \in Seq(D) /\ ended \in Seq(D)
    BY <1>2, <1>3, MoreCharacters
  <2>4. \A i \in 1 .. Len(stem) : stem[i] # at
    <3> TAKE i \in 1 .. Len(stem)
    <3>1. stem[i] \in C
      BY <1>3
    <3> QED
      BY <1>1, <3>1
  <2> HIDE DEF word, at
  <2>5. (sign \o word) \o ended = sign \o rest /\ rest \in Seq(D)
    <3> HIDE DEF sign
    <3> QED
      BY <2>2, <2>3, ConcatAssociative, ConcatProperties, SMTT(30)
  <2> HIDE DEF rest
  <2>6. text = Joint(stem, at, rest)
    BY <1>4, <2>1, <2>5 DEF Joint, sign
  <2>7. /\ Find(text, at) = Len(stem) + 1
        /\ Head1(text, at) = stem /\ Rest1(text, at) = rest
    <3>1. at \in D /\ stem \in Seq(D) /\ rest \in Seq(D)
      BY <1>2, <2>3, <2>5
    <3>2. Find(Joint(stem, at, rest), at) = Len(stem) + 1
      BY <2>4, <3>1, FoundFirst
    <3>3. Head1(Joint(stem, at, rest), at) = stem
      BY <2>4, <3>1, FoundFirst
    <3>4. Rest1(Joint(stem, at, rest), at) = rest
      BY <2>4, <3>1, FoundFirst
    <3> QED
      BY <2>6, <3>2, <3>3, <3>4
  <2>8. Len(stem) \in Nat
    BY <2>3
  <2>9. Find(text, at) # 0
    BY <2>7, <2>8
  <2> QED
    BY <2>7, <2>9 DEF at, rest, word
<1> QED
  BY <1>5, <1>6

\* Two pages of a directory are stored under one name only if they have one name, and
\* queries with one hash.
LEMMA LeavesApart ==
  ASSUME NEW S, NEW a, PageName(S, a), NEW b, PageName(S, b),
         NEW q, q = <<>> => None = <<>>, ShortHash(q) \notin Forbidden,
         NEW r, r = <<>> => None = <<>>, ShortHash(r) \notin Forbidden,
         Leaf(a, q, "html") = Leaf(b, r, "html"), Len(Leaf(a, q, "html")) < NameLimit
  PROVE  /\ a = b /\ (q = None <=> r = None)
         /\ q # None => ShortHash(q) = ShortHash(r)
<1> DEFINE T == S \cup {"@", ".", "html", ShortHash(q), ShortHash(r)}
           s == PageText(a, q)
           t == PageText(b, r)
           hashq == ShortHash(q)
           hashr == ShortHash(r)
<1>1. FairName(T, s) /\ FairName(T, t) /\ Sanitize(s) = Sanitize(t) /\ Len(Sanitize(s)) < NameLimit
  <2>1. /\ FairName(S \cup {"@", ".", "html", hashq}, s) /\ Leaf(a, q, "html") = Sanitize(s)
        /\ FairName(S \cup {"@", ".", "html", hashr}, t) /\ Leaf(b, r, "html") = Sanitize(t)
    BY LeafIsPageText
  <2>2. /\ S \cup {"@", ".", "html", hashq} \subseteq T
        /\ S \cup {"@", ".", "html", hashr} \subseteq T
    OBVIOUS
  <2> HIDE DEF T, s, t, hashq, hashr
  <2> QED
    BY <2>1, <2>2, FairNameOver
<1> HIDE DEF T, s, t, hashq, hashr
<1>2. s = t
  BY <1>1, FairNamesApart
<1> DEFINE stema == Stem(a)
           stemb == Stem(b)
           endeda == Ended(a)
           endedb == Ended(b)
<1>3. /\ q = None => Find(s, "@") = 0 /\ s = stema \o endeda
      /\ q # None => Find(s, "@") # 0 /\ Head1(s, "@") = stema /\ Rest1(s, "@") = <<hashq>> \o endeda
  BY PageTextCut DEF s, hashq
<1>4. /\ r = None => Find(t, "@") = 0 /\ t = stemb \o endedb
      /\ r # None => Find(t, "@") # 0 /\ Head1(t, "@") = stemb /\ Rest1(t, "@") = <<hashr>> \o endedb
  BY PageTextCut DEF t, hashr
<1> DEFINE C == S \cup {".", "html"}
<1>5. S \ (Forbidden \cup {"@"}) \subseteq C /\ "." \in C /\ "html" \in C
  OBVIOUS
<1> HIDE DEF C
<1>6. /\ endeda \in Seq(C) /\ stema \o endeda = a \o HtmlAdded(a)
      /\ endedb \in Seq(C) /\ stemb \o endedb = b \o HtmlAdded(b)
  BY <1>5, PageParts
<1> HIDE DEF stema, stemb, endeda, endedb
<1>7. q = None <=> r = None
  BY <1>2, <1>3, <1>4
<1>8. ASSUME q # None PROVE hashq = hashr /\ stema = stemb /\ endeda = endedb
  <2>1. stema = stemb /\ <<hashq>> \o endeda = <<hashr>> \o endedb
    BY <1>2, <1>3, <1>4, <1>7, <1>8
  <2> DEFINE D == C \cup {hashq, hashr}
             one == <<hashq>>
             other == <<hashr>>
  <2>2. one \in Seq(D) /\ other \in Seq(D) /\ one # <<>> /\ other # <<>>
        /\ one[1] = hashq /\ other[1] = hashr
    OBVIOUS
  <2>3. endeda \in Seq(D) /\ endedb \in Seq(D)
    BY <1>6, MoreCharacters
  <2>4. one \o endeda = other \o endedb
    BY <2>1
  <2> HIDE DEF D, one, other
  <2>5. (one \o endeda)[1] = hashq /\ (other \o endedb)[1] = hashr
    BY <2>2, <2>3, ConcatEnds
  <2>6. hashq = hashr
    BY <2>4, <2>5
  <2>7. one = other
    BY <2>6 DEF one, other
  <2> QED
    BY <2>1, <2>2, <2>3, <2>4, <2>6, <2>7, ConcatSimplifications
<1>9. stema \o endeda = stemb \o endedb
  BY <1>2, <1>3, <1>4, <1>7, <1>8
<1>10. a = b
  BY <1>6, <1>9, EndingsApart
<1> QED
  BY <1>7, <1>8, <1>10 DEF hashq, hashr

\* The name of the directory of another origin, before it is stored.
SchemeMark(scheme) == IF scheme = "https" THEN <<>> ELSE <<scheme, "_">>
PortMark(port) == IF port = 0 THEN <<>> ELSE <<"_", ShowPort(port)>>
Placed(host, port) == host \o PortMark(port)
OriginName(scheme, host, port) == SchemeMark(scheme) \o Placed(host, port)

\* Hosts and ports that such a name keeps.
HostKept(S, host) ==
  FairName(S, host) /\ host # <<"http">> /\ \A i \in 1 .. Len(host) : host[i] # Underscore
PortKept(port) ==
  port # 0 => /\ ShowPort(port) \notin Forbidden \cup Dropped \cup {Underscore}
              /\ Ports[ShowPort(port)] = port

LEMMA PlacedIsFair ==
  ASSUME NEW S, NEW host, HostKept(S, host), NEW port, PortKept(port), Underscore \in S,
         ShowPort(port) \in S
  PROVE  FairName(S, Placed(host, port))
<1> DEFINE C == S \ Forbidden
           mark == PortMark(port)
<1>1. host \in Seq(C) /\ host # <<>> /\ host[1] # Underscore /\ Last(host) \notin Dropped
  BY DEF HostKept, FairName
<1>2. Underscore \in C
  BY UnderscoreIsFine
<1> HIDE DEF C
<1>3. CASE port = 0
  <2>1. Placed(host, port) = host
    BY <1>1, <1>3, ConcatEmptySeq DEF Placed, PortMark
  <2> QED
    BY <2>1 DEF HostKept
<1>4. CASE port # 0
  <2> DEFINE word == ShowPort(port)
  <2>1. word \in C /\ word \notin Dropped
    BY <1>4 DEF PortKept, C
  <2>2. mark = <<Underscore, word>>
    BY <1>4 DEF PortMark, Underscore
  <2> HIDE DEF word, mark
  <2>3. mark \in Seq(C) /\ mark # <<>> /\ Last(mark) = word
    BY <1>2, <2>1, <2>2 DEF Last
  <2>4. /\ host \o mark \in Seq(C) /\ host \o mark # <<>> /\ Last(host \o mark) = word
        /\ (host \o mark)[1] = host[1]
    BY <1>1, <2>3, ConcatEnds, ConcatProperties
  <2> QED
    BY <1>1, <2>1, <2>4 DEF FairName, Placed, mark, C
<1> QED
  BY <1>3, <1>4

LEMMA OriginIsFair ==
  ASSUME NEW S, NEW scheme \in {"http", "https"}, NEW host, HostKept(S, host),
         NEW port, PortKept(port), Underscore \in S, "http" \in S, ShowPort(port) \in S
  PROVE  FairName(S, OriginName(scheme, host, port))
<1> DEFINE C == S \ Forbidden
           place == Placed(host, port)
           mark == <<"http", Underscore>>
<1>1. FairName(S, place)
  BY PlacedIsFair
<1>2. mark \in Seq(C) /\ mark # <<>> /\ mark[1] # Underscore
  <2>1. "http" \in C /\ Underscore \in C /\ "http" # Underscore
    BY UnderscoreIsFine DEF Forbidden, Underscore
  <2> QED
    BY <2>1
<1> HIDE DEF mark, place
<1>3. place \in Seq(C) /\ place # <<>> /\ Last(place) \notin Dropped
  BY <1>1 DEF FairName
<1>4. CASE scheme = "https"
  <2>1. OriginName(scheme, host, port) = <<>> \o place
    BY <1>4 DEF OriginName, SchemeMark, place
  <2>2. <<>> \o place = place
    BY <1>3, ConcatEmptySeq
  <2> QED
    BY <1>1, <2>1, <2>2
<1>5. CASE scheme = "http"
  <2>1. OriginName(scheme, host, port) = mark \o place
    BY <1>5 DEF OriginName, SchemeMark, place, mark, Underscore
  <2> HIDE DEF C
  <2>2. /\ mark \o place \in Seq(C) /\ mark \o place # <<>> /\ Last(mark \o place) = Last(place)
        /\ (mark \o place)[1] = mark[1]
    BY <1>2, <1>3, ConcatEnds, ConcatProperties
  <2> QED
    BY <1>2, <1>3, <2>1, <2>2 DEF FairName, C
<1> QED
  BY <1>4, <1>5

\* The host and the port are found in it again,
LEMMA PlacedCut ==
  ASSUME NEW S, NEW host, HostKept(S, host), NEW port, NEW place, place = Placed(host, port),
         NEW word, word = ShowPort(port), Underscore \in S, word \in S
  PROVE  /\ place \in Seq(S) /\ Head1(place, Underscore) = host
         /\ port = 0 <=> Find(place, Underscore) = 0
         /\ port # 0 => Rest1(place, Underscore) = <<word>>
<1>1. host \in Seq(S) /\ \A i \in 1 .. Len(host) : host[i] # Underscore
  BY MoreCharacters DEF HostKept, FairName
<1>2. CASE port = 0
  <2>1. place = host
    BY <1>1, <1>2, ConcatEmptySeq DEF Placed, PortMark
  <2>2. host \in Seq(S \ {Underscore}) /\ Underscore \notin S \ {Underscore}
    BY <1>1, WithoutIt
  <2>3. Find(host, Underscore) = 0 /\ Head1(host, Underscore) = host
    BY <2>2, NotThere
  <2> QED
    BY <1>1, <1>2, <2>1, <2>3
<1>3. CASE port # 0
  <2> DEFINE rest == <<word>>
             sign == Underscore
  <2>1. PortMark(port) = <<Underscore>> \o <<word>>
    <3>1. PortMark(port) = <<Underscore, word>>
      BY <1>3 DEF PortMark, Underscore
    <3> QED
      BY <3>1, TwoWords
  <2>2. place = Joint(host, sign, rest)
    BY <2>1 DEF Placed, Joint
  <2>3. rest \in Seq(S) /\ sign \in S /\ host \in Seq(S) /\ \A i \in 1 .. Len(host) : host[i] # sign
    BY <1>1
  <2>0. Len(host) \in Nat
    BY <1>1
  <2> HIDE DEF rest, sign
  <2>4. Find(Joint(host, sign, rest), sign) = Len(host) + 1
    BY <2>3, FoundFirst
  <2>5. Head1(Joint(host, sign, rest), sign) = host
    BY <2>3, FoundFirst
  <2>6. Rest1(Joint(host, sign, rest), sign) = rest
    BY <2>3, FoundFirst
  <2>7. Joint(host, sign, rest) \in Seq(S)
    BY <2>3, Between DEF MeetingAt
  <2>8. Len(host) + 1 # 0
    BY <2>0
  <2> QED
    BY <1>3, <2>2, <2>4, <2>5, <2>6, <2>7, <2>8 DEF rest, sign
<1> QED
  BY <1>2, <1>3

\* and so is what is in front of the first mark.
LEMMA OriginCut ==
  ASSUME NEW S, NEW scheme \in {"http", "https"}, NEW host, HostKept(S, host),
         NEW port, NEW place, place = Placed(host, port), NEW name, name = OriginName(scheme, host, port),
         Underscore \in S, "http" \in S, ShowPort(port) \in S
  PROVE  /\ scheme = "https" => name = place /\ Head1(name, Underscore) = host
         /\ scheme = "http" => /\ name = <<"http", Underscore>> \o place
                               /\ Head1(name, Underscore) = <<"http">>
<1> DEFINE sign == Underscore
           one == <<"http">>
<1>1. place \in Seq(S) /\ Head1(place, sign) = host
  BY PlacedCut
<1>2. CASE scheme = "https"
  <2>1. name = <<>> \o place
    BY <1>2 DEF OriginName, SchemeMark
  <2>2. name = place
    BY <1>1, <2>1, ConcatEmptySeq
  <2> QED
    BY <1>1, <1>2, <2>2
<1>3. CASE scheme = "http"
  <2>1. name = <<"http", sign>> \o place
    BY <1>3 DEF OriginName, SchemeMark, Underscore
  <2>2. <<"http", sign>> = one \o <<sign>>
    <3> DEFINE http == "http"
    <3>1. http \in S /\ sign \in S
      OBVIOUS
    <3> HIDE DEF http, sign
    <3>2. <<http>> \o <<sign>> = <<http, sign>>
      BY <3>1, TwoWords
    <3> QED
      BY <3>2 DEF http
  <2>3. one \in Seq(S) /\ sign \in S /\ \A i \in 1 .. Len(one) : one[i] # sign
    <3>1. "http" # sign
      BY DEF Underscore
    <3>2. Len(one) = 1 /\ one[1] = "http"
      OBVIOUS
    <3>3. \A i \in 1 .. 1 : i = 1
      OBVIOUS
    <3>4. one \in Seq(S)
      OBVIOUS
    <3> HIDE DEF one, sign
    <3>5. sign \in S
      BY DEF sign
    <3> QED
      BY <3>1, <3>2, <3>3, <3>4, <3>5
  <2> DEFINE last == <<sign>>
  <2>4. last \in Seq(S)
    BY <2>3
  <2> HIDE DEF one, sign
  <2>5. name = Joint(one, sign, place)
    <3>1. (one \o last) \o place = one \o (last \o place)
      <4> HIDE DEF last
      <4> QED
        BY <1>1, <2>3, <2>4, ConcatAssociative
    <3> QED
      BY <2>1, <2>2, <3>1 DEF Joint
  <2>6. Head1(Joint(one, sign, place), sign) = one
    BY <1>1, <2>3, FoundFirst
  <2> QED
    BY <1>3, <2>1, <2>5, <2>6 DEF one, sign
<1> QED
  BY <1>2, <1>3

\* Two origins with plain hosts have two directories.
LEMMA OriginsApart ==
  ASSUME NEW S, Underscore \in S, "http" \in S,
         NEW s \in {"http", "https"}, NEW h, HostKept(S, h), NEW k, PortKept(k), ShowPort(k) \in S,
         NEW t \in {"http", "https"}, NEW g, HostKept(S, g), NEW l, PortKept(l), ShowPort(l) \in S,
         Sanitize(OriginName(s, h, k)) = Sanitize(OriginName(t, g, l)),
         Len(Sanitize(OriginName(s, h, k))) < NameLimit
  PROVE  s = t /\ h = g /\ k = l
<1> DEFINE a == OriginName(s, h, k)
           b == OriginName(t, g, l)
           x == Placed(h, k)
           y == Placed(g, l)
           mark == <<"http", Underscore>>
           wordk == ShowPort(k)
           wordl == ShowPort(l)
<1>1. FairName(S, a) /\ FairName(S, b)
  BY OriginIsFair
<1>2. a = b
  <2> HIDE DEF a, b
  <2>1. Sanitize(a) = Sanitize(b) /\ Len(Sanitize(a)) < NameLimit
    BY DEF a, b
  <2> QED
    BY <1>1, <2>1, FairNamesApart
<1>3. /\ s = "https" => a = x /\ Head1(a, Underscore) = h
      /\ s = "http" => a = mark \o x /\ Head1(a, Underscore) = <<"http">>
      /\ t = "https" => b = y /\ Head1(b, Underscore) = g
      /\ t = "http" => b = mark \o y /\ Head1(b, Underscore) = <<"http">>
  BY OriginCut
<1>4. /\ x \in Seq(S) /\ Head1(x, Underscore) = h
      /\ k = 0 <=> Find(x, Underscore) = 0
      /\ k # 0 => Rest1(x, Underscore) = <<wordk>>
      /\ y \in Seq(S) /\ Head1(y, Underscore) = g
      /\ l = 0 <=> Find(y, Underscore) = 0
      /\ l # 0 => Rest1(y, Underscore) = <<wordl>>
  BY PlacedCut
<1>5. mark \in Seq(S)
  OBVIOUS
<1>6. h # <<"http">> /\ g # <<"http">>
  BY DEF HostKept
<1> HIDE DEF a, b, x, y, mark
<1>7. s = t
  BY <1>2, <1>3, <1>6
<1>8. x = y
  <2>1. CASE s = "https"
    BY <1>2, <1>3, <1>7, <2>1
  <2>2. CASE s = "http"
    <3>1. mark \o x = mark \o y
      BY <1>2, <1>3, <1>7, <2>2
    <3> QED
      BY <1>4, <1>5, <3>1, ConcatSimplifications
  <2> QED
    BY <2>1, <2>2
<1>9. h = g /\ (k = 0 <=> l = 0) /\ (k # 0 => <<wordk>> = <<wordl>>)
  BY <1>4, <1>8
<1>10. k # 0 => wordk = wordl
  BY <1>9
<1>11. k # 0 => k = l
  BY <1>9, <1>10 DEF PortKept
<1> QED
  BY <1>7, <1>9, <1>11

\* The directories of a page in its origin, its own name, and the directory of its origin.
Above(url) == IF Last(url.path) = "/" THEN Segments(url.path) ELSE Front(Segments(url.path))
Own(url) == IF Last(url.path) = "/" THEN Index ELSE Last(Segments(url.path))
Outside(url, primary) == IF SameOrigin(url, primary) THEN <<>> ELSE ExternalDir(url)

LEMMA IndexIsPage ==
  ASSUME NEW S, {"index", ".", "html"} \subseteq S
  PROVE  PageName(S, Index)
<1>1. {"index", ".", "html"} \cap (Forbidden \cup {"@", Underscore}) = {}
      /\ "html" \notin Dropped
  BY DEF Forbidden, Dropped, Space, Underscore
<1>2. /\ Index \in Seq({"index", ".", "html"}) /\ Index # <<>> /\ Index[1] = "index"
      /\ Last(Index) = "html"
  BY DEF Index, Last
<1> DEFINE C == S \ Forbidden
<1>3. Index \in Seq(C)
  <2>1. {"index", ".", "html"} \subseteq C
    BY <1>1
  <2> HIDE DEF C
  <2> QED
    BY <1>2, <2>1, MoreCharacters
<1>4. FairName(S, Index)
  BY <1>1, <1>2, <1>3 DEF FairName
<1>5. \A i \in 1 .. Len(Index) : Index[i] # "@"
  <2> SUFFICES ASSUME NEW i \in 1 .. Len(Index) PROVE Index[i] # "@"
    OBVIOUS
  <2>1. Index[i] \in {"index", ".", "html"}
    BY <1>2
  <2> QED
    BY <2>1
<1> QED
  BY <1>4, <1>5 DEF PageName

\* A plain name is that of a page, unless html is a part of it.
LEMMA PlainIsPage ==
  ASSUME NEW S, NEW name \in Seq(S), PlainName(name)
  PROVE  /\ FairName(S, name) /\ name # Index /\ name # <<Underscore, "external">> /\ name # Long
         /\ (\A i \in 1 .. Len(name) : name[i] # "html") => PageName(S, name)
<1>1. DOMAIN name = 1 .. Len(name) /\ Len(name) \in Nat
  OBVIOUS
<1>2. \A i \in 1 .. Len(name) : name[i] # Underscore /\ name[i] # "@" /\ name[i] # "index"
  BY <1>1 DEF PlainName, Underscore
<1>3. FairName(S, name)
  <2>1. Sanitize(name) = name /\ Len(name) < NameLimit
    BY DEF PlainName
  <2> QED
    BY <1>2, <2>1, KeptIsFair
<1>4. 1 \in 1 .. Len(name)
  BY <1>1, <1>3 DEF FairName
<1>5. name[1] # "index" /\ name[1] # Underscore
  BY <1>2, <1>4
<1>6. Index[1] = "index" /\ <<Underscore, "external">>[1] = Underscore /\ Long[1] = Underscore
  BY DEF Index, Long, Underscore
<1>7. name # Index /\ name # <<Underscore, "external">> /\ name # Long
  BY <1>5, <1>6
<1> QED
  BY <1>2, <1>3, <1>7 DEF PageName

\* A page of another origin is stored in the directory of that origin.
LEMMA OutsideNames ==
  ASSUME NEW S, NEW url, UrlOver(S, url), NEW primary, ~SameOrigin(url, primary)
  PROVE  Outside(url, primary) =
           << <<Underscore, "external">>,
              Sanitize(OriginName(url.scheme, Bare(url.host), url.port)) >>
<1> DEFINE scheme == SchemeMark(url.scheme)
           host == Bare(url.host)
           port == PortMark(url.port)
           U == S \cup {url.scheme, "_", ShowPort(url.port)}
<1>1. host \in Seq(U)
  <2>1. url.host \in Seq(Names(S)) /\ Names(S) \subseteq U
    BY DEF UrlOver, UrlParts, Hosts, Names
  <2> HIDE DEF U
  <2>2. url.host \in Seq(U)
    BY <2>1, MoreCharacters
  <2> QED
    BY <2>2, BareIsText
<1>2. scheme \in Seq(U) /\ port \in Seq(U)
  <2> DEFINE underscore == "_"
  <2>1. underscore \in U /\ url.scheme \in U /\ ShowPort(url.port) \in U
    OBVIOUS
  <2>2. /\ scheme = <<>> \/ scheme = <<url.scheme, underscore>>
        /\ port = <<>> \/ port = <<underscore, ShowPort(url.port)>>
    BY DEF SchemeMark, PortMark
  <2> HIDE DEF underscore, scheme, port, U
  <2> QED
    BY <2>1, <2>2, ShortSeqs
<1>3. ExternalDir(url) = << <<Underscore, "external">>, Sanitize((scheme \o host) \o port) >>
  BY DEF ExternalDir, SchemeMark, PortMark, Underscore
<1>4. OriginName(url.scheme, host, url.port) = scheme \o (host \o port)
  BY DEF OriginName, Placed
<1> HIDE DEF scheme, host, port, U
<1>5. (scheme \o host) \o port = scheme \o (host \o port)
  BY <1>1, <1>2, ConcatAssociative
<1> QED
  BY <1>3, <1>4, <1>5 DEF Outside, host

\* Where a page with plain names is stored.
StoredPlainly(T, W, url, primary, above, own, outside) ==
  /\ above \in Seq(W) /\ outside \in Seq(W) /\ PageName(T, own) /\ own \in W
  /\ \A i \in 1 .. Len(above) : above[i] # <<Underscore, "external">> /\ above[i] # Long
  /\ own = Index <=> Last(url.path) = "/"
  /\ FullPath(url, primary, "html") = Append(outside \o above, Leaf(own, url.query, "html"))
  /\ Segments(url.path) = IF Last(url.path) = "/" THEN above ELSE Append(above, own)
  /\ url.path = Absolute(Segments(url.path), Last(url.path) = "/")

LEMMA PlainPath ==
  ASSUME NEW S, "/" \in S, NEW url, UrlOver(S, url), IsHttp(url), Plain(url), NEW primary,
         NEW T, S \cup {"index", ".", "html"} \subseteq T,
         NEW W, Seq(T) \subseteq W, <<Underscore, "external">> \in W,
         Sanitize(OriginName(url.scheme, Bare(url.host), url.port)) \in W,
         NEW above, above = Above(url), NEW own, own = Own(url), NEW outside, outside = Outside(url, primary)
  PROVE  StoredPlainly(T, W, url, primary, above, own, outside)
<1> DEFINE P == S \ {"?", "#"}
           segments == Segments(url.path)
           directory == Last(url.path) = "/"
           external == <<Underscore, "external">>
<1>1. "/" \in P /\ CleanPath(P, url.path) /\ P \subseteq T
  BY DEF UrlOver
<1> HIDE DEF P
<1>2. /\ segments \in Seq(PlainSteps(P)) /\ (directory \/ segments # <<>>)
      /\ url.path = Absolute(segments, directory)
  BY <1>1, CleanIsPath
<1> HIDE DEF segments
<1>3. segments \in Seq(Seq(T))
  <2>1. segments \in Seq(Seq(P))
    BY <1>2, PlainStepsAreSteps, StepsAreTexts
  <2>2. Seq(P) \subseteq Seq(T)
    BY <1>1, MoreCharacters
  <2> QED
    BY <2>1, <2>2, MoreCharacters
<1>4. /\ DOMAIN segments = 1 .. Len(segments) /\ Len(segments) \in Nat
      /\ \A i \in 1 .. Len(segments) : segments[i] \in Seq(T) /\ PlainName(segments[i])
  <2>1. /\ DOMAIN segments = 1 .. Len(segments) /\ Len(segments) \in Nat
        /\ \A i \in 1 .. Len(segments) : segments[i] \in Seq(T)
    BY <1>3
  <2>2. \A i \in 1 .. Len(segments) : segments[i] \in ToSet(segments)
    BY <2>1 DEF ToSet
  <2>3. \A name \in ToSet(segments) : PlainName(name)
    BY DEF Plain, segments
  <2> QED
    BY <2>1, <2>2, <2>3
<1>5. \A i \in 1 .. Len(segments) : segments[i] # external /\ segments[i] # Index /\ segments[i] # Long
  <2> TAKE i \in 1 .. Len(segments)
  <2> DEFINE name == segments[i]
  <2>1. name \in Seq(T) /\ PlainName(name)
    BY <1>4
  <2> HIDE DEF name
  <2>2. name # <<Underscore, "external">> /\ name # Index /\ name # Long
    BY <2>1, PlainIsPage
  <2> QED
    BY <2>2 DEF name
<1>6. segments \in Seq(W)
  BY <1>3, MoreCharacters
<1>7. outside \in Seq(W)
  <2> DEFINE origin == Sanitize(OriginName(url.scheme, Bare(url.host), url.port))
  <2>1. ~SameOrigin(url, primary) => outside = <<external, origin>>
    BY OutsideNames
  <2>2. SameOrigin(url, primary) => outside = <<>>
    BY DEF Outside
  <2>3. external \in W /\ origin \in W
    OBVIOUS
  <2> HIDE DEF external, origin
  <2> QED
    BY <2>1, <2>2, <2>3, ShortSeqs
<1>8. [i \in DOMAIN segments |-> Sanitize(Decode(segments[i]))] = segments
  <2>1. \A i \in 1 .. Len(segments) : Sanitize(Decode(segments[i])) = segments[i]
    BY <1>4 DEF PlainName
  <2>2. [i \in DOMAIN segments |-> Sanitize(Decode(segments[i]))] = [i \in 1 .. Len(segments) |-> segments[i]]
    BY <1>4, <2>1
  <2>3. segments = [i \in 1 .. Len(segments) |-> segments[i]]
    BY <1>4, <1>6
  <2> QED
    BY <2>2, <2>3
<1> DEFINE names == outside \o segments
<1>9. FullPath(url, primary, "html") =
        Append(IF directory THEN names ELSE Front(names),
               Leaf(IF directory THEN Index ELSE Last(names), url.query, "html"))
  <2> DEFINE kept == [i \in DOMAIN segments |-> Sanitize(Decode(segments[i]))]
             stored == Outside(url, primary) \o kept
  <2>1. FullPath(url, primary, "html") =
          Append(IF directory THEN stored ELSE Front(stored),
                 Leaf(IF directory THEN Index ELSE Last(stored), url.query, "html"))
    BY DEF FullPath, Outside, Index, segments
  <2>2. stored = names
    BY <1>8
  <2> HIDE DEF stored, names
  <2> QED
    BY <2>1, <2>2
<1>10. CASE directory
  <2>1. above = segments /\ own = Index
    BY <1>10 DEF Above, Own, segments
  <2>2. FullPath(url, primary, "html") = Append(outside \o above, Leaf(own, url.query, "html"))
    BY <1>9, <1>10, <2>1
  <2>3. PageName(T, Index)
    BY IndexIsPage
  <2>4. own \in W
    <3>1. Index \in Seq(T)
      BY <2>3, MoreCharacters DEF PageName, FairName
    <3> QED
      BY <2>1, <3>1
  <2> QED
    BY <1>2, <1>5, <1>6, <1>7, <1>10, <2>1, <2>2, <2>3, <2>4 DEF segments, StoredPlainly
<1>11. CASE ~directory
  <2>1. segments # <<>> /\ above = Front(segments) /\ own = Last(segments)
    BY <1>2, <1>11 DEF Above, Own, segments
  <2>2. /\ above \in Seq(W) /\ own \in W /\ segments = Append(above, own)
        /\ Len(above) = Len(segments) - 1 /\ \A i \in 1 .. Len(segments) - 1 : above[i] = segments[i]
    BY <1>6, <2>1, FrontAndLast
  <2>3. Front(names) = outside \o above /\ Last(names) = own
    <3>1. /\ Front(outside \o segments) = outside \o Front(segments)
          /\ Last(outside \o segments) = Last(segments)
      BY <1>6, <1>7, <2>1, ConcatEnds
    <3> QED
      BY <2>1, <3>1
  <2>4. FullPath(url, primary, "html") = Append(outside \o above, Leaf(own, url.query, "html"))
    BY <1>9, <1>11, <2>3
  <2>5. Len(segments) \in 1 .. Len(segments) /\ own = segments[Len(segments)]
    BY <1>4, <2>1 DEF Last
  <2>6. own \in Seq(T) /\ PlainName(own) /\ own # Index
    BY <1>4, <1>5, <2>5
  <2>7. \A i \in 1 .. Len(own) : own[i] # "html"
    <3>1. "html" \notin ToSet(own)
      BY <1>11, <2>1 DEF Plain, segments
    <3>2. DOMAIN own = 1 .. Len(own)
      BY <2>6
    <3> QED
      BY <3>1, <3>2 DEF ToSet
  <2>8. PageName(T, own)
    BY <2>6, <2>7, PlainIsPage
  <2>9. \A i \in 1 .. Len(above) : above[i] # external /\ above[i] # Long
    <3> SUFFICES ASSUME NEW i \in 1 .. Len(above) PROVE above[i] # external /\ above[i] # Long
      OBVIOUS
    <3>1. i \in 1 .. Len(segments) - 1 /\ i \in 1 .. Len(segments)
      BY <1>4, <2>2
    <3> QED
      BY <1>5, <2>2, <3>1
  <2> QED
    BY <1>2, <1>7, <1>11, <2>2, <2>4, <2>6, <2>8, <2>9 DEF segments, StoredPlainly
<1> QED
  BY <1>10, <1>11

\* The two parts of a concatenation whose first part has two elements.
LEMMA TwoAndRest ==
  ASSUME NEW W, NEW a \in W, NEW b \in W, NEW c \in W, NEW d \in W,
         NEW p, p = <<a, b>>, NEW q, q = <<c, d>>,
         NEW x \in Seq(W), NEW y \in Seq(W), p \o x = q \o y
  PROVE  a = c /\ b = d /\ x = y
<1>1. /\ p \in Seq(W) /\ Len(p) = 2 /\ p[1] = a /\ p[2] = b
      /\ q \in Seq(W) /\ Len(q) = 2 /\ q[1] = c /\ q[2] = d
  OBVIOUS
<1>3. /\ SubSeq(p \o x, 1, 2) = p /\ From(p \o x, 2 + 1) = x
      /\ SubSeq(q \o y, 1, 2) = q /\ From(q \o y, 2 + 1) = y
  <2>1. SubSeq(p \o x, 1, Len(p)) = p /\ From(p \o x, Len(p) + 1) = x
    BY <1>1, ConcatCut
  <2>2. SubSeq(q \o y, 1, Len(q)) = q /\ From(q \o y, Len(q) + 1) = y
    BY <1>1, ConcatCut
  <2> QED
    BY <1>1, <2>1, <2>2
<1>4. p = q /\ x = y
  BY <1>3
<1> QED
  BY <1>1, <1>4

\* Nothing of the origin of the site is stored among other origins.
LEMMA NeverAmongOthers ==
  ASSUME NEW W, NEW external \in W, NEW b \in W, NEW x \in Seq(W), NEW y \in Seq(W),
         \A i \in 1 .. Len(x) : x[i] # external
  PROVE  <<>> \o x # <<external, b>> \o y
<1> DEFINE p == <<external, b>>
<1>1. p \in Seq(W) /\ p # <<>> /\ p[1] = external
  OBVIOUS
<1> HIDE DEF p
<1>2. p \o y # <<>> /\ (p \o y)[1] = external
  BY <1>1, ConcatEnds
<1>3. <<>> \o x = x
  BY ConcatEmptySeq
<1>4. x # <<>> => 1 \in 1 .. Len(x)
  OBVIOUS
<1>5. x # p \o y
  BY <1>2, <1>4
<1> QED
  BY <1>3, <1>5 DEF p

\* A port of a URL is written in a word that a name keeps.
LEMMA PortIsKept ==
  ASSUME ReadAsWritten, PortsAreKept, NEW port \in PortNumbers
  PROVE  PortKept(port)
BY DEF ReadAsWritten, PortsAreKept, PortKept

LEMMA HostIsKept ==
  ASSUME NEW S, NEW url, UrlOver(S, url), PlainOrigin(url), NEW T, S \subseteq T
  PROVE  HostKept(T, Bare(url.host))
<1> DEFINE host == Bare(url.host)
<1>1. host \in Seq(T)
  <2>1. url.host \in Seq(Names(S)) /\ Names(S) \subseteq T
    BY DEF UrlOver, UrlParts, Hosts, Names
  <2>2. url.host \in Seq(T)
    BY <2>1, MoreCharacters
  <2> QED
    BY <2>2, BareIsText
<1>2. PlainName(host) /\ host # <<"http">>
  BY DEF PlainOrigin
<1> HIDE DEF host
<1>3. FairName(T, host)
  BY <1>1, <1>2, PlainIsPage
<1>4. \A i \in 1 .. Len(host) : host[i] # Underscore
  <2>1. DOMAIN host = 1 .. Len(host)
    BY <1>1
  <2> QED
    BY <1>2, <2>1 DEF PlainName, Underscore
<1> QED
  BY <1>2, <1>3, <1>4 DEF HostKept, host

\* A name of a path is as short as all of them.
LEMMA NamesAreShort ==
  ASSUME NEW W, NEW outside \in Seq(W), NEW above \in Seq(W), NEW leaf \in W,
         NEW full, full = Append(outside \o above, leaf),
         \A name \in ToSet(full) : Len(name) < NameLimit
  PROVE  Len(leaf) < NameLimit /\ \A i \in 1 .. Len(outside) : Len(outside[i]) < NameLimit
<1> DEFINE names == outside \o above
<1>1. /\ names \in Seq(W) /\ Len(names) = Len(outside) + Len(above)
      /\ \A i \in 1 .. Len(outside) + Len(above) :
           names[i] = IF i <= Len(outside) THEN outside[i] ELSE above[i - Len(outside)]
      /\ Len(outside) \in Nat /\ Len(above) \in Nat
  BY ConcatProperties
<1> HIDE DEF names
<1>2. /\ full \in Seq(W) /\ Len(full) = Len(names) + 1 /\ full[Len(names) + 1] = leaf
      /\ \A i \in 1 .. Len(names) : full[i] = names[i]
  BY <1>1, AppendProperties DEF names
<1>3. \A i \in 1 .. Len(names) + 1 : full[i] \in ToSet(full)
  <2>1. DOMAIN full = 1 .. Len(names) + 1
    BY <1>2
  <2> QED
    BY <2>1 DEF ToSet
<1>4. leaf \in ToSet(full)
  BY <1>1, <1>2, <1>3
<1>5. ASSUME NEW i \in 1 .. Len(outside) PROVE outside[i] \in ToSet(full)
  <2>1. i \in 1 .. Len(outside) + Len(above) /\ i <= Len(outside) /\ i \in 1 .. Len(names) /\ i \in 1 .. Len(names) + 1
    BY <1>1
  <2> QED
    BY <1>1, <1>2, <1>3, <2>1
<1> QED
  BY <1>4, <1>5

\* Two pages with plain names that have one path are one page.
LEMMA OneFileOnePage ==
  ASSUME NEW S, "/" \in S, ReadAsWritten, PortsAreKept, EveryHashIsName,
         NEW u, UrlOver(S, u), IsHttp(u), Plain(u),
         NEW v, UrlOver(S, v), IsHttp(v), Plain(v),
         SameOrigin(u, v) \/ (PlainOrigin(u) /\ PlainOrigin(v)),
         NEW primary, primary = Site, FullPath(u, primary, "html") = FullPath(v, primary, "html")
  PROVE  SamePage(u, v)
<1> DEFINE external == <<Underscore, "external">>
           originu == OriginName(u.scheme, Bare(u.host), u.port)
           originv == OriginName(v.scheme, Bare(v.host), v.port)
           placeu == Sanitize(originu)
           placev == Sanitize(originv)
           aboveu == Above(u)
           abovev == Above(v)
           ownu == Own(u)
           ownv == Own(v)
           outsideu == Outside(u, primary)
           outsidev == Outside(v, primary)
           queryu == u.query
           queryv == v.query
           leafu == Leaf(ownu, queryu, "html")
           leafv == Leaf(ownv, queryv, "html")
           T == S \cup {"index", ".", "html", "http", Underscore, ShowPort(u.port), ShowPort(v.port)}
           W == Seq(T) \cup {external, placeu, placev, leafu, leafv}
<1>1. /\ aboveu \in Seq(W) /\ outsideu \in Seq(W) /\ PageName(T, ownu) /\ ownu \in W
      /\ \A i \in 1 .. Len(aboveu) : aboveu[i] # external /\ aboveu[i] # Long
      /\ ownu = Index <=> Last(u.path) = "/"
      /\ FullPath(u, primary, "html") = Append(outsideu \o aboveu, leafu)
      /\ Segments(u.path) = IF Last(u.path) = "/" THEN aboveu ELSE Append(aboveu, ownu)
      /\ u.path = Absolute(Segments(u.path), Last(u.path) = "/")
  <2>1. S \cup {"index", ".", "html"} \subseteq T /\ Seq(T) \subseteq W /\ external \in W /\ placeu \in W
    OBVIOUS
  <2> HIDE DEF T, W, external, placeu, aboveu, ownu, outsideu
  <2>2. StoredPlainly(T, W, u, primary, aboveu, ownu, outsideu)
    BY <2>1, PlainPath DEF external, placeu, aboveu, ownu, outsideu
  <2> QED
    BY <2>2 DEF StoredPlainly, leafu, queryu, external
<1>2. /\ abovev \in Seq(W) /\ outsidev \in Seq(W) /\ PageName(T, ownv) /\ ownv \in W
      /\ \A i \in 1 .. Len(abovev) : abovev[i] # external /\ abovev[i] # Long
      /\ ownv = Index <=> Last(v.path) = "/"
      /\ FullPath(v, primary, "html") = Append(outsidev \o abovev, leafv)
      /\ Segments(v.path) = IF Last(v.path) = "/" THEN abovev ELSE Append(abovev, ownv)
      /\ v.path = Absolute(Segments(v.path), Last(v.path) = "/")
  <2>1. S \cup {"index", ".", "html"} \subseteq T /\ Seq(T) \subseteq W /\ external \in W /\ placev \in W
    OBVIOUS
  <2> HIDE DEF T, W, external, placev, abovev, ownv, outsidev
  <2>2. StoredPlainly(T, W, v, primary, abovev, ownv, outsidev)
    BY <2>1, PlainPath DEF external, placev, abovev, ownv, outsidev
  <2> QED
    BY <2>2 DEF StoredPlainly, leafv, queryv, external
<1>3. external \in W /\ placeu \in W /\ placev \in W /\ leafu \in W /\ leafv \in W
  OBVIOUS
<1>4. /\ ~SameOrigin(u, primary) => outsideu = <<external, placeu>>
      /\ SameOrigin(u, primary) => outsideu = <<>>
      /\ ~SameOrigin(v, primary) => outsidev = <<external, placev>>
      /\ SameOrigin(v, primary) => outsidev = <<>>
  <2>1. SameOrigin(u, primary) => outsideu = <<>>
    BY DEF Outside
  <2>2. SameOrigin(v, primary) => outsidev = <<>>
    BY DEF Outside
  <2>3. ~SameOrigin(u, primary) => outsideu = <<external, placeu>>
    BY OutsideNames
  <2>4. ~SameOrigin(v, primary) => outsidev = <<external, placev>>
    BY OutsideNames
  <2> QED
    BY <2>1, <2>2, <2>3, <2>4
<1>5. /\ queryu \in Seq(S) \cup {None} /\ (queryu = <<>> => None = <<>>)
      /\ queryv \in Seq(S) \cup {None} /\ (queryv = <<>> => None = <<>>)
  <2>1. S \ {"#"} \subseteq S
    OBVIOUS
  <2>2. Seq(S \ {"#"}) \subseteq Seq(S)
    BY <2>1, MoreCharacters
  <2> QED
    BY <2>2 DEF UrlOver, UrlParts
<1>6. ShortHash(queryu) \notin Forbidden /\ ShortHash(queryv) \notin Forbidden
  BY DEF EveryHashIsName, HashIsName
<1>7. u.scheme \in {"http", "https"} /\ v.scheme \in {"http", "https"}
  BY DEF IsHttp
<1> HIDE DEF external, placeu, placev, aboveu, abovev, ownu, ownv, outsideu, outsidev, queryu, queryv, W
<1>13. /\ Len(leafu) < NameLimit
       /\ ~SameOrigin(u, primary) => Len(placeu) < NameLimit
  <2> HIDE DEF leafu
  <2>1. \A name \in ToSet(FullPath(u, primary, "html")) : Len(name) < NameLimit
    BY DEF Plain, PagePath
  <2>2. Len(leafu) < NameLimit /\ \A i \in 1 .. Len(outsideu) : Len(outsideu[i]) < NameLimit
    <3> DEFINE full == FullPath(u, primary, "html")
    <3>1. full = Append(outsideu \o aboveu, leafu) /\ \A name \in ToSet(full) : Len(name) < NameLimit
      BY <1>1, <2>1
    <3>2. outsideu \in Seq(W) /\ aboveu \in Seq(W) /\ leafu \in W
      BY <1>1, <1>3
    <3> HIDE DEF full, T
    <3> QED
      BY <3>1, <3>2, NamesAreShort
  <2>3. ASSUME ~SameOrigin(u, primary) PROVE Len(placeu) < NameLimit
    <3>1. Len(outsideu) = 2 /\ outsideu[2] = placeu
      BY <1>4, <2>3
    <3> QED
      BY <2>2, <3>1
  <2> QED
    BY <2>2, <2>3
<1>8. outsideu \o aboveu = outsidev \o abovev /\ leafu = leafv
  <2> DEFINE x == outsideu \o aboveu
             y == outsidev \o abovev
  <2>1. x \in Seq(W) /\ y \in Seq(W)
    BY <1>1, <1>2, ConcatProperties
  <2>2. Append(x, leafu) = Append(y, leafv)
    BY <1>1, <1>2
  <2> HIDE DEF x, y, leafu, leafv
  <2>3. x = y /\ leafu = leafv
    BY <1>3, <2>1, <2>2, AppendEnds
  <2> QED
    BY <2>3 DEF x, y
<1>9. /\ ownu = ownv /\ (queryu = None <=> queryv = None)
      /\ queryu # None => ShortHash(queryu) = ShortHash(queryv)
  <2>1. /\ Leaf(ownu, queryu, "html") = Leaf(ownv, queryv, "html")
        /\ Len(Leaf(ownu, queryu, "html")) < NameLimit
    BY <1>8, <1>13
  <2> HIDE DEF T
  <2> QED
    BY <1>1, <1>2, <1>5, <1>6, <2>1, LeavesApart
<1>10. SameOrigin(u, primary) <=> SameOrigin(v, primary)
  <2>1. ASSUME SameOrigin(u, primary), ~SameOrigin(v, primary) PROVE FALSE
    <3>1. <<>> \o aboveu = <<external, placev>> \o abovev
      BY <1>4, <1>8, <2>1
    <3> QED
      BY <1>1, <1>2, <1>3, <3>1, NeverAmongOthers
  <2>2. ASSUME SameOrigin(v, primary), ~SameOrigin(u, primary) PROVE FALSE
    <3>1. <<>> \o abovev = <<external, placeu>> \o aboveu
      BY <1>4, <1>8, <2>2
    <3> QED
      BY <1>1, <1>2, <1>3, <3>1, NeverAmongOthers
  <2> QED
    BY <2>1, <2>2
<1>11. SameOrigin(u, v) /\ aboveu = abovev
  <2>1. CASE SameOrigin(u, primary)
    <3>1. <<>> \o aboveu = <<>> \o abovev
      BY <1>4, <1>8, <1>10, <2>1
    <3>2. aboveu = abovev
      BY <1>1, <1>2, <3>1, ConcatEmptySeq
    <3>3. SameOrigin(v, primary)
      BY <1>10, <2>1
    <3>4. SameOrigin(u, v)
      BY <2>1, <3>3 DEF SameOrigin
    <3> QED
      BY <3>2, <3>4
  <2>2. CASE ~SameOrigin(u, primary)
    <3>1. <<external, placeu>> \o aboveu = <<external, placev>> \o abovev
      BY <1>4, <1>8, <1>10, <2>2
    <3>2. placeu = placev /\ aboveu = abovev
      <4> DEFINE p == <<external, placeu>>
                 q == <<external, placev>>
      <4>1. p = <<external, placeu>> /\ q = <<external, placev>> /\ p \o aboveu = q \o abovev
        BY <3>1
      <4> HIDE DEF p, q
      <4>2. external \in W /\ placeu \in W /\ placev \in W /\ aboveu \in Seq(W) /\ abovev \in Seq(W)
        BY <1>1, <1>2, <1>3
      <4>3. placeu = placev
        BY <4>1, <4>2, TwoAndRest
      <4>4. p = q /\ p \in Seq(W)
        BY <4>1, <4>2, <4>3
      <4>5. aboveu = abovev
        BY <4>1, <4>2, <4>4, ConcatSimplifications
      <4> QED
        BY <4>3, <4>5
    <3>3. ASSUME PlainOrigin(u), PlainOrigin(v) PROVE SameOrigin(u, v)
      <4> DEFINE s == u.scheme
                 h == Bare(u.host)
                 k == u.port
                 t == v.scheme
                 g == Bare(v.host)
                 l == v.port
      <4>1. S \subseteq T /\ Underscore \in T /\ "http" \in T /\ ShowPort(k) \in T /\ ShowPort(l) \in T
        OBVIOUS
      <4> HIDE DEF T
      <4>2. HostKept(T, h) /\ HostKept(T, g)
        BY <3>3, <4>1, HostIsKept
      <4>3. PortKept(k) /\ PortKept(l)
        <5>1. u.port \in PortNumbers /\ v.port \in PortNumbers
          BY DEF UrlOver, UrlParts
        <5> QED
          BY <5>1, PortIsKept
      <4>4. /\ Sanitize(OriginName(s, h, k)) = Sanitize(OriginName(t, g, l))
            /\ Len(Sanitize(OriginName(s, h, k))) < NameLimit
        BY <1>13, <2>2, <3>2 DEF placeu, placev
      <4>5. s \in {"http", "https"} /\ t \in {"http", "https"}
        BY <1>7
      <4> HIDE DEF s, h, k, t, g, l
      <4>6. s = t /\ h = g /\ k = l
        BY <4>1, <4>2, <4>3, <4>4, <4>5, OriginsApart
      <4> QED
        BY <4>6 DEF SameOrigin, s, h, k, t, g, l
    <3> QED
      BY <3>2, <3>3
  <2> QED
    BY <2>1, <2>2
<1>12. u.path = v.path
  <2>1. Last(u.path) = "/" <=> Last(v.path) = "/"
    BY <1>1, <1>2, <1>9
  <2>2. Segments(u.path) = Segments(v.path)
    BY <1>1, <1>2, <1>9, <1>11, <2>1
  <2> DEFINE first == Last(u.path) = "/"
             second == Last(v.path) = "/"
             segments == Segments(u.path)
  <2>3. u.path = Absolute(segments, first) /\ v.path = Absolute(segments, second)
    BY <1>1, <1>2, <2>2
  <2>4. Absolute(segments, first) = Absolute(segments, second)
    BY <2>1 DEF Absolute
  <2> QED
    BY <2>3, <2>4
<1> QED
  BY <1>9, <1>11, <1>12 DEF SamePage, queryu, queryv

\* Where the elements of a concatenation with two more are.
LEMMA TwoAtTheEnd ==
  ASSUME NEW W, NEW s \in Seq(W), NEW a \in W, NEW b \in W
  PROVE  /\ Len(s \o <<a, b>>) = Len(s) + 2 /\ s \o <<a, b>> \in Seq(W)
         /\ (s \o <<a, b>>)[Len(s) + 1] = a /\ (s \o <<a, b>>)[Len(s) + 2] = b
<1> DEFINE two == <<a, b>>
<1>1. two \in Seq(W) /\ Len(two) = 2 /\ two[1] = a /\ two[2] = b /\ Len(s) \in Nat
  OBVIOUS
<1> HIDE DEF two
<1>2. /\ s \o two \in Seq(W) /\ Len(s \o two) = Len(s) + 2
      /\ \A i \in 1 .. Len(s) + 2 : (s \o two)[i] = IF i <= Len(s) THEN s[i] ELSE two[i - Len(s)]
  <2>1. /\ s \o two \in Seq(W) /\ Len(s \o two) = Len(s) + Len(two)
        /\ \A i \in 1 .. Len(s) + Len(two) :
             (s \o two)[i] = IF i <= Len(s) THEN s[i] ELSE two[i - Len(s)]
    BY <1>1, ConcatProperties
  <2> QED
    BY <1>1, <2>1
<1>3. /\ Len(s) + 1 \in 1 .. Len(s) + 2 /\ ~ (Len(s) + 1 <= Len(s)) /\ Len(s) + 1 - Len(s) = 1
      /\ Len(s) + 2 \in 1 .. Len(s) + 2 /\ ~ (Len(s) + 2 <= Len(s)) /\ Len(s) + 2 - Len(s) = 2
  BY <1>1
<1> QED
  BY <1>1, <1>2, <1>3 DEF two

\* The path of a plain page that has not been shortened is none of those that have been.
LEMMA NeverLong ==
  ASSUME NEW S, "/" \in S, NEW u, UrlOver(S, u), IsHttp(u), Plain(u),
         NEW full, full = FullPath(u, Site, "html"),
         NEW V, NEW x \in Seq(V), x # <<>>, Long \in V, NEW y \in V
  PROVE  full # x \o <<Long, y>>
<1> DEFINE external == <<Underscore, "external">>
           place == Sanitize(OriginName(u.scheme, Bare(u.host), u.port))
           above == Above(u)
           own == Own(u)
           outside == Outside(u, Site)
           leaf == Leaf(own, u.query, "html")
           T == S \cup {"index", ".", "html"}
           W == Seq(T) \cup {external, place, leaf}
           names == outside \o above
<1>1. /\ above \in Seq(W) /\ outside \in Seq(W)
      /\ \A i \in 1 .. Len(above) : above[i] # Long
      /\ full = Append(names, leaf)
  <2>1. S \cup {"index", ".", "html"} \subseteq T /\ Seq(T) \subseteq W /\ external \in W /\ place \in W
    OBVIOUS
  <2> DEFINE primary == Site
  <2> HIDE DEF T, W, external, place, above, own, outside, primary
  <2>2. StoredPlainly(T, W, u, primary, above, own, outside)
    BY <2>1, PlainPath DEF external, place, above, own, outside, primary
  <2> QED
    BY <2>2 DEF StoredPlainly, leaf, primary
<1>2. /\ ~SameOrigin(u, Site) => outside = <<external, place>> /\ place # Long
      /\ SameOrigin(u, Site) => outside = <<>>
  <2>1. SameOrigin(u, Site) => outside = <<>>
    BY DEF Outside
  <2>2. ASSUME ~SameOrigin(u, Site) PROVE outside = <<external, place>> /\ outside = ExternalDir(u)
    BY <2>2, OutsideNames DEF Outside
  <2>3. ExternalDir(u)[2] # Long
    BY DEF Plain
  <2> HIDE DEF external, place, outside
  <2> QED
    BY <2>1, <2>2, <2>3
<1>3. leaf \in W
  OBVIOUS
<1> HIDE DEF external, place, above, own, outside, leaf, T, W, names
<1>4. /\ names \in Seq(W) /\ Len(names) = Len(outside) + Len(above)
      /\ \A i \in 1 .. Len(outside) + Len(above) :
           names[i] = IF i <= Len(outside) THEN outside[i] ELSE above[i - Len(outside)]
      /\ Len(outside) \in Nat /\ Len(above) \in Nat
  BY <1>1, ConcatProperties DEF names
<1>5. /\ Len(full) = Len(names) + 1 /\ \A i \in 1 .. Len(names) : full[i] = names[i]
  <2>1. /\ Len(Append(names, leaf)) = Len(names) + 1
        /\ \A i \in 1 .. Len(names) : Append(names, leaf)[i] = names[i]
    BY <1>3, <1>4, AppendProperties
  <2> QED
    BY <1>1, <2>1
<1> SUFFICES ASSUME full = x \o <<Long, y>> PROVE FALSE
  OBVIOUS
<1>6. Len(full) = Len(x) + 2 /\ full[Len(x) + 1] = Long /\ Len(x) \in Nat \ {0}
  BY TwoAtTheEnd
<1>7. Len(names) = Len(x) + 1 /\ Len(names) >= 2
  BY <1>4, <1>5, <1>6
<1>8. names[Len(names)] = Long
  BY <1>5, <1>6, <1>7
<1>9. CASE Len(above) # 0
  <2>1. /\ Len(names) \in 1 .. Len(outside) + Len(above) /\ ~ (Len(names) <= Len(outside))
        /\ Len(names) - Len(outside) = Len(above) /\ Len(above) \in 1 .. Len(above)
    BY <1>4, <1>9
  <2>2. names[Len(names)] = above[Len(above)]
    BY <1>4, <2>1
  <2> QED
    BY <1>1, <1>8, <2>1, <2>2
<1>10. CASE Len(above) = 0
  <2>1. Len(outside) >= 2
    BY <1>4, <1>7, <1>10
  <2>2. outside = <<external, place>> /\ place # Long
    BY <1>2, <2>1
  <2>3. Len(outside) = 2 /\ outside[2] = place
    BY <2>2
  <2>4. names[Len(names)] = outside[2]
    BY <1>4, <1>7, <1>10, <2>3
  <2> QED
    BY <1>8, <2>2, <2>3, <2>4
<1> QED
  BY <1>9, <1>10

\* Two words, each with something behind it, begin with the words.
LEMMA FirstWords ==
  ASSUME NEW S, NEW a \in S, NEW b \in S, NEW x \in Seq(S), NEW y \in Seq(S),
         <<a>> \o x = <<b>> \o y
  PROVE  a = b
<1> DEFINE one == <<a>>
           other == <<b>>
<1>1. one \in Seq(S) /\ one # <<>> /\ one[1] = a /\ other \in Seq(S) /\ other # <<>> /\ other[1] = b
  OBVIOUS
<1>2. one \o x = other \o y
  OBVIOUS
<1> HIDE DEF one, other
<1>3. (one \o x)[1] = a /\ (other \o y)[1] = b
  BY <1>1, ConcatEnds
<1> QED
  BY <1>2, <1>3

\* Two plain pages that are stored in one file have one path, shortened or not, if no two
\* paths have one hash.
LEMMA OneFileOnePath ==
  ASSUME EveryHashIsName, NEW S, "/" \in S,
         NEW u, UrlOver(S, u), IsHttp(u), Plain(u),
         NEW v, UrlOver(S, v), IsHttp(v), Plain(v), ~Clash(u, v),
         PathFor(u, Site, "html") = PathFor(v, Site, "html")
  PROVE  FullPath(u, Site, "html") = FullPath(v, Site, "html")
<1> DEFINE a == FullPath(u, Site, "html")
           b == FullPath(v, Site, "html")
           hasha == ShortHash(Join(a))
           hashb == ShortHash(Join(b))
           T == NameCharacters(S, u) \cup NameCharacters(S, v) \cup {hasha, hashb}
           N == SafeNames(T)
           enda == Ending(Last(a))
           endb == Ending(Last(b))
           lasta == <<hasha>> \o enda
           lastb == <<hashb>> \o endb
           V == N \cup {Long, lasta, lastb}
<1>1. /\ "/" \in T /\ Words \subseteq T /\ \A e \in DOMAIN Unescaped : Unescaped[e] \in T
      /\ NameCharacters(S, u) \subseteq T /\ NameCharacters(S, v) \subseteq T
      /\ hasha \in T /\ hashb \in T
  BY DEF NameCharacters
<1>2. Shortened(a) = Shortened(b) /\ ~Clash(u, v)
  BY DEF PathFor
<1> HIDE DEF T
<1>3. a \in Seq(N) \ {<<>>} /\ b \in Seq(N) \ {<<>>}
  BY <1>1, PathIsSafe
<1>4. a = b \/ hasha # hashb
  BY <1>2 DEF Clash, PagePath
<1>5. /\ Shortened(a) = IF Len(Join(a)) <= PathLimit THEN a ELSE Beginning(a) \o <<Long, lasta>>
      /\ Shortened(b) = IF Len(Join(b)) <= PathLimit THEN b ELSE Beginning(b) \o <<Long, lastb>>
  BY DEF Shortened
<1>6. Len(Join(a)) \in Nat /\ Len(Join(b)) \in Nat
  <2>1. N \subseteq Seq(T) /\ <<>> \in Seq(T)
    BY DEF SafeNames
  <2> HIDE DEF N, a, b
  <2>2. a \in Seq(Seq(T)) /\ b \in Seq(Seq(T))
    BY <1>3, <2>1, SeqsOfMore
  <2>3. Join(a) \in Seq(T) /\ Join(b) \in Seq(T)
    BY <1>1, <2>1, <2>2, JoinOneMore
  <2> QED
    BY <2>3
<1>7. Len(Join(a)) > PathLimit => Beginning(a) \in Seq(N) \ {<<>>}
  <2> HIDE DEF a
  <2> QED
    BY <1>1, <1>3, BeginningIsSafe
<1>8. Len(Join(b)) > PathLimit => Beginning(b) \in Seq(N) \ {<<>>}
  <2> HIDE DEF b
  <2> QED
    BY <1>1, <1>3, BeginningIsSafe
<1>9. N \subseteq V /\ Long \in V /\ lasta \in V /\ lastb \in V
  OBVIOUS
<1>10. enda \in Seq(T) /\ endb \in Seq(T)
  <2>1. \A s \in Seq(N) \ {<<>>} : Last(s) \in Seq(T)
    <3>1. N \subseteq Seq(T)
      BY DEF SafeNames
    <3> HIDE DEF N
    <3> TAKE s \in Seq(N) \ {<<>>}
    <3>2. Len(s) \in 1 .. Len(s)
      OBVIOUS
    <3> QED
      BY <3>1, <3>2 DEF Last
  <2> HIDE DEF a, b, N
  <2> QED
    BY <1>3, <2>1, EndingIs
<1>11. ASSUME NEW w, UrlOver(S, w), IsHttp(w), Plain(w), NEW x \in Seq(N) \ {<<>>},
              NEW y \in {lasta, lastb}
       PROVE  FullPath(w, Site, "html") # x \o <<Long, y>>
  <2> HIDE DEF N, V, lasta, lastb
  <2>1. x \in Seq(V) /\ x # <<>> /\ y \in V /\ Long \in V
    BY <1>9, <1>11, SeqsOfMore
  <2> QED
    BY <1>11, <2>1, NeverLong
<1>12. a # Beginning(b) \o <<Long, lastb>> \/ ~ (Len(Join(b)) > PathLimit)
  <2> HIDE DEF b, N, lasta, lastb
  <2> QED
    BY <1>8, <1>11
<1>13. b # Beginning(a) \o <<Long, lasta>> \/ ~ (Len(Join(a)) > PathLimit)
  <2> HIDE DEF a, N, lasta, lastb
  <2> QED
    BY <1>7, <1>11
<1>14. ASSUME Len(Join(a)) > PathLimit, Len(Join(b)) > PathLimit,
              Beginning(a) \o <<Long, lasta>> = Beginning(b) \o <<Long, lastb>>
       PROVE  hasha = hashb
  <2> DEFINE x == Beginning(a)
             y == Beginning(b)
  <2> HIDE DEF x, y, N, V, a, b, lasta, lastb
  <2>1. x \in Seq(V) /\ y \in Seq(V)
    BY <1>7, <1>8, <1>9, <1>14, SeqsOfMore DEF x, y
  <2>2. /\ Len(x \o <<Long, lasta>>) = Len(x) + 2 /\ (x \o <<Long, lasta>>)[Len(x) + 2] = lasta
        /\ Len(y \o <<Long, lastb>>) = Len(y) + 2 /\ (y \o <<Long, lastb>>)[Len(y) + 2] = lastb
    BY <1>9, <2>1, TwoAtTheEnd
  <2>3. Len(x) \in Nat /\ Len(y) \in Nat
    BY <2>1
  <2>4. x \o <<Long, lasta>> = y \o <<Long, lastb>>
    BY <1>14 DEF x, y
  <2>5. lasta = lastb
    BY <2>2, <2>3, <2>4
  <2> HIDE DEF enda, endb, hasha, hashb
  <2> QED
    BY <1>1, <1>10, <2>5, FirstWords DEF lasta, lastb
<1> HIDE DEF a, b, lasta, lastb, hasha, hashb
<1>15. /\ Len(Join(a)) <= PathLimit \/ Len(Join(a)) > PathLimit
       /\ Len(Join(b)) <= PathLimit \/ Len(Join(b)) > PathLimit
       /\ ~ (Len(Join(a)) <= PathLimit /\ Len(Join(a)) > PathLimit)
       /\ ~ (Len(Join(b)) <= PathLimit /\ Len(Join(b)) > PathLimit)
  BY <1>6, NameLimits
<1>16. a = b
  BY <1>2, <1>4, <1>5, <1>12, <1>13, <1>14, <1>15
<1> QED
  BY <1>16 DEF a, b

\* Two pages with plain names, of one origin or of plain ones, are stored in one file only if
\* they are one page: relative_path_for() makes two files of two pages, as far as the hash
\* of a query, and of a path that is too long, tells it from others, and as far as no name
\* is cut: Plain() leaves out the names that are.
THEOREM PagesStayApart ==
  ASSUME HttpDocuments, ReadAsWritten, PortsAreKept, EveryHashIsName
  PROVE  AddressSpec => []PagesApart
<1>1. AddressInv => PagesApart
  <2> SUFFICES ASSUME AddressInv, NEW url \in Fetched, Plain(document), Plain(url),
                      ~Clash(document, url),
                      SameOrigin(document, url) \/ (PlainOrigin(document) /\ PlainOrigin(url)),
                      PathFor(document, Site, "html") = PathFor(url, Site, "html")
               PROVE  SamePage(document, url)
    BY DEF PagesApart
  <2> DEFINE S == Characters \cup {"/"}
             primary == Site
  <2>1. UrlOver(S, document) /\ IsHttp(document) /\ UrlOver(S, url) /\ IsHttp(url) /\ "/" \in S
    BY FetchedIsUrl DEF AddressInv
  <2> HIDE DEF S
  <2>2. FullPath(document, Site, "html") = FullPath(url, Site, "html")
    BY <2>1, OneFileOnePath
  <2>3. FullPath(document, primary, "html") = FullPath(url, primary, "html") /\ primary = Site
    BY <2>2
  <2> HIDE DEF primary
  <2> QED
    BY <2>1, <2>3, OneFileOnePage
<1> QED
  BY <1>1, AddressesAreUrls, PTL
=============================================================================
