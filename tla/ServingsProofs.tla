---------------------------- MODULE ServingsProofs ----------------------------
(***************************************************************************)
(* What the parsers of servings make of texts of any length: the times   *)
(* and the source in a summary are not looked at, and a yield that names   *)
(* one count is read as that count or as none, by each of the two.         *)
(***************************************************************************)
EXTENDS Servings, SequenceTheorems, FiniteSetTheorems, WellFoundedInduction, TLAPS

Text == Seq(Words)

\* The positions of the numbers in a text.
Numbers(text) == {i \in DOMAIN text : IsNumber(text[i])}

\* A set of positions has a first one.
LEMMA FirstIsLeast ==
    ASSUME NEW S \in SUBSET Nat, S # {}
    PROVE  First(S) \in S /\ \A j \in S : First(S) <= j
  <1>1. \E i \in S : \A j \in S : ~(<<j, i>> \in OpToRel(<, Nat))
    BY WFMin, NatLessThanWellFounded
  <1>2. PICK i \in S : \A j \in S : ~(<<j, i>> \in OpToRel(<, Nat))
    BY <1>1
  <1>3. \A j \in S : ~(j < i)
    BY <1>2, Zenon DEF OpToRel
  <1>4. \A j \in S : i <= j
    BY <1>3
  <1>. QED  BY <1>4 DEF First

\* All matches but the first of a set are left alone.
LEMMA CapturedFirst ==
    ASSUME NEW text, NEW at, NEW i \in Nat, at \in SUBSET {i}
    PROVE  Captured(text, at) \in {0, Number[text[i]]}
  <1>1. CASE at = {}  BY <1>1 DEF Captured
  <1>2. CASE at = {i}
    <2>1. First(at) = i  BY <1>2 DEF First
    <2>. QED  BY <1>2, <2>1 DEF Captured
  <1>. QED  BY <1>1, <1>2

-----------------------------------------------------------------------------
(* Summaries. *)

\* Two texts put together are a text, first the one and then the other.
LEMMA Joined ==
    ASSUME NEW s \in Text, NEW t \in Text
    PROVE  /\ s \o t \in Text
           /\ Len(s) \in Nat /\ Len(t) \in Nat /\ Len(s \o t) = Len(s) + Len(t)
           /\ DOMAIN s = 1..Len(s) /\ DOMAIN t = 1..Len(t)
           /\ DOMAIN (s \o t) = 1..Len(s) + Len(t)
           /\ \A i \in 1..Len(s) : (s \o t)[i] = s[i]
           /\ \A i \in Len(s) + 1..Len(s) + Len(t) : (s \o t)[i] = t[i - Len(s)]
  <1>1. s \in Seq(Words) /\ t \in Seq(Words)  BY DEF Text
  <1>2. /\ s \o t \in Seq(Words)
        /\ Len(s \o t) = Len(s) + Len(t)
        /\ \A i \in 1..Len(s) + Len(t) :
               (s \o t)[i] = IF i <= Len(s) THEN s[i] ELSE t[i - Len(s)]
    BY <1>1, ConcatProperties
  <1>3. Len(s) \in Nat /\ Len(t) \in Nat  BY <1>1
  <1>. QED  BY <1>1, <1>2, <1>3 DEF Text

\* A summary is its facts, and then words of its own.
LEMMA SummaryShape ==
    ASSUME NEW facts \in Text, NEW times \in Text, ~InText(Wanted, times),
           NEW source \in Text, ~InText(Wanted, source)
    PROVE  LET text == Summary(facts, times, source) IN
           /\ text \in Text
           /\ Len(facts) + 1 < Len(text)
           /\ \A i \in 1..Len(facts) : text[i] = facts[i]
           /\ ~IsNumber(text[Len(facts) + 1])
           /\ \A i \in DOMAIN text : i > Len(facts) => text[i] \notin Wanted
  <1>. DEFINE last == <<".", "adapted", "from">>
              a == facts \o <<".">>
              b == a \o times
              c == b \o last
              text == c \o source
  <1>1. /\ <<".">> \in Text /\ Len(<<".">>) = 1 /\ <<".">>[1] = "."
        /\ last \in Text /\ Len(last) = 3
        /\ \A i \in 1..3 : last[i] \in Frame
    BY WordsAssumption DEF Text, Frame
  <1>2. Summary(facts, times, source) = text  BY DEF Summary
  <1>. HIDE DEF last
  <1>3. /\ a \in Text /\ Len(facts) \in Nat /\ Len(a) = Len(facts) + 1
        /\ \A i \in 1..Len(facts) : a[i] = facts[i]
        /\ a[Len(facts) + 1] = "."
    BY <1>1, Joined
  <1>. HIDE DEF a
  <1>4. /\ b \in Text /\ Len(times) \in Nat /\ Len(b) = Len(a) + Len(times)
        /\ DOMAIN times = 1..Len(times)
        /\ \A i \in 1..Len(a) : b[i] = a[i]
        /\ \A i \in Len(a) + 1..Len(b) : b[i] = times[i - Len(a)]
    <2>1. a \in Text  BY <1>3
    <2>2. /\ b \in Text /\ Len(times) \in Nat /\ Len(b) = Len(a) + Len(times)
          /\ DOMAIN times = 1..Len(times)
          /\ \A i \in 1..Len(a) : b[i] = a[i]
          /\ \A i \in Len(a) + 1..Len(a) + Len(times) : b[i] = times[i - Len(a)]
      BY ONLY <2>1, times \in Text, Joined
    <2>. QED  BY <2>2
  <1>. HIDE DEF b
  <1>5. /\ c \in Text /\ Len(c) = Len(b) + 3
        /\ \A i \in 1..Len(b) : c[i] = b[i]
        /\ \A i \in Len(b) + 1..Len(c) : c[i] = last[i - Len(b)]
    <2>1. b \in Text /\ last \in Text  BY <1>1, <1>4
    <2>2. /\ c \in Text /\ Len(c) = Len(b) + Len(last)
          /\ \A i \in 1..Len(b) : c[i] = b[i]
          /\ \A i \in Len(b) + 1..Len(b) + Len(last) : c[i] = last[i - Len(b)]
      BY ONLY <2>1, Joined
    <2>. QED  BY <2>2, <1>1
  <1>. HIDE DEF c
  <1>6. /\ text \in Text /\ Len(source) \in Nat /\ Len(text) = Len(c) + Len(source)
        /\ DOMAIN source = 1..Len(source) /\ DOMAIN text = 1..Len(text)
        /\ \A i \in 1..Len(c) : text[i] = c[i]
        /\ \A i \in Len(c) + 1..Len(text) : text[i] = source[i - Len(c)]
    <2>1. c \in Text  BY <1>5
    <2>2. /\ text \in Text /\ Len(source) \in Nat /\ Len(text) = Len(c) + Len(source)
          /\ DOMAIN source = 1..Len(source)
          /\ DOMAIN text = 1..Len(c) + Len(source)
          /\ \A i \in 1..Len(c) : text[i] = c[i]
          /\ \A i \in Len(c) + 1..Len(c) + Len(source) : text[i] = source[i - Len(c)]
      BY ONLY <2>1, source \in Text, Joined
    <2>. QED  BY <2>2
  <1>. HIDE DEF text
  <1>7. \A i \in 1..Len(facts) : text[i] = facts[i]
    BY <1>3, <1>4, <1>5, <1>6
  <1>8. text[Len(facts) + 1] = "."
    BY <1>3, <1>4, <1>5, <1>6
  <1>9. Frame \cap Wanted = {} /\ ~IsNumber(".")
    BY WordsAssumption
    DEF Frame, Wanted, Serve, Serving, Make, Volume, To, IsNumber
  <1>10. ASSUME NEW i \in DOMAIN text, i > Len(facts) PROVE text[i] \notin Wanted
    <2>1. i \in 1..Len(text)  BY <1>6
    <2>2. CASE i = Len(facts) + 1
      BY <1>8, <1>9, <2>2 DEF Frame
    <2>3. CASE i > Len(a) /\ i <= Len(b)
      <3>1. text[i] = times[i - Len(a)]  BY <2>1, <2>3, <1>3, <1>4, <1>5, <1>6
      <3>2. i - Len(a) \in DOMAIN times  BY <2>1, <2>3, <1>3, <1>4
      <3>. QED  BY <3>1, <3>2 DEF InText
    <2>4. CASE i > Len(b) /\ i <= Len(c)
      <3>1. text[i] = last[i - Len(b)] /\ i - Len(b) \in 1..3
        BY <2>1, <2>4, <1>3, <1>4, <1>5, <1>6
      <3>. QED  BY <3>1, <1>1, <1>9
    <2>5. CASE i > Len(c)
      <3>1. text[i] = source[i - Len(c)]  BY <2>1, <2>5, <1>3, <1>4, <1>5, <1>6
      <3>2. i - Len(c) \in DOMAIN source  BY <2>1, <2>5, <1>3, <1>4, <1>5, <1>6
      <3>. QED  BY <3>1, <3>2 DEF InText
    <2>. QED  BY <1>10, <2>1, <2>2, <2>3, <2>4, <2>5, <1>3, <1>4, <1>5
  <1>. QED  BY <1>2, <1>3, <1>4, <1>5, <1>6, <1>7, <1>8, <1>9, <1>10

\* The backfill sees the facts of a summary and nothing else of it: not the
\* times, nor where the recipe is from.
LEMMA SummaryCountOfFacts ==
    ASSUME NEW facts \in Text, NEW times \in Text, ~InText(Wanted, times),
           NEW source \in Text, ~InText(Wanted, source)
    PROVE  SummaryCount(Summary(facts, times, source)) = SummaryCount(facts)
  <1>. DEFINE text == Summary(facts, times, source)
  <1>1. /\ text \in Text
        /\ Len(facts) + 1 < Len(text)
        /\ \A i \in 1..Len(facts) : text[i] = facts[i]
        /\ ~IsNumber(text[Len(facts) + 1])
        /\ \A i \in DOMAIN text : i > Len(facts) => text[i] \notin Wanted
    BY SummaryShape
  <1>2. /\ Len(facts) \in Nat /\ DOMAIN facts = 1..Len(facts)
        /\ Len(text) \in Nat /\ DOMAIN text = 1..Len(text)
    BY <1>1 DEF Text
  <1>0. Summary(facts, times, source) = text  OBVIOUS
  <1>. HIDE DEF text
  <1>3. ASSUME NEW V \in SUBSET Wanted PROVE InText(V, text) <=> InText(V, facts)
    BY <1>1, <1>2 DEF InText
  <1>4. AfterKeyword(text) = AfterKeyword(facts)
    <2>1. ASSUME NEW i \in AfterKeyword(text) PROVE i \in AfterKeyword(facts)
      <3>1. i \in 1..Len(text) /\ IsNumber(text[i]) /\ i > 1 /\ text[i - 1] \in Wanted
        BY <2>1, <1>2 DEF AfterKeyword, Wanted
      <3>2. i - 1 <= Len(facts)  BY <3>1, <1>1, <1>2
      <3>3. i # Len(facts) + 1  BY <3>1, <1>1
      <3>4. i \in 1..Len(facts)  BY <3>1, <3>2, <3>3, <1>2
      <3>. QED  BY <2>1, <3>1, <3>4, <1>1, <1>2 DEF AfterKeyword
    <2>2. ASSUME NEW i \in AfterKeyword(facts) PROVE i \in AfterKeyword(text)
      BY <2>2, <1>1, <1>2 DEF AfterKeyword
    <2>. QED  BY <2>1, <2>2
  <1>5. BeforeServings(text) = BeforeServings(facts)
    <2>1. ASSUME NEW i \in BeforeServings(text) PROVE i \in BeforeServings(facts)
      <3>1. i \in 1..Len(text) /\ i < Len(text) /\ text[i + 1] \in Wanted
        BY <2>1, <1>2 DEF BeforeServings, Wanted
      <3>2. i + 1 <= Len(facts)  BY <3>1, <1>1, <1>2
      <3>. QED  BY <2>1, <3>1, <3>2, <1>1, <1>2 DEF BeforeServings
    <2>2. ASSUME NEW i \in BeforeServings(facts) PROVE i \in BeforeServings(text)
      BY <2>2, <1>1, <1>2 DEF BeforeServings
    <2>. QED  BY <2>1, <2>2
  <1>6. RangeBefore(text) = RangeBefore(facts)
    <2>1. ASSUME NEW i \in RangeBefore(text) PROVE i \in RangeBefore(facts)
      <3>1. i \in 1..Len(text) /\ i + 2 < Len(text) /\ text[i + 3] \in Wanted
        BY <2>1, <1>2 DEF RangeBefore, Wanted
      <3>2. i + 3 <= Len(facts)  BY <3>1, <1>1, <1>2
      <3>. QED  BY <2>1, <3>1, <3>2, <1>1, <1>2 DEF RangeBefore
    <2>2. ASSUME NEW i \in RangeBefore(facts) PROVE i \in RangeBefore(text)
      BY <2>2, <1>1, <1>2 DEF RangeBefore
    <2>. QED  BY <2>1, <2>2
  <1>7. ASSUME NEW at \in SUBSET DOMAIN facts
        PROVE  Captured(text, at) = Captured(facts, at)
    <2>1. CASE at = {}  BY <2>1 DEF Captured
    <2>2. CASE at # {}
      <3>1. First(at) \in at  BY <2>2, <1>2, FirstIsLeast
      <3>2. text[First(at)] = facts[First(at)]  BY <3>1, <1>1, <1>2
      <3>. QED  BY <3>2 DEF Captured
    <2>. QED  BY <2>1, <2>2
  <1>8. Captured(text, AfterKeyword(facts)) = Captured(facts, AfterKeyword(facts))
    BY <1>7 DEF AfterKeyword
  <1>9. Captured(text, BeforeServings(facts)) = Captured(facts, BeforeServings(facts))
    BY <1>7 DEF BeforeServings
  <1>10. Captured(text, RangeBefore(facts)) = Captured(facts, RangeBefore(facts))
    BY <1>7 DEF RangeBefore
  <1>11. /\ InText(Volume, text) <=> InText(Volume, facts)
         /\ InText(Serving \cup Serve, text) <=> InText(Serving \cup Serve, facts)
    BY <1>3 DEF Wanted
  <1>. QED
    BY <1>0, <1>4, <1>5, <1>6, <1>8, <1>9, <1>10, <1>11 DEF SummaryCount

\* A summary that says nothing is read as nothing, whatever its times are.
LEMMA NoFactsNoCount ==
    ASSUME NEW times \in Text, ~InText(Wanted, times),
           NEW source \in Text, ~InText(Wanted, source)
    PROVE  SummaryCount(Summary(<<>>, times, source)) = 0
  <1>1. <<>> \in Text  BY DEF Text
  <1>2. SummaryCount(Summary(<<>>, times, source)) = SummaryCount(<<>>)
    BY <1>1, SummaryCountOfFacts
  <1>3. /\ AfterKeyword(<<>>) = {} /\ BeforeServings(<<>>) = {} /\ RangeBefore(<<>>) = {}
    BY DEF AfterKeyword, BeforeServings, RangeBefore
  <1>. QED  BY <1>2, <1>3 DEF SummaryCount, Captured

-----------------------------------------------------------------------------
(* Yields. *)

\* The number of a yield that names one count is at i: the only one there is,
\* or the low end of a range.
CountAt(y, i) ==
    /\ i \in DOMAIN y /\ i \in Nat /\ IsNumber(y[i])
    /\ \/ Numbers(y) = {i}
       \/ Numbers(y) = {i, i + 2} /\ y[i + 1] \in To

\* There is such a place.
LEMMA OneCountIsAt ==
    ASSUME NEW y \in Text, OneCount(y)
    PROVE  \E i : CountAt(y, i)
  <1>1. DOMAIN y = 1..Len(y) /\ Len(y) \in Nat  BY DEF Text
  <1>2. OneCount(y) <=>
          \/ Cardinality(Numbers(y)) = 1
          \/ \E i \in DOMAIN y : Numbers(y) = {i, i + 2} /\ y[i + 1] \in To
    BY DEF OneCount, Numbers
  <1>3. CASE Cardinality(Numbers(y)) = 1
    <2>1. Numbers(y) \in SUBSET (1..Len(y))  BY <1>1 DEF Numbers
    <2>2. IsFiniteSet(1..Len(y))  BY <1>1, FS_Interval
    <2>3. IsFiniteSet(Numbers(y))  BY <2>1, <2>2, FS_Subset
    <2>4. PICK i : Numbers(y) = {i}  BY <1>3, <2>3, FS_Singleton
    <2>5. CountAt(y, i)  BY <1>1, <2>4 DEF CountAt, Numbers
    <2>. QED  BY <2>5
  <1>4. ASSUME NEW i \in DOMAIN y, Numbers(y) = {i, i + 2}, y[i + 1] \in To
        PROVE  CountAt(y, i)
    BY <1>1, <1>4 DEF CountAt, Numbers
  <1>. QED  BY <1>2, <1>3, <1>4

\* The importer of the API reads that number, or none.
LEMMA ImportedIsCount ==
    ASSUME NEW y \in Text, NEW i, CountAt(y, i)
    PROVE  ImportedCount(y) \in {0, Number[y[i]]}
  <1>1. DOMAIN y = 1..Len(y) /\ Len(y) \in Nat  BY DEF Text
  <1>2. i \in Nat /\ i \in DOMAIN y  BY DEF CountAt
  <1>3. To \cap (Serve \cup Serving \cup Make) = {}
    BY DEF To, Serve, Serving, Make
  <1>. DEFINE at == Announced(y)
              words == {j \in DOMAIN y : y[j] \in Serve \cup Serving \cup Make}
  <1>4. at = IF 1 \in Numbers(y) THEN {1}
             ELSE {k \in Numbers(y) : \E j \in words : j < k}
    BY DEF Announced, Numbers
  <1>5. \A w \in Serve \cup Serving \cup Make : ~IsNumber(w)
    BY WordsAssumption DEF Wanted, IsNumber
  <1>6. at = {} \/ at = {i} \/ at = {i, i + 2}
    <2>1. CASE Numbers(y) = {i}  BY <1>4, <2>1
    <2>2. CASE Numbers(y) = {i, i + 2} /\ y[i + 1] \in To
      <3>1. CASE 1 \in Numbers(y)  BY <1>1, <1>2, <1>4, <2>2, <3>1
      <3>2. CASE 1 \notin Numbers(y)
        <4>1. ASSUME NEW j \in words, j < i + 2 PROVE j < i
          <5>1. j # i  BY <4>1, <1>5 DEF CountAt
          <5>2. j # i + 1  BY <4>1, <1>3, <2>2
          <5>. QED  BY <4>1, <5>1, <5>2, <1>1, <1>2
        <4>. QED  BY <1>4, <2>2, <3>2, <4>1
      <3>. QED  BY <3>1, <3>2
    <2>. QED  BY <2>1, <2>2 DEF CountAt
  <1>7. at # {} => First(at) = i
    <2>. HIDE DEF at
    <2>. QED  BY <1>2, <1>6 DEF First
  <1>8. Captured(y, at) \in {0, Number[y[i]]}
    <2>. HIDE DEF at
    <2>. QED  BY <1>7 DEF Captured
  <1>. QED  BY <1>8 DEF ImportedCount

\* So does the backfill, from the yield as both importers write it.
LEMMA SummarizedIsCount ==
    ASSUME NEW y \in Text, NEW i, CountAt(y, i)
    PROVE  /\ YieldText(y) \in Text
           /\ SummaryCount(YieldText(y)) \in {0, Number[y[i]]}
  <1>1. DOMAIN y = 1..Len(y) /\ Len(y) \in Nat  BY DEF Text
  <1>2. i \in Nat /\ i \in DOMAIN y  BY DEF CountAt
  <1>3. \A w \in Wanted : ~IsNumber(w)  BY WordsAssumption DEF IsNumber
  <1>4. CASE \A j \in DOMAIN y : IsNumber(y[j])
    <2>1. Numbers(y) = 1..Len(y)  BY <1>1, <1>4 DEF Numbers
    <2>2. Numbers(y) = {i}
      <3>1. ~(Numbers(y) = {i, i + 2} /\ y[i + 1] \in To)
        BY <1>1, <1>2, <1>3, <2>1 DEF Numbers, Wanted
      <3>. QED  BY <3>1 DEF CountAt
    <2>3. Len(y) = 1 /\ i = 1
      <3>1. 1 \in 1..Len(y) /\ Len(y) \in 1..Len(y)  BY <1>1, <1>2
      <3>. QED  BY <2>1, <2>2, <3>1
    <2>. DEFINE t == <<"serves">> \o y
    <2>4. YieldText(y) = t
      <3>1. y # <<>>  BY <2>3
      <3>. QED  BY <1>4, <3>1 DEF YieldText
    <2>5. /\ <<"serves">> \in Text /\ Len(<<"serves">>) = 1
          /\ <<"serves">>[1] = "serves"
      BY WordsAssumption DEF Text, Wanted, Serve
    <2>6. /\ t \in Text /\ DOMAIN t = 1..2 /\ Len(t) = 2
          /\ t[1] = "serves" /\ t[2] = y[1]
      <3>1. /\ t \in Text /\ DOMAIN t = 1..1 + Len(y) /\ Len(t) = 1 + Len(y)
            /\ \A k \in 1..1 : t[k] = <<"serves">>[k]
            /\ \A k \in 2..1 + Len(y) : t[k] = y[k - 1]
        BY ONLY <2>5, y \in Text, Joined
      <3>. HIDE DEF t
      <3>. QED  BY <2>3, <2>5, <3>1
    <2>. HIDE DEF t
    <2>7. /\ RangeBefore(t) = {} /\ BeforeServings(t) = {}
          /\ AfterKeyword(t) \in SUBSET {2}
      <3>1. "serves" \in Wanted /\ Serving \subseteq Wanted
        BY DEF Wanted, Serve
      <3>2. ~IsNumber(t[1]) /\ t[2] \notin Serving
        BY <1>2, <1>3, <2>3, <2>6, <3>1 DEF CountAt
      <3>. QED  BY <2>6, <3>2 DEF RangeBefore, BeforeServings, AfterKeyword
    <2>8. Captured(t, AfterKeyword(t)) \in {0, Number[t[2]]}
      BY <2>7, CapturedFirst
    <2>. QED  BY <2>3, <2>4, <2>6, <2>7, <2>8 DEF SummaryCount
  <1>5. CASE ~(\A j \in DOMAIN y : IsNumber(y[j]))
    <2>1. YieldText(y) = y  BY <1>5 DEF YieldText
    <2>2. /\ AfterKeyword(y) \in SUBSET Numbers(y)
          /\ BeforeServings(y) \in SUBSET Numbers(y)
          /\ RangeBefore(y) \in SUBSET Numbers(y)
      BY DEF AfterKeyword, BeforeServings, RangeBefore, Numbers
    <2>3. i + 2 \notin RangeBefore(y)
      <3>1. i + 4 \notin Numbers(y)  BY <1>2 DEF CountAt
      <3>. QED  BY <1>1, <1>2, <3>1 DEF RangeBefore, Numbers
    <2>4. RangeBefore(y) \in SUBSET {i}  BY <2>2, <2>3 DEF CountAt
    <2>5. i + 2 \notin AfterKeyword(y)
      <3>1. CASE Numbers(y) = {i}  BY <1>2, <2>2, <3>1
      <3>2. CASE y[i + 1] \in To
        BY <1>2, <3>2 DEF AfterKeyword, To, Serve, Make
      <3>. QED  BY <3>1, <3>2 DEF CountAt
    <2>6. AfterKeyword(y) \in SUBSET {i}  BY <2>2, <2>5 DEF CountAt
    <2>7. ASSUME RangeBefore(y) = {} PROVE i + 2 \notin BeforeServings(y)
      <3>1. CASE Numbers(y) = {i}  BY <1>2, <2>2, <3>1
      <3>2. CASE Numbers(y) = {i, i + 2} /\ y[i + 1] \in To
        <4>1. SUFFICES ASSUME i + 2 \in BeforeServings(y) PROVE FALSE  OBVIOUS
        <4>2. i + 2 < Len(y) /\ y[i + 3] \in Serving /\ IsNumber(y[i + 2])
          BY <1>1, <1>2, <4>1 DEF BeforeServings
        <4>3. i \in RangeBefore(y)
          BY <1>1, <1>2, <3>2, <4>2 DEF RangeBefore, CountAt
        <4>. QED  BY <2>7, <4>3
      <3>. QED  BY <3>1, <3>2 DEF CountAt
    <2>8. RangeBefore(y) = {} => BeforeServings(y) \in SUBSET {i}
      BY <2>2, <2>7 DEF CountAt
    <2>9. /\ Captured(y, RangeBefore(y)) \in {0, Number[y[i]]}
          /\ Captured(y, AfterKeyword(y)) \in {0, Number[y[i]]}
          /\ RangeBefore(y) = {} => Captured(y, BeforeServings(y)) \in {0, Number[y[i]]}
      BY <1>2, <2>4, <2>6, <2>8, CapturedFirst
    <2>. QED  BY <2>1, <2>9 DEF SummaryCount
  <1>. QED  BY <1>4, <1>5

-----------------------------------------------------------------------------
(* The two roads into the table. *)

\* What a backfill makes of a default of 1.
LEMMA BackfilledDefault ==
    ASSUME NEW text, NEW n \in Int, SummaryCount(text) \in {0, n}
    PROVE  Backfilled(1, text) \in {1, n}
  BY DEF Backfilled

\* A yield that names one count is given that count or 1 by either road.
LEMMA RoadsAgree ==
    ASSUME NEW y \in Text, OneCount(y), NEW times \in Text, ~InText(Wanted, times),
           NEW source \in Text, ~InText(Wanted, source)
    PROVE  \E n \in Nat : /\ ByApi(y, times, source) \in {1, n}
                          /\ ByScript(y, times, source) \in {1, n}
  <1>1. PICK i : CountAt(y, i)  BY OneCountIsAt
  <1>. DEFINE n == Number[y[i]]
  <1>2. n \in Nat  BY <1>1, WordsAssumption DEF CountAt, IsNumber
  <1>3. ImportedCount(y) \in {0, n}  BY <1>1, ImportedIsCount
  <1>4. YieldText(y) \in Text /\ SummaryCount(YieldText(y)) \in {0, n}
    BY <1>1, SummarizedIsCount
  <1>. HIDE DEF n
  <1>5. SummaryCount(Summary(YieldText(y), times, source)) \in {0, n}
    BY <1>4, SummaryCountOfFacts
  <1>6. Backfilled(1, Summary(YieldText(y), times, source)) \in {1, n}
    BY <1>2, <1>5, BackfilledDefault
  <1>7. ByScript(y, times, source) \in {1, n}  BY <1>6 DEF ByScript
  <1>8. CASE ImportedCount(y) = 0
    <2>1. ByApi(y, times, source) = Backfilled(1, Summary(YieldText(y), times, source))
      BY <1>8 DEF ByApi, ImportedSummary
    <2>. QED  BY <1>2, <1>6, <1>7, <2>1
  <1>9. CASE ImportedCount(y) # 0
    <2>1. ByApi(y, times, source) = Backfilled(n, Summary(<<>>, times, source))
      BY <1>3, <1>9 DEF ByApi, ImportedSummary
    <2>2. SummaryCount(Summary(<<>>, times, source)) = 0  BY NoFactsNoCount
    <2>. QED  BY <1>2, <1>7, <2>1, <2>2 DEF Backfilled
  <1>. QED  BY <1>2, <1>7, <1>8, <1>9

\* Without its times and its source a summary says the same.
LEMMA TimesAreLost ==
    ASSUME NEW y \in Text, NEW times \in Text, ~InText(Wanted, times),
           NEW source \in Text, ~InText(Wanted, source)
    PROVE  /\ ByApi(y, times, source) = ByApi(y, <<>>, <<>>)
           /\ ByScript(y, times, source) = ByScript(y, <<>>, <<>>)
  <1>1. YieldText(y) \in Text /\ <<>> \in Text
    <2>1. <<"serves">> \in Text  BY WordsAssumption DEF Text, Wanted, Serve
    <2>2. <<>> \in Text  BY DEF Text
    <2>3. <<"serves">> \o y \in Text  BY <2>1, Joined
    <2>. QED  BY <2>2, <2>3 DEF YieldText
  <1>2. ~InText(Wanted, <<>>)  BY DEF InText
  <1>3. ASSUME NEW facts \in Text
        PROVE  /\ SummaryCount(Summary(facts, times, source)) = SummaryCount(facts)
               /\ SummaryCount(Summary(facts, <<>>, <<>>)) = SummaryCount(facts)
    BY <1>1, <1>2, SummaryCountOfFacts
  <1>4. ASSUME NEW facts \in Text, NEW n
        PROVE  Backfilled(n, Summary(facts, times, source))
                 = Backfilled(n, Summary(facts, <<>>, <<>>))
    BY <1>3 DEF Backfilled
  <1>. QED  BY <1>1, <1>4 DEF ByApi, ByScript, ImportedSummary

=============================================================================
