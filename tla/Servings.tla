------------------------------- MODULE Servings -------------------------------
(***************************************************************************)
(* How many a recipe serves, as read from prose in two places: by the API  *)
(* from the yield of a page it imports, and by backfill_servings.py from   *)
(* the summary that import_recipe.py wrote of such a yield.                *)
(*                                                                         *)
(* A text is a sequence of words; the regular expressions of the code look *)
(* at words and at what stands next to them.  0 stands for None.           *)
(***************************************************************************)
EXTENDS Integers, Sequences, FiniteSets

CONSTANTS
    Words,      \* of the texts: those the code looks for or writes, and others
    Number      \* Number[w]: the number a word is, for those that are numbers

Serve == {"serves"}             \* serves?
Serving == {"servings"}         \* servings?
Make == {"makes"}               \* makes|yields?
Volume == {"cups"}              \* the units of _VOLUME_RE
To == {"to"}                    \* to|or|-

\* The words an expression looks for.
Wanted == Serve \cup Serving \cup Make \cup Volume \cup To

IsNumber(w) == w \in DOMAIN Number

\* What build_summary writes between the facts and after them.
Frame == {".", "adapted", "from"}

ASSUME WordsAssumption ==
    /\ Wanted \cup Frame \subseteq Words \ DOMAIN Number
    /\ Number \in [DOMAIN Number -> Nat]

InText(words, text) == \E i \in DOMAIN text : text[i] \in words
First(S) == CHOOSE i \in S : \A j \in S : i <= j

\* The number a pattern captures at its leftmost match, 0 if it has none, or
\* one that is out of the schema's range.
Captured(text, at) ==
    IF at = {} THEN 0
    ELSE LET n == Number[text[First(at)]] IN IF n \in 1..1000 THEN n ELSE 0

-----------------------------------------------------------------------------
(* recipe_import.py, inside the API. *)

\* Where _SERVINGS_RE captures: a number that opens the text, else the first
\* number anywhere after the first of the words that announce one.
Announced(text) ==
    LET words == {i \in DOMAIN text : text[i] \in Serve \cup Serving \cup Make}
        numbers == {i \in DOMAIN text : IsNumber(text[i])}
    IN  IF 1 \in numbers THEN {1}
        ELSE {i \in numbers : \E j \in words : j < i}

\* parse_servings of recipe_import.py
ImportedCount(text) ==
    IF InText(Volume, text) THEN 0 ELSE Captured(text, Announced(text))

\* _yield_text of both importers: a yield without a letter gets "Serves".
YieldText(yield) ==
    IF \A i \in DOMAIN yield : IsNumber(yield[i])
    THEN (IF yield = <<>> THEN <<>> ELSE <<"serves">> \o yield)
    ELSE yield

\* build_summary: facts joined by full stops, then where the recipe is from, by
\* name and address.
Summary(facts, times, source) ==
    facts \o <<".">> \o times \o <<".", "adapted", "from">> \o source

\* build_summary of the API leaves out a yield it has made a count of.
ImportedSummary(yield, times, source) ==
    Summary(IF ImportedCount(yield) = 0 THEN YieldText(yield) ELSE <<>>, times, source)

-----------------------------------------------------------------------------
(* backfill_servings.py, over the summaries of what is in the table. *)

\* Variant: _KW_BEFORE as it was, "servings" and then any number further on.
LooseAfter(text) ==
    {i \in DOMAIN text : IsNumber(text[i]) /\
        \E j \in 1..(i - 1) : text[j] \in Serve \cup Serving \cup Make}

\* Where _KW_BEFORE, _NUM_BEFORE and _RANGE_BEFORE capture.
AfterKeyword(text) ==
    {i \in DOMAIN text : IsNumber(text[i]) /\ i > 1 /\ text[i - 1] \in Serve \cup Make}

BeforeServings(text) ==
    {i \in DOMAIN text : IsNumber(text[i]) /\ i < Len(text) /\ text[i + 1] \in Serving}

\* Variant: no pattern for a range.
RangeIgnored(text) == {}

RangeBefore(text) ==
    {i \in DOMAIN text : IsNumber(text[i]) /\ i + 2 < Len(text) /\ text[i + 1] \in To
                         /\ IsNumber(text[i + 2]) /\ text[i + 3] \in Serving}

\* parse_servings of backfill_servings.py: the first pattern that matches.
SummaryCount(text) ==
    IF InText(Volume, text) /\ ~InText(Serving \cup Serve, text) THEN 0
    ELSE IF RangeBefore(text) # {} THEN Captured(text, RangeBefore(text))
    ELSE IF BeforeServings(text) # {} THEN Captured(text, BeforeServings(text))
    ELSE Captured(text, AfterKeyword(text))

\* The servings a recipe ends with once the backfill has run: it only touches
\* one that is still at the default of 1.
Backfilled(servings, text) ==
    IF servings = 1 /\ SummaryCount(text) > 1 THEN SummaryCount(text) ELSE servings

-----------------------------------------------------------------------------
(* Reference. *)

\* A yield that names one count, or one range of which the low end counts.
OneCount(yield) ==
    LET numbers == {i \in DOMAIN yield : IsNumber(yield[i])} IN
    \/ Cardinality(numbers) = 1
    \/ \E i \in DOMAIN yield :
         /\ numbers = {i, i + 2} /\ yield[i + 1] \in To

\* What the two roads into the table make of one yield: the API's import, and
\* import_recipe.py (which has no servings) with load_recipes.py; then both
\* are backfilled.
ByApi(yield, times, source) ==
    LET n == ImportedCount(yield) IN
    Backfilled(IF n = 0 THEN 1 ELSE n, ImportedSummary(yield, times, source))
ByScript(yield, times, source) == Backfilled(1, Summary(YieldText(yield), times, source))
=============================================================================
