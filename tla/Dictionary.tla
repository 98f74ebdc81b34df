----------------------------- MODULE Dictionary -----------------------------
(***************************************************************************)
(* Looking words up in running text: deinflection (crates/deinflect), the  *)
(* longest match and the scan for known words (crates/jmdict-core/src/     *)
(* lookup.rs), and the hover lookup with its two units of length           *)
(* (extension/src/content/content.ts).                                     *)
(*                                                                         *)
(* A text is a sequence of characters; offsets count the characters, or    *)
(* the UTF-16 units, before a place. The dictionary is immutable: its index *)
(* and its rules are constants.                                            *)
(***************************************************************************)
EXTENDS Integers, Sequences, SequencesExt, FiniteSetsExt

CONSTANTS None,
          Char,        \* the characters of texts
          Japanese,    \* the characters is_japanese accepts
          Wide,        \* the characters of two UTF-16 units
          Rules,       \* sequence of [in, out]: a word's ending, and its dictionary form
          Groups,      \* the entries of a key, which is a headword or a reading
          Headword,    \* the form of an entry the popup shows
          MaxScan      \* longest surface form looked up, in characters

ASSUME DictionaryAssumption ==
  /\ Japanese \subseteq Char
  /\ Rules \in Seq([in: Seq(Char), out: Seq(Char)])
  /\ \A key \in DOMAIN Groups : Groups[key] \in Seq(DOMAIN Headword)
  /\ \A e \in DOMAIN Headword : Headword[e] # None
  /\ MaxScan \in Nat

Prefix(s, n) == SubSeq(s, 1, n)

From(s, n) == SubSeq(s, n + 1, Len(s))

Units(s) == Len(s) + Quantify(DOMAIN s, LAMBDA i : s[i] \in Wide)

Min2(a, b) == IF a < b THEN a ELSE b

-----------------------------------------------------------------------------
(* Deinflection: breadth first, so the least transformed forms come first. *)

MaxDepth == 3

\* A rule undoes an ending, and leaves no single character if the input had more than
\* two.
Form(rule, candidate) == Prefix(candidate, Len(candidate) - Len(rule.in)) \o rule.out

Fits(rule, candidate, input) ==
  /\ IsSuffix(rule.in, candidate)
  /\ Len(Form(rule, candidate)) >= IF Len(input) > 2 THEN 2 ELSE 1

\* The new forms of a candidate, in the order of the rules, behind those found so far.
WithForms(found, candidate, input) ==
  LET after[k \in 0..Len(Rules)] ==
        IF k = 0 THEN found
        ELSE IF /\ Fits(Rules[k], candidate, input)
                /\ Form(Rules[k], candidate) \notin ToSet(after[k - 1])
             THEN Append(after[k - 1], Form(Rules[k], candidate))
             ELSE after[k - 1]
  IN  after[Len(Rules)]

\* Each form found is a candidate; those of earlier levels have no new forms any more.
NextLevel(found, input) ==
  LET after[k \in 0..Len(found)] ==
        IF k = 0 THEN found ELSE WithForms(after[k - 1], found[k], input)
  IN  after[Len(found)]

Deinflect(text) ==
  LET level[d \in 0..MaxDepth] ==
        IF d = 0 THEN <<text>> ELSE NextLevel(level[d - 1], text)
  IN  level[MaxDepth]

-----------------------------------------------------------------------------
(* Lookup.                                                                 *)

Lookup(key) == IF key \in DOMAIN Groups THEN Groups[key] ELSE <<>>

\* The entries of the first form that has any.
FirstEntries(forms) ==
  LET hits == {i \in DOMAIN forms : Lookup(forms[i]) # <<>>}
  IN  IF hits = {} THEN <<>> ELSE Lookup(forms[Min(hits)])

EntriesOf(surface) == FirstEntries(Deinflect(surface))

NoMatch == [entries |-> <<>>, len |-> 0]

\* The prefixes of a text that have entries, and no match.
Matches(text, maxChars) ==
  {NoMatch} \cup
  {m \in {[entries |-> EntriesOf(Prefix(text, n)), len |-> n] :
            n \in 1..Min2(maxChars, Len(text))} : m.entries # <<>>}

\* Mutant: the shortest prefix first.
LookupShortestMatch(text, maxChars) ==
  LET matches == Matches(text, maxChars)
  IN  CHOOSE m \in matches : \A o \in matches : o = NoMatch \/ (0 < m.len /\ m.len <= o.len)

LongestOf(matches) == CHOOSE m \in matches : \A o \in matches : o.len <= m.len

LookupLongestMatch(text, maxChars) == LongestOf(Matches(text, maxChars))

\* The Japanese characters that follow the first n characters of a text without a gap.
ExtractRun(text, n) ==
  LET rest == From(text, n)
  IN  Prefix(rest, Max({k \in 0..Len(rest) : \A i \in 1..k : rest[i] \in Japanese}))

LookupAt(text) == LookupLongestMatch(text, MaxScan)

-----------------------------------------------------------------------------
(* The scan behind the underlines: a match is consumed as a whole, words or *)
(* not, and ranges are measured in UTF-16 units.                           *)

IsKnown(match, words) == ToSet(match.entries) \cap words # {}

ScanStart == [at |-> 0, off |-> 0, ranges |-> {}]

\* The match a scan finds at a place; of a text only the Japanese run there is read.
ScanMatch(text, n) ==
  LookupLongestMatch(From(text, n), Min2(Len(ExtractRun(text, n)), MaxScan))

Consumed(match) == IF match.len = 0 THEN 1 ELSE match.len

\* Past a match, whose width is measured.
Past(s, m, width, words) ==
  [at |-> s.at + Consumed(m), off |-> s.off + width,
   ranges |-> s.ranges \cup IF IsKnown(m, words) THEN {[start |-> s.off, len |-> width]} ELSE {}]

WidthAt(text, n, m) == Units(SubSeq(text, n + 1, n + Consumed(m)))

\* Mutant: offsets in characters.
ScanStepChars(text, words, s) ==
  LET m == ScanMatch(text, s.at) IN Past(s, m, Consumed(m), words)

ScanStep(text, words, s) ==
  LET m == ScanMatch(text, s.at) IN Past(s, m, WidthAt(text, s.at, m), words)

FindInText(text, words) ==
  LET scan[n \in 0..Len(text)] ==
        IF n = 0 THEN ScanStart
        ELSE IF scan[n - 1].at = Len(text) THEN scan[n - 1]
        ELSE ScanStep(text, words, scan[n - 1])
  IN  scan[Len(text)].ranges

-----------------------------------------------------------------------------
(* The hover lookup.                                                       *)

Utf16ToCodePoint(text, units) ==
  Min({n \in 0..Len(text) : Units(Prefix(text, n)) >= units \/ n = Len(text)})

CodePointToUtf16(text, n) == Units(Prefix(text, Min2(n, Len(text))))

\* A match from the n-th character on, as a place in the text.
Located(m, n) == [entries |-> m.entries, at |-> n, len |-> m.len]

MatchFrom(text, n) == Located(LookupAt(ExtractRun(text, n)), n)

\* A match as the hover reports it, in UTF-16 units.
Place(text, m) ==
  IF m.len = 0 THEN None
  ELSE [entries |-> m.entries,
        start |-> CodePointToUtf16(text, m.at),
        end |-> CodePointToUtf16(text, m.at + m.len)]

\* What is under the mouse at a DOM offset: the character there, or the one before
\* if that is not Japanese; and the word that begins one character earlier if it is
\* the longer one.
Hover(text, offset) ==
  LET n == Utf16ToCodePoint(text, offset)
      here == IF ExtractRun(text, n) = <<>> /\ n > 0 THEN n - 1 ELSE n
      matches == {MatchFrom(text, i) : i \in {here - 1, here} \cap Nat}
      longest == {m \in matches : \A o \in matches :
                    o.len < m.len \/ (o.len = m.len /\ o.at <= m.at)}
  IN  IF ExtractRun(text, here) = <<>> THEN None
      ELSE CHOOSE hit \in {Place(text, m) : m \in longest} : TRUE
=============================================================================
