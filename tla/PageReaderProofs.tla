-------------------------- MODULE PageReaderProofs --------------------------
(***************************************************************************)
(* Proofs for PageReader and Dictionary: the lookup finds the longest word *)
(* for every dictionary, rules and text; the popup shows the word under    *)
(* the mouse; the underlines are those of the deck; and nothing is left    *)
(* behind when either goes.                                                *)
(*                                                                         *)
(* The loops of the lookup are recursive functions. Their values are found *)
(* by induction over sets of naturals (InductionTo), and that they have    *)
(* values at all by LoopExists.                                            *)
(***************************************************************************)
EXTENDS PageReader, SequenceTheorems, FiniteSetTheorems, TLAPS

(* Least and greatest numbers, induction, loops.                           *)

\* A set of naturals has a least element.
LEMMA NatLeast ==
  ASSUME NEW T \in SUBSET Nat, T # {}
  PROVE  \E x \in T : \A y \in T : x <= y
<1> DEFINE Below == {p \in Nat \X Nat : p[1] < p[2]}
<1>1. IsWellFoundedOn(Below, Nat)
  BY NatLessThanWellFounded DEF OpToRel
<1>2. \A x, y \in Nat : x < y => <<x, y>> \in Below
  OBVIOUS
<1> HIDE DEF Below
<1>3. PICK x \in T : \A y \in T : <<y, x>> \notin Below
  BY <1>1, WFMin
<1>4. ASSUME NEW y \in T PROVE x <= y
  <2>1. x \in Nat /\ y \in Nat
    OBVIOUS
  <2>2. ~(y < x)
    BY <2>1, <1>2, <1>3
  <2> QED BY <2>1, <2>2
<1> QED BY <1>4

\* A set of naturals that holds 0 and the successors of its members is all of Nat.
LEMMA Induction ==
  ASSUME NEW S \in SUBSET Nat, 0 \in S, \A n \in S : n + 1 \in S
  PROVE  S = Nat
<1> SUFFICES ASSUME Nat \ S # {} PROVE FALSE
  OBVIOUS
<1> DEFINE Rest == Nat \ S
<1>0. Rest \in SUBSET Nat /\ Rest # {}
  OBVIOUS
<1> HIDE DEF Rest
<1>1. PICK x \in Rest : \A y \in Rest : x <= y
  BY <1>0, NatLeast
<1>2. x # 0 /\ x - 1 \in Nat /\ x - 1 \in S
  <2>1. x \in Nat /\ x \notin S
    BY DEF Rest
  <2>2. x # 0 /\ x - 1 \in Nat
    BY <2>1
  <2>3. x - 1 \notin Rest
    BY <1>1, <2>1, <2>2, <1>0
  <2> QED BY <2>2, <2>3 DEF Rest
<1>3. (x - 1) + 1 \in S
  BY <1>2
<1> QED BY <1>3, <1>0 DEF Rest

\* The same up to a bound.
LEMMA InductionTo ==
  ASSUME NEW n \in Nat, NEW S, 0 \in S, \A k \in 0..(n-1) : k \in S => k + 1 \in S
  PROVE  0..n \subseteq S
<1> DEFINE T == {k \in Nat : k <= n => k \in S}
<1>1. 0 \in T
  OBVIOUS
<1>2. ASSUME NEW k \in T PROVE k + 1 \in T
  <2>1. CASE k + 1 <= n
    <3>1. k \in 0..(n-1) /\ k \in S BY <2>1
    <3> QED BY <3>1
  <2>2. CASE ~(k + 1 <= n) BY <2>2
  <2> QED BY <2>1, <2>2
<1> HIDE DEF T
<1>3. T \in SUBSET Nat BY DEF T
<1>4. T = Nat BY <1>1, <1>2, <1>3, Induction
<1> QED BY <1>4 DEF T

\* The values of a loop of n steps.
IsLoop(f, n, start, step) == f[0] = start /\ \A k \in 1..n : f[k] = step[k][f[k - 1]]

\* A loop is well defined.
LEMMA LoopExists ==
  ASSUME NEW n \in Nat, NEW V, NEW v0 \in V, NEW step \in [1..n -> [V -> V]]
  PROVE  \E f \in [0..n -> V] : IsLoop(f, n, v0, step)
<1> DEFINE Ok(f, m) == f[0] = v0 /\ \A k \in 1..m : f[k] = step[k][f[k - 1]]
           S == {m \in Nat : \E f \in [0..m -> V] : Ok(f, m)}
<1>1. 0 \in S
  <2> DEFINE f == [k \in 0..0 |-> v0]
  <2>1. f \in [0..0 -> V] /\ Ok(f, 0)
    OBVIOUS
  <2> QED BY <2>1
<1>2. ASSUME NEW m \in 0..(n - 1), m \in S PROVE m + 1 \in S
  <2>1. PICK f \in [0..m -> V] : Ok(f, m)
    BY <1>2
  <2> DEFINE g == [k \in 0..(m + 1) |-> IF k = m + 1 THEN step[m + 1][f[m]] ELSE f[k]]
  <2>2. m \in Nat /\ m + 1 \in 1..n /\ f[m] \in V
    OBVIOUS
  <2>3. g \in [0..(m + 1) -> V]
    <3>1. step[m + 1][f[m]] \in V
      BY <2>2
    <3> QED BY <3>1
  <2>4. g[0] = v0
    BY <2>1, <2>2
  <2>5. ASSUME NEW k \in 1..(m + 1) PROVE g[k] = step[k][g[k - 1]]
    <3>1. g[k - 1] = f[k - 1]
      BY <2>2
    <3>2. CASE k = m + 1
      BY <2>2, <3>1, <3>2
    <3>3. CASE k # m + 1
      <4>1. k \in 1..m /\ g[k] = f[k]
        BY <3>3, <2>2
      <4> QED BY <2>1, <3>1, <4>1
    <3> QED BY <3>2, <3>3
  <2> HIDE DEF g
  <2> QED BY <2>2, <2>3, <2>4, <2>5
<1>3. 0..n \subseteq S
  <2> HIDE DEF S
  <2> QED BY <1>1, <1>2, InductionTo
<1> QED BY <1>3 DEF IsLoop

\* A set of integers with an upper bound has a greatest element.
LEMMA GreatestExists ==
  ASSUME NEW n \in Int, NEW T \in SUBSET Int, T # {}, \A x \in T : x <= n
  PROVE  \E x \in T : \A y \in T : x >= y
<1> DEFINE U == {m \in Nat : n - m \in T}
<1>1. U # {} 
  <2>1. PICK x \in T : TRUE OBVIOUS
  <2>2. n - x \in Nat /\ n - (n - x) = x BY <2>1
  <2> QED BY <2>1, <2>2
<1>0. U \in SUBSET Nat OBVIOUS
<1>2. PICK m \in U : \A k \in U : m <= k
  <2> HIDE DEF U
  <2> QED BY <1>0, <1>1, NatLeast
<1>3. ASSUME NEW y \in T PROVE n - m >= y
  <2>2. n - y \in Nat /\ n - (n - y) = y BY <1>3
  <2>3. n - y \in U BY <2>2
  <2>4. m <= n - y BY <2>3, <1>2
  <2>5. m \in Nat /\ y \in Int OBVIOUS
  <2> HIDE DEF U
  <2> QED BY <2>4, <2>5
<1> QED BY <1>2, <1>3

-----------------------------------------------------------------------------
(* Sequences.                                                              *)

\* A prefix: its length and its characters.
LEMMA PrefixProperties ==
  ASSUME NEW S, NEW s \in Seq(S), NEW n \in 0..Len(s)
  PROVE  /\ Prefix(s, n) \in Seq(S) /\ Len(Prefix(s, n)) = n
         /\ \A i \in 1..n : Prefix(s, n)[i] = s[i]
<1>1. Len(s) \in Nat /\ n \in Int
  OBVIOUS
<1>2. \A i \in 1..n : s[i] \in S
  BY <1>1, ElementOfSeq
<1>3. /\ SubSeq(s, 1, n) \in Seq(S)
      /\ Len(SubSeq(s, 1, n)) = IF 1 <= n THEN n - 1 + 1 ELSE 0
      /\ \A i \in 1..n - 1 + 1 : SubSeq(s, 1, n)[i] = s[1 + i - 1]
  BY <1>1, <1>2, SubSeqProperties
<1> QED BY <1>1, <1>3 DEF Prefix

\* The rest of a text: its length and its characters.
LEMMA FromProperties ==
  ASSUME NEW S, NEW s \in Seq(S), NEW n \in 0..Len(s)
  PROVE  /\ From(s, n) \in Seq(S) /\ Len(From(s, n)) = Len(s) - n
         /\ \A i \in 1..(Len(s) - n) : From(s, n)[i] = s[n + i]
<1>1. Len(s) \in Nat /\ n \in Nat
  OBVIOUS
<1>2. \A i \in (n + 1)..Len(s) : s[i] \in S
  BY <1>1, ElementOfSeq
<1>3. PICK m \in Int, l \in Int : m = n + 1 /\ l = Len(s)
  BY <1>1
<1>4. \A i \in m..l : s[i] \in S
  BY <1>2, <1>3
<1>5. /\ SubSeq(s, m, l) \in Seq(S)
      /\ Len(SubSeq(s, m, l)) = IF m <= l THEN l - m + 1 ELSE 0
      /\ \A i \in 1..l - m + 1 : SubSeq(s, m, l)[i] = s[m + i - 1]
  BY <1>4, SubSeqProperties
<1>6. From(s, n) = SubSeq(s, m, l)
  BY <1>3 DEF From
<1>7. /\ l - m + 1 = Len(s) - n
      /\ Len(SubSeq(s, m, l)) = Len(s) - n
      /\ \A i \in Int : m + i - 1 = n + i
  BY <1>1, <1>3, <1>5
<1> QED BY <1>5, <1>6, <1>7

\* A prefix of any length is a text.
LEMMA PrefixType ==
  ASSUME NEW S, NEW s \in Seq(S), NEW n \in Int, n <= Len(s)
  PROVE  Prefix(s, n) \in Seq(S)
<1>1. CASE n < 1
  BY <1>1, SubSeqEmpty, EmptySeq DEF Prefix
<1>2. CASE n >= 1
  BY <1>2, PrefixProperties
<1> QED BY <1>1, <1>2

-----------------------------------------------------------------------------
(* Deinflection.                                                           *)

Rule == [in: Seq(Char), out: Seq(Char)]

\* What a rule makes of a text is a text.
LEMMA FormType ==
  ASSUME NEW rule \in Rule, NEW candidate \in Seq(Char)
  PROVE  Form(rule, candidate) \in Seq(Char)
<1>1. Len(rule.in) \in Nat /\ Len(candidate) \in Nat /\ rule.out \in Seq(Char)
  BY DEF Rule
<1>2. Prefix(candidate, Len(candidate) - Len(rule.in)) \in Seq(Char)
  BY <1>1, PrefixType
<1> QED BY <1>1, <1>2, ConcatProperties DEF Form

\* So are all the forms one rule away.
LEMMA OneRuleType ==
  ASSUME NEW f \in Seq(Char), NEW s
  PROVE  OneRule(f, s) \subseteq Seq(Char)
<1>1. Rules \in Seq(Rule)
  BY DictionaryAssumption DEF Rule
<1>2. ToSet(Rules) \subseteq Rule
  BY <1>1, ElementOfSeq, LenProperties DEF ToSet
<1> QED BY <1>2, FormType DEF OneRule

\* Appending adds one member to the range.
LEMMA AppendRange ==
  ASSUME NEW S, NEW s \in Seq(S), NEW e \in S
  PROVE  ToSet(Append(s, e)) = ToSet(s) \cup {e}
<1>1. /\ Len(s) \in Nat /\ DOMAIN s = 1..Len(s)
      /\ DOMAIN Append(s, e) = 1..(Len(s) + 1)
      /\ \A i \in 1..Len(s) : Append(s, e)[i] = s[i]
      /\ Append(s, e)[Len(s) + 1] = e
  BY AppendProperties, LenProperties
<1> QED BY <1>1 DEF ToSet

\* The loop over the rules adds the forms one rule away, and no others.
LEMMA WithFormsAddsOneRule ==
  ASSUME NEW found \in Seq(Seq(Char)), NEW candidate \in Seq(Char), NEW input
  PROVE  /\ WithForms(found, candidate, input) \in Seq(Seq(Char))
         /\ ToSet(WithForms(found, candidate, input)) = ToSet(found) \cup OneRule(candidate, input)
<1> DEFINE Text == Seq(Char)
           n == Len(Rules)
           Body(k, v) == IF /\ Fits(Rules[k], candidate, input)
                            /\ Form(Rules[k], candidate) \notin ToSet(v)
                         THEN Append(v, Form(Rules[k], candidate)) ELSE v
           V == Seq(Text)
<1>0. Rules \in Seq(Rule)
  BY DictionaryAssumption DEF Rule
<1>1. n \in Nat /\ \A k \in 1..n : Rules[k] \in Rule
  BY <1>0, ElementOfSeq
<1>2. \A k \in 1..n : Form(Rules[k], candidate) \in Text
  BY <1>1, FormType
<1>3. ASSUME NEW k \in 1..n, NEW v \in V PROVE Body(k, v) \in V
  <2>1. Form(Rules[k], candidate) \in Text
    BY <1>2
  <2> QED BY <2>1, AppendProperties
<1>4. \E f : f = [k \in 0..n |-> IF k = 0 THEN found ELSE Body(k, f[k - 1])]
  <2> DEFINE step == [k \in 1..n |-> [v \in V |-> Body(k, v)]]
  <2>0. found \in V
    OBVIOUS
  <2>1. step \in [1..n -> [V -> V]]
    BY <1>3
  <2>2. \A k \in 1..n, v \in V : step[k][v] = Body(k, v)
    OBVIOUS
  <2> HIDE DEF step, Body, n, V
  <2>3. PICK f \in [0..n -> V] : IsLoop(f, n, found, step)
    BY <1>1, <2>0, <2>1, LoopExists
  <2>4. ASSUME NEW k \in 0..n
        PROVE  f[k] = IF k = 0 THEN found ELSE Body(k, f[k - 1])
    <3>1. k # 0 => k \in 1..n /\ k - 1 \in 0..n
      BY <1>1
    <3> QED BY <2>2, <2>3, <3>1 DEF IsLoop
  <2>5. f = [k \in 0..n |-> IF k = 0 THEN found ELSE Body(k, f[k - 1])]
    BY <2>4
  <2> QED BY <2>5
<1> DEFINE g[k \in 0..n] == IF k = 0 THEN found ELSE Body(k, g[k - 1])
           Tried(k) == {Form(Rules[i], candidate) :
                          i \in {j \in 1..k : Fits(Rules[j], candidate, input)}}
           Good == {k \in 0..n : g[k] \in V /\ ToSet(g[k]) = ToSet(found) \cup Tried(k)}
<1>5. g = [k \in 0..n |-> IF k = 0 THEN found ELSE Body(k, g[k - 1])]
  <2> HIDE DEF Body
  <2> QED BY <1>4
<1> HIDE DEF g
<1>6. 0 \in Good
  <2>1. g[0] = found
    BY <1>1, <1>5
  <2> QED BY <1>1, <2>1
<1>7. ASSUME NEW k \in 0..(n - 1), k \in Good PROVE k + 1 \in Good
  <2>1. k + 1 \in 1..n /\ g[k + 1] = Body(k + 1, g[k])
    <3>1. k + 1 \in 0..n /\ k + 1 # 0 /\ (k + 1) - 1 = k
      BY <1>1
    <3> HIDE DEF Body
    <3> QED BY <1>5, <3>1
  <2> DEFINE fits == Fits(Rules[k + 1], candidate, input)
             form == Form(Rules[k + 1], candidate)
  <2>2. Tried(k + 1) = IF fits THEN Tried(k) \cup {form} ELSE Tried(k)
    <3>1. 1..(k + 1) = 1..k \cup {k + 1}
      BY <1>1
    <3> QED BY <3>1
  <2>3. form \in Text
    BY <1>2, <2>1
  <2>4. g[k] \in V /\ ToSet(g[k]) = ToSet(found) \cup Tried(k)
    BY <1>7
  <2>5. ToSet(Append(g[k], form)) = ToSet(g[k]) \cup {form}
    BY <2>3, <2>4, AppendRange
  <2>6. g[k + 1] \in V
    BY <1>3, <2>1, <2>4
  <2>7. g[k + 1] = IF fits /\ form \notin ToSet(g[k]) THEN Append(g[k], form) ELSE g[k]
    BY <2>1
  <2> HIDE DEF fits, form, Tried
  <2>8. ToSet(g[k + 1]) = ToSet(found) \cup Tried(k + 1)
    BY <2>2, <2>4, <2>5, <2>7
  <2>9. k + 1 \in 0..n
    BY <2>1, <1>1
  <2> QED BY <2>6, <2>8, <2>9
<1>8. n \in Good
  <2> HIDE DEF Good, n
  <2>1. 0..n \subseteq Good
    BY <1>1, <1>6, <1>7, InductionTo
  <2> QED BY <1>1, <2>1
<1>9. Tried(n) = OneRule(candidate, input)
  BY <1>0, <1>1, LenProperties DEF OneRule, ToSet
<1>10. WithForms(found, candidate, input) = g[n]
  BY DEF WithForms, g
<1> QED BY <1>8, <1>9, <1>10

\* The loop over the candidates adds the forms one rule away from any of them.
LEMMA NextLevelAddsAllForms ==
  ASSUME NEW found \in Seq(Seq(Char)), NEW input
  PROVE  /\ NextLevel(found, input) \in Seq(Seq(Char))
         /\ ToSet(NextLevel(found, input)) =
              ToSet(found) \cup UNION {OneRule(f, input) : f \in ToSet(found)}
<1> DEFINE V == Seq(Seq(Char))
           n == Len(found)
           Body(k, v) == WithForms(v, found[k], input)
<1>1. n \in Nat /\ \A k \in 1..n : found[k] \in Seq(Char)
  BY ElementOfSeq
<1>2. ASSUME NEW k \in 1..n, NEW v \in V
      PROVE  Body(k, v) \in V /\ ToSet(Body(k, v)) = ToSet(v) \cup OneRule(found[k], input)
  BY <1>1, WithFormsAddsOneRule
<1>3. \E f : f = [k \in 0..n |-> IF k = 0 THEN found ELSE Body(k, f[k - 1])]
  <2> DEFINE step == [k \in 1..n |-> [v \in V |-> Body(k, v)]]
  <2>1. found \in V /\ step \in [1..n -> [V -> V]]
    BY <1>2
  <2>2. \A k \in 1..n, v \in V : step[k][v] = Body(k, v)
    OBVIOUS
  <2> HIDE DEF step, Body, n, V
  <2>3. PICK f \in [0..n -> V] : IsLoop(f, n, found, step)
    BY <1>1, <2>1, LoopExists
  <2>4. ASSUME NEW k \in 0..n
        PROVE  f[k] = IF k = 0 THEN found ELSE Body(k, f[k - 1])
    <3>1. k # 0 => k \in 1..n /\ k - 1 \in 0..n
      BY <1>1
    <3> QED BY <2>2, <2>3, <3>1 DEF IsLoop
  <2>5. f = [k \in 0..n |-> IF k = 0 THEN found ELSE Body(k, f[k - 1])]
    BY <2>4
  <2> QED BY <2>5
<1> DEFINE g[k \in 0..n] == IF k = 0 THEN found ELSE Body(k, g[k - 1])
           Tried(k) == UNION {OneRule(found[i], input) : i \in 1..k}
           Good == {k \in 0..n : g[k] \in V /\ ToSet(g[k]) = ToSet(found) \cup Tried(k)}
<1>4. g = [k \in 0..n |-> IF k = 0 THEN found ELSE Body(k, g[k - 1])]
  <2> HIDE DEF Body
  <2> QED BY <1>3
<1> HIDE DEF g, Body
<1>5. 0 \in Good
  <2>1. g[0] = found
    BY <1>1, <1>4
  <2> QED BY <1>1, <2>1
<1>6. ASSUME NEW k \in 0..(n - 1), k \in Good PROVE k + 1 \in Good
  <2>1. k + 1 \in 0..n /\ k + 1 \in 1..n
    BY <1>1
  <2>2. g[k + 1] = Body(k + 1, g[k])
    <3>1. k + 1 # 0 /\ (k + 1) - 1 = k
      BY <1>1
    <3> QED BY <1>4, <2>1, <3>1
  <2>3. Tried(k + 1) = Tried(k) \cup OneRule(found[k + 1], input)
    <3>1. 1..(k + 1) = 1..k \cup {k + 1}
      BY <1>1
    <3> QED BY <3>1
  <2>4. g[k] \in V /\ ToSet(g[k]) = ToSet(found) \cup Tried(k)
    BY <1>6
  <2>5. g[k + 1] \in V /\ ToSet(g[k + 1]) = ToSet(g[k]) \cup OneRule(found[k + 1], input)
    BY <1>2, <2>1, <2>2, <2>4
  <2> HIDE DEF Tried
  <2>6. ToSet(g[k + 1]) = ToSet(found) \cup Tried(k + 1)
    BY <2>3, <2>4, <2>5
  <2> QED BY <2>1, <2>5, <2>6
<1>7. n \in Good
  <2> HIDE DEF Good, n
  <2>1. 0..n \subseteq Good
    BY <1>1, <1>5, <1>6, InductionTo
  <2> QED BY <1>1, <2>1
<1>8. Tried(n) = UNION {OneRule(f, input) : f \in ToSet(found)}
  <2>1. ToSet(found) = {found[i] : i \in 1..n}
    BY LenProperties DEF ToSet
  <2> HIDE DEF n
  <2> QED BY <2>1
<1>9. NextLevel(found, input) = g[n]
  BY DEF NextLevel, g, Body
<1> QED BY <1>7, <1>8, <1>9

\* The forms of a text by the number of rules that lead to them.
IsReach(r, s) ==
  /\ r[0] = {s} /\ r[MaxDepth] = Reach(s)
  /\ \A k \in 0..(MaxDepth - 1) : r[k + 1] = r[k] \cup UNION {OneRule(f, s) : f \in r[k]}

\* The recursive function in Reach has its values.
LEMMA ReachLevels ==
  ASSUME NEW s \in Seq(Char)
  PROVE  \E r \in [0..MaxDepth -> SUBSET Seq(Char)] : IsReach(r, s)
<1> DEFINE W == SUBSET Seq(Char)
           n == MaxDepth
           More(r) == r \cup UNION {OneRule(f, s) : f \in r}
<1>1. n \in Nat
  BY DEF MaxDepth
<1>2. ASSUME NEW r \in W PROVE More(r) \in W
  BY OneRuleType
<1>3. \E f \in [0..n -> W] : f = [k \in 0..n |-> IF k = 0 THEN {s} ELSE More(f[k - 1])]
  <2> DEFINE step == [k \in 1..n |-> [r \in W |-> More(r)]]
  <2>1. step \in [1..n -> [W -> W]] /\ {s} \in W
    BY <1>2
  <2>2. \A k \in 1..n, r \in W : step[k][r] = More(r)
    OBVIOUS
  <2> HIDE DEF step, n, W, More
  <2>3. PICK f \in [0..n -> W] : IsLoop(f, n, {s}, step)
    BY <1>1, <2>1, LoopExists
  <2>4. ASSUME NEW k \in 0..n
        PROVE  f[k] = IF k = 0 THEN {s} ELSE More(f[k - 1])
    <3>1. k # 0 => k \in 1..n /\ k - 1 \in 0..n
      BY <1>1
    <3> QED BY <2>2, <2>3, <3>1 DEF IsLoop
  <2>5. f = [k \in 0..n |-> IF k = 0 THEN {s} ELSE More(f[k - 1])]
    BY <2>4
  <2> QED BY <2>5
<1> DEFINE reach[k \in 0..n] == IF k = 0 THEN {s} ELSE More(reach[k - 1])
<1>4. reach = [k \in 0..n |-> IF k = 0 THEN {s} ELSE More(reach[k - 1])]
  <2> HIDE DEF More, W
  <2> QED BY <1>3
<1>5. Reach(s) = reach[n]
  BY DEF Reach
<1> HIDE DEF reach, n, More
<1>6. reach[0] = {s} /\ \A k \in 0..(n - 1) : reach[k + 1] = More(reach[k])
  <2>1. reach[0] = {s}
    BY <1>1, <1>4
  <2>2. ASSUME NEW k \in 0..(n - 1) PROVE reach[k + 1] = More(reach[k])
    <3>1. k + 1 \in 0..n /\ k + 1 # 0 /\ (k + 1) - 1 = k
      BY <1>1
    <3> QED BY <1>4, <3>1
  <2> QED BY <2>1, <2>2
<1>7. \A k \in 0..n : reach[k] \in W
  <2> DEFINE Good == {k \in 0..n : reach[k] \in W}
  <2>1. 0 \in Good
    BY <1>1, <1>6
  <2>2. ASSUME NEW k \in 0..(n - 1), k \in Good PROVE k + 1 \in Good
    <3>1. k + 1 \in 0..n
      BY <1>1
    <3> QED BY <1>2, <1>6, <2>2, <3>1
  <2>3. 0..n \subseteq Good
    <3> HIDE DEF Good
    <3> QED BY <1>1, <2>1, <2>2, InductionTo
  <2> QED BY <2>3
<1>8. reach \in [0..n -> W]
  BY <1>4, <1>7
<1> QED BY <1>5, <1>6, <1>8 DEF IsReach, More, n

\* A set of texts the rules do not lead out of.
LEMMA ReachWithin ==
  ASSUME NEW s \in Seq(Char), NEW T, s \in T,
         \A f \in T \cap Seq(Char) : OneRule(f, s) \subseteq T
  PROVE  Reach(s) \subseteq T /\ Reach(s) \subseteq Seq(Char)
<1>1. PICK r \in [0..MaxDepth -> SUBSET Seq(Char)] : IsReach(r, s)
  BY ReachLevels
<1> DEFINE Good == {k \in 0..MaxDepth : r[k] \subseteq T}
<1>2. MaxDepth \in Nat
  BY DEF MaxDepth
<1>3. 0 \in Good
  BY <1>1, <1>2 DEF IsReach
<1>4. ASSUME NEW k \in 0..(MaxDepth - 1), k \in Good PROVE k + 1 \in Good
  <2>1. k + 1 \in 0..MaxDepth /\ k \in 0..MaxDepth
    BY <1>2
  <2>2. r[k] \subseteq T \cap Seq(Char)
    BY <1>4, <2>1
  <2>3. r[k + 1] = r[k] \cup UNION {OneRule(f, s) : f \in r[k]}
    BY <1>1 DEF IsReach
  <2> QED BY <2>1, <2>2, <2>3
<1>5. 0..MaxDepth \subseteq Good
  <2> HIDE DEF Good
  <2> QED BY <1>2, <1>3, <1>4, InductionTo
<1> QED BY <1>1, <1>2, <1>5 DEF IsReach

\* Deinflection finds every form within MaxDepth rules of a text, and no other.
THEOREM DeinflectFindsAllForms ==
  ASSUME NEW s \in Seq(Char)
  PROVE  Deinflect(s) \in Seq(Seq(Char)) /\ ToSet(Deinflect(s)) = Reach(s)
<1> DEFINE V == Seq(Seq(Char))
           W == SUBSET Seq(Char)
           n == MaxDepth
           More(r) == r \cup UNION {OneRule(f, s) : f \in r}
<1>1. n \in Nat
  BY DEF MaxDepth
<1>2. ASSUME NEW v \in V
      PROVE  NextLevel(v, s) \in V /\ ToSet(NextLevel(v, s)) = More(ToSet(v))
  BY NextLevelAddsAllForms
<1>4. <<s>> \in V /\ ToSet(<<s>>) = {s}
  BY DEF ToSet
<1>5. \E f : f = [k \in 0..n |-> IF k = 0 THEN <<s>> ELSE NextLevel(f[k - 1], s)]
  <2> DEFINE step == [k \in 1..n |-> [v \in V |-> NextLevel(v, s)]]
  <2>1. step \in [1..n -> [V -> V]]
    BY <1>2
  <2>2. \A k \in 1..n, v \in V : step[k][v] = NextLevel(v, s)
    OBVIOUS
  <2> HIDE DEF step, n, V
  <2>3. PICK f \in [0..n -> V] : IsLoop(f, n, <<s>>, step)
    BY <1>1, <1>4, <2>1, LoopExists
  <2>4. ASSUME NEW k \in 0..n
        PROVE  f[k] = IF k = 0 THEN <<s>> ELSE NextLevel(f[k - 1], s)
    <3>1. k # 0 => k \in 1..n /\ k - 1 \in 0..n
      BY <1>1
    <3> QED BY <2>2, <2>3, <3>1 DEF IsLoop
  <2>5. f = [k \in 0..n |-> IF k = 0 THEN <<s>> ELSE NextLevel(f[k - 1], s)]
    BY <2>4
  <2> QED BY <2>5
<1>6. PICK reach \in [0..n -> W] : IsReach(reach, s)
  BY ReachLevels
<1> DEFINE level[k \in 0..n] == IF k = 0 THEN <<s>> ELSE NextLevel(level[k - 1], s)
           Good == {k \in 0..n : level[k] \in V /\ ToSet(level[k]) = reach[k]}
<1>7. level = [k \in 0..n |-> IF k = 0 THEN <<s>> ELSE NextLevel(level[k - 1], s)]
  BY <1>5
<1>8. reach[0] = {s} /\ \A k \in 0..(n - 1) : reach[k + 1] = More(reach[k])
  BY <1>6 DEF IsReach
<1>9. Deinflect(s) = level[n] /\ Reach(s) = reach[n]
  BY <1>6 DEF Deinflect, IsReach
<1> HIDE DEF level, n, More
<1>10. 0 \in Good
  <2>1. 0 \in 0..n /\ level[0] = <<s>> /\ reach[0] = {s}
    BY <1>1, <1>7, <1>8
  <2> QED BY <1>4, <2>1
<1>11. ASSUME NEW k \in 0..(n - 1), k \in Good PROVE k + 1 \in Good
  <2>1. k + 1 \in 0..n /\ k + 1 # 0 /\ (k + 1) - 1 = k
    BY <1>1
  <2>2. level[k + 1] = NextLevel(level[k], s) /\ reach[k + 1] = More(reach[k])
    BY <1>7, <1>8, <2>1
  <2> QED BY <1>2, <1>11, <2>1, <2>2
<1>12. n \in Good
  <2> HIDE DEF Good
  <2>1. 0..n \subseteq Good
    BY <1>1, <1>10, <1>11, InductionTo
  <2> QED BY <1>1, <2>1
<1> QED BY <1>9, <1>12

-----------------------------------------------------------------------------
(* The lookup.                                                             *)

\* Min and Max of sets that have one.
LEMMA MinInNat ==
  ASSUME NEW T \in SUBSET Nat, T # {}
  PROVE  Min(T) \in T /\ \A y \in T : Min(T) <= y
BY NatLeast DEF Min

\* Max of a set of integers with an upper bound.
LEMMA MaxInInt ==
  ASSUME NEW n \in Int, NEW T \in SUBSET Int, T # {}, \A x \in T : x <= n
  PROVE  Max(T) \in T /\ \A y \in T : Max(T) >= y
<1>1. \E x \in T : \A y \in T : x >= y
  BY GreatestExists
<1> QED BY <1>1 DEF Max

\* The member that is as great as all others is Max.
LEMMA MaxIs ==
  ASSUME NEW T \in SUBSET Int, NEW x \in T, \A y \in T : y <= x
  PROVE  Max(T) = x
<1>1. x \in Int
  OBVIOUS
<1>2. Max(T) \in T /\ \A y \in T : Max(T) >= y
  BY <1>1, MaxInInt
<1>3. Max(T) \in Int /\ Max(T) >= x /\ Max(T) <= x
  BY <1>2
<1> QED BY <1>1, <1>3

\* A key of the index or any other value: the lookup gives a list of entries.
LEMMA LookupType ==
  ASSUME NEW key
  PROVE  Lookup(key) \in Seq(DOMAIN Headword)
BY DictionaryAssumption, EmptySeq DEF Lookup

\* A surface has entries exactly if it is a word.
LEMMA EntriesOfWordForms ==
  ASSUME NEW s \in Seq(Char)
  PROVE  EntriesOf(s) \in Seq(DOMAIN Headword) /\ (EntriesOf(s) # <<>> <=> IsWordForm(s))
<1> DEFINE forms == Deinflect(s)
           hits == {i \in DOMAIN forms : Lookup(forms[i]) # <<>>}
<1>1. forms \in Seq(Seq(Char)) /\ {forms[i] : i \in DOMAIN forms} = Reach(s)
  BY DeinflectFindsAllForms DEF ToSet
<1>2. hits \in SUBSET Nat
  BY <1>1, LenProperties
<1>3. hits # {} <=> IsWordForm(s)
  BY <1>1 DEF IsWordForm
<1>4. EntriesOf(s) = IF hits = {} THEN <<>> ELSE Lookup(forms[Min(hits)])
  BY DEF EntriesOf, FirstEntries
<1>5. hits # {} => Lookup(forms[Min(hits)]) # <<>>
  <2> HIDE DEF forms
  <2>1. hits # {} => Min(hits) \in hits
    BY <1>2, MinInNat
  <2> QED BY <2>1
<1> HIDE DEF hits, forms
<1> QED BY <1>3, <1>4, <1>5, LookupType, EmptySeq

MatchRecord == [entries: Seq(DOMAIN Headword), len: Nat]

\* The lookup returns the longest word a text begins with, and its entries.
THEOREM LookupReturnsLongestWord ==
  ASSUME NEW text \in Seq(Char), NEW maxChars \in Nat,
         NEW m, m = LookupLongestMatch(text, maxChars)
  PROVE  /\ m \in MatchRecord /\ m.len <= maxChars /\ m.len <= Len(text)
         /\ m.len = 0 => m = NoMatch
         /\ m.len > 0 => /\ IsWordForm(Prefix(text, m.len)) /\ m.entries # <<>>
                         /\ m.entries = EntriesOf(Prefix(text, m.len))
         /\ \A n \in 1..Min2(maxChars, Len(text)) : IsWordForm(Prefix(text, n)) => n <= m.len
<1> DEFINE l == Min2(maxChars, Len(text))
           All == Matches(text, maxChars)
           Of(n) == [entries |-> EntriesOf(Prefix(text, n)), len |-> n]
           lens == {o.len : o \in All}
<1>1. l \in Nat /\ l <= maxChars /\ l <= Len(text)
  BY DEF Min2
<1>2. ASSUME NEW n \in 1..l
      PROVE  /\ Prefix(text, n) \in Seq(Char)
             /\ Of(n) \in MatchRecord
             /\ Of(n) \in All <=> IsWordForm(Prefix(text, n))
             /\ Of(n).entries # <<>> <=> IsWordForm(Prefix(text, n))
  <2>1. n \in 1..Len(text) /\ n \in Nat
    BY <1>1
  <2>2. Prefix(text, n) \in Seq(Char)
    BY <2>1, PrefixProperties
  <2>3. /\ Of(n).entries \in Seq(DOMAIN Headword)
        /\ Of(n).entries # <<>> <=> IsWordForm(Prefix(text, n))
    BY <2>2, EntriesOfWordForms
  <2>4. Of(n) # NoMatch
    BY <2>1 DEF NoMatch
  <2>5. Of(n) \in All <=> Of(n).entries # <<>>
    BY <2>4 DEF Matches
  <2> QED BY <2>1, <2>2, <2>3, <2>5 DEF MatchRecord
<1>3. NoMatch \in All /\ NoMatch.len = 0 /\ NoMatch \in MatchRecord
  BY EmptySeq DEF Matches, NoMatch, MatchRecord
<1>4. \A o \in All : o = NoMatch \/ \E n \in 1..l : o = Of(n)
  BY DEF Matches
<1> HIDE DEF All, Of, l
<1>5. \A o \in All : o.len \in Int /\ o.len <= l /\ 0 <= o.len
  <2>1. \A n \in 1..l : Of(n).len = n
    BY DEF Of
  <2> QED BY <1>1, <1>3, <1>4, <2>1
<1>6. \E o \in All : \A p \in All : p.len <= o.len
  <2>1. lens \in SUBSET Int /\ lens # {} /\ \A x \in lens : x <= l
    BY <1>3, <1>5
  <2> HIDE DEF lens
  <2>2. PICK x \in lens : \A y \in lens : x >= y
    <3>1. l \in Int
      BY <1>1
    <3> QED BY <2>1, <3>1, GreatestExists
  <2>3. PICK o \in All : o.len = x
    BY DEF lens
  <2>4. \A p \in All : p.len <= o.len
    BY <1>5, <2>2, <2>3 DEF lens
  <2> QED BY <2>4
<1>7. m = CHOOSE o \in All : \A p \in All : p.len <= o.len
  BY DEF LookupLongestMatch, LongestOf, All
<1>8. m \in All /\ \A p \in All : p.len <= m.len
  BY <1>6, <1>7
<1>9. \A n \in 1..l : Of(n).len = n /\ Of(n).entries = EntriesOf(Prefix(text, n))
  BY DEF Of
<1>10. CASE m = NoMatch
  <2>1. \A n \in 1..l : IsWordForm(Prefix(text, n)) => n <= m.len
    BY <1>2, <1>8, <1>9
  <2> QED BY <1>1, <1>3, <1>10, <2>1 DEF l
<1>11. CASE m # NoMatch
  <2>1. PICK k \in 1..l : m = Of(k)
    BY <1>4, <1>8, <1>11
  <2>2. m.len = k /\ k \in Nat /\ k > 0 /\ k <= l
    BY <1>1, <1>9, <2>1
  <2>3. \A n \in 1..l : IsWordForm(Prefix(text, n)) => n <= m.len
    BY <1>2, <1>8, <1>9
  <2>4. IsWordForm(Prefix(text, k)) /\ m.entries # <<>> /\ m \in MatchRecord
    BY <1>2, <1>8, <2>1
  <2> QED BY <1>1, <1>9, <2>1, <2>2, <2>3, <2>4 DEF l
<1> QED BY <1>10, <1>11

-----------------------------------------------------------------------------
(* Characters and UTF-16 units.                                            *)

\* A part of a text: its length and its characters.
LEMMA SliceProperties ==
  ASSUME NEW S, NEW s \in Seq(S), NEW i \in Nat, NEW j \in i..Len(s)
  PROVE  /\ SubSeq(s, i + 1, j) \in Seq(S) /\ Len(SubSeq(s, i + 1, j)) = j - i
         /\ \A k \in 1..(j - i) : SubSeq(s, i + 1, j)[k] = s[i + k]
<1>1. Len(s) \in Nat /\ j \in Nat /\ i <= j /\ j <= Len(s)
  OBVIOUS
<1>2. PICK m \in Int : m = i + 1
  OBVIOUS
<1>3. \A k \in m..j : s[k] \in S
  BY <1>1, <1>2, ElementOfSeq
<1>4. /\ SubSeq(s, m, j) \in Seq(S)
      /\ Len(SubSeq(s, m, j)) = IF m <= j THEN j - m + 1 ELSE 0
      /\ \A k \in 1..j - m + 1 : SubSeq(s, m, j)[k] = s[m + k - 1]
  BY <1>1, <1>3, SubSeqProperties
<1>5. j - m + 1 = j - i /\ Len(SubSeq(s, m, j)) = j - i /\ \A k \in Int : m + k - 1 = i + k
  BY <1>1, <1>2, <1>4
<1> QED BY <1>2, <1>4, <1>5

Width(c) == IF c \in Wide THEN 2 ELSE 1

\* One character more adds its width to the units.
LEMMA UnitsOneMore ==
  ASSUME NEW S, NEW s \in Seq(S), NEW i \in Nat, NEW j \in i..(Len(s) - 1)
  PROVE  /\ Units(SubSeq(s, i + 1, j)) \in Nat
         /\ Units(SubSeq(s, i + 1, j + 1)) = Units(SubSeq(s, i + 1, j)) + Width(s[j + 1])
<1> DEFINE t == SubSeq(s, i + 1, j)
           u == SubSeq(s, i + 1, j + 1)
           Wt == {k \in DOMAIN t : t[k] \in Wide}
           Wu == {k \in DOMAIN u : u[k] \in Wide}
<1>1. Len(s) \in Nat /\ j \in Nat /\ j \in i..Len(s) /\ j + 1 \in i..Len(s) /\ j - i \in Nat
  OBVIOUS
<1>2. /\ t \in Seq(S) /\ Len(t) = j - i /\ \A k \in 1..(j - i) : t[k] = s[i + k]
      /\ u \in Seq(S) /\ Len(u) = j + 1 - i /\ \A k \in 1..(j + 1 - i) : u[k] = s[i + k]
  BY <1>1, SliceProperties
<1>3. DOMAIN t = 1..(j - i) /\ DOMAIN u = 1..(j + 1 - i)
  BY <1>2, LenProperties
<1>4. Units(t) = Len(t) + Cardinality(Wt) /\ Units(u) = Len(u) + Cardinality(Wu)
  BY DEF Units, Quantify
<1> HIDE DEF t, u
<1>5. IsFiniteSet(Wt) /\ Cardinality(Wt) \in Nat /\ j + 1 - i \notin Wt
  <2>1. IsFiniteSet(1..(j - i))
    BY <1>1, FS_Interval
  <2>2. IsFiniteSet(Wt)
    BY <1>3, <2>1, FS_Subset
  <2> QED BY <1>1, <1>3, <2>2, FS_CardinalityType
<1>6. u[j + 1 - i] = s[j + 1]
  <2>1. j + 1 - i \in 1..(j + 1 - i) /\ i + (j + 1 - i) = j + 1
    BY <1>1
  <2> QED BY <1>2, <2>1
<1>7. Wu = IF s[j + 1] \in Wide THEN Wt \cup {j + 1 - i} ELSE Wt
  <2>1. 1..(j + 1 - i) = 1..(j - i) \cup {j + 1 - i}
    BY <1>1
  <2>2. \A k \in 1..(j - i) : u[k] = t[k]
    BY <1>2, <2>1
  <2> QED BY <1>3, <1>6, <2>1, <2>2
<1> HIDE DEF Wt, Wu
<1>8. Cardinality(Wt \cup {j + 1 - i}) = Cardinality(Wt) + 1
  BY <1>5, FS_AddElement
<1>9. Cardinality(Wu) = Cardinality(Wt) + IF s[j + 1] \in Wide THEN 1 ELSE 0
  BY <1>5, <1>7, <1>8
<1>10. Units(t) \in Nat /\ Units(u) = Units(t) + Width(s[j + 1])
  <2>1. Len(t) \in Nat /\ Len(u) = Len(t) + 1 /\ Cardinality(Wt) \in Nat
    BY <1>1, <1>2, <1>5
  <2>2. Width(s[j + 1]) = 1 + (IF s[j + 1] \in Wide THEN 1 ELSE 0)
    BY DEF Width
  <2>3. Units(t) = Len(t) + Cardinality(Wt) /\ Units(u) = Len(u) + Cardinality(Wu)
    BY <1>4
  <2> QED BY <1>9, <2>1, <2>2, <2>3
<1> QED BY <1>10 DEF t, u

\* No text, no units.
LEMMA UnitsEmpty == Units(<<>>) = 0
<1>1. {k \in DOMAIN <<>> : <<>>[k] \in Wide} = {}
  BY EmptySeq
<1> QED BY <1>1, FS_EmptySet, EmptySeq DEF Units, Quantify

\* The units of a text are those of its parts, and never fewer than its characters.
LEMMA UnitsSplit ==
  ASSUME NEW S, NEW s \in Seq(S), NEW i \in Nat, NEW j \in i..Len(s)
  PROVE  /\ Units(Prefix(s, i)) \in Nat /\ Units(SubSeq(s, i + 1, j)) \in Nat
         /\ Units(SubSeq(s, i + 1, j)) >= j - i
         /\ Units(Prefix(s, j)) = Units(Prefix(s, i)) + Units(SubSeq(s, i + 1, j))
<1> DEFINE u(k) == Units(Prefix(s, k))
           v(k) == Units(SubSeq(s, i + 1, i + k))
           n == Len(s) - i
           All == {k \in 0..Len(s) : u(k) \in Nat}
           Good == {k \in 0..n : v(k) \in Nat /\ v(k) >= k /\ u(i + k) = u(i) + v(k)}
<1>1. Len(s) \in Nat /\ n \in Nat /\ i \in 0..Len(s) /\ j - i \in 0..n /\ i + (j - i) = j
  OBVIOUS
<1>2. Prefix(s, 0) = <<>> /\ SubSeq(s, i + 1, i + 0) = <<>>
  <2>1. i + 1 \in Int /\ i + 0 \in Int /\ i + 0 < i + 1
    OBVIOUS
  <2> QED BY <2>1, SubSeqEmpty DEF Prefix
<1>3. \A k \in 0..(Len(s) - 1) : u(k) \in Nat /\ u(k + 1) = u(k) + Width(s[k + 1])
  <2> TAKE k \in 0..(Len(s) - 1)
  <2>1. 0 \in Nat /\ 0 + 1 = 1
    OBVIOUS
  <2> QED BY <2>1, UnitsOneMore DEF Prefix
<1>4. \A k \in 0..(n - 1) : v(k) \in Nat /\ v(k + 1) = v(k) + Width(s[i + k + 1])
  <2> TAKE k \in 0..(n - 1)
  <2>1. i + k \in i..(Len(s) - 1) /\ i + (k + 1) = i + k + 1
    BY <1>1
  <2> QED BY <2>1, UnitsOneMore
<1> HIDE DEF u, v
<1>5. \A k \in Int : Width(s[k]) \in Nat /\ Width(s[k]) >= 1
  BY DEF Width
<1>6. u(0) = 0 /\ v(0) = 0
  BY <1>2, UnitsEmpty DEF u, v
<1>7. 0..Len(s) \subseteq All
  <2>1. 0 \in All
    BY <1>1, <1>6
  <2>2. ASSUME NEW k \in 0..(Len(s) - 1), k \in All PROVE k + 1 \in All
    <3>1. k + 1 \in 0..Len(s) /\ k + 1 \in Int
      BY <1>1
    <3>2. u(k) \in Nat /\ u(k + 1) = u(k) + Width(s[k + 1]) /\ Width(s[k + 1]) \in Nat
      BY <1>3, <1>5, <3>1
    <3> QED BY <3>1, <3>2
  <2> HIDE DEF All
  <2> QED BY <1>1, <2>1, <2>2, InductionTo
<1>8. u(i) \in Nat
  BY <1>1, <1>7
<1>9. 0..n \subseteq Good
  <2>1. 0 \in Good
    BY <1>1, <1>6, <1>8
  <2>2. ASSUME NEW k \in 0..(n - 1), k \in Good PROVE k + 1 \in Good
    <3>1. k \in Nat /\ k + 1 \in 0..n /\ i + k \in 0..(Len(s) - 1) /\ i + (k + 1) = i + k + 1
      BY <1>1
    <3>2. u(i + k + 1) = u(i + k) + Width(s[i + k + 1])
      BY <1>3, <3>1
    <3>3. /\ v(k + 1) = v(k) + Width(s[i + k + 1]) /\ v(k) \in Nat /\ v(k) >= k
          /\ u(i + k) = u(i) + v(k)
      BY <1>4, <2>2
    <3>4. Width(s[i + k + 1]) \in Nat /\ Width(s[i + k + 1]) >= 1
      BY <1>5, <3>1
    <3> QED BY <1>8, <3>1, <3>2, <3>3, <3>4
  <2> HIDE DEF Good, n
  <2> QED BY <1>1, <2>1, <2>2, InductionTo
<1>10. v(j - i) \in Nat /\ v(j - i) >= j - i /\ u(i + (j - i)) = u(i) + v(j - i)
  BY <1>1, <1>9
<1> QED BY <1>1, <1>8, <1>10 DEF u, v

\* Units and characters: a place between two characters is recovered from its offset.
THEOREM OffsetsRoundTrip ==
  ASSUME NEW S, NEW s \in Seq(S), NEW n \in 0..Len(s)
  PROVE  Utf16ToCodePoint(s, CodePointToUtf16(s, n)) = n
<1> DEFINE T == {k \in 0..Len(s) : Units(Prefix(s, k)) >= Units(Prefix(s, n)) \/ k = Len(s)}
<1>1. Len(s) \in Nat /\ n \in Nat
  OBVIOUS
<1>2. CodePointToUtf16(s, n) = Units(Prefix(s, n))
  BY <1>1 DEF CodePointToUtf16, Min2
<1>3. T \in SUBSET Nat /\ n \in T
  <2>1. Units(Prefix(s, n)) \in Nat
    <3>1. n \in n..Len(s)
      BY <1>1
    <3> QED BY <1>1, <3>1, UnitsSplit
  <2> QED BY <1>1, <2>1
<1>4. ASSUME NEW k \in T PROVE n <= k
  <2> SUFFICES ASSUME k < n PROVE FALSE
    BY <1>1
  <2>1. k \in Nat /\ n \in k..Len(s) /\ k # Len(s)
    BY <1>1
  <2>2. /\ Units(Prefix(s, k)) \in Nat /\ Units(SubSeq(s, k + 1, n)) \in Nat
        /\ Units(SubSeq(s, k + 1, n)) >= n - k
        /\ Units(Prefix(s, n)) = Units(Prefix(s, k)) + Units(SubSeq(s, k + 1, n))
    BY <2>1, UnitsSplit
  <2>3. Units(Prefix(s, n)) > Units(Prefix(s, k))
    BY <1>1, <2>1, <2>2
  <2>4. Units(Prefix(s, k)) >= Units(Prefix(s, n))
    BY <2>1
  <2> QED BY <2>2, <2>3, <2>4
<1>5. Utf16ToCodePoint(s, CodePointToUtf16(s, n)) = Min(T)
  BY <1>2 DEF Utf16ToCodePoint
<1> HIDE DEF T
<1>6. Min(T) \in T /\ \A y \in T : Min(T) <= y
  BY <1>3, MinInNat
<1>7. Min(T) \in Nat /\ n <= Min(T) /\ Min(T) <= n
  BY <1>3, <1>4, <1>6
<1> QED BY <1>1, <1>5, <1>7

\* An offset in units is turned into a place within the text, whatever it is.
LEMMA PlaceInText ==
  ASSUME NEW S, NEW s \in Seq(S), NEW p
  PROVE  Utf16ToCodePoint(s, p) \in 0..Len(s)
<1> DEFINE T == {k \in 0..Len(s) : Units(Prefix(s, k)) >= p \/ k = Len(s)}
<1>1. T \in SUBSET Nat /\ Len(s) \in T
  BY LenProperties
<1>2. Utf16ToCodePoint(s, p) = Min(T)
  BY DEF Utf16ToCodePoint
<1>3. Min(T) \in T
  <2> HIDE DEF T
  <2> QED BY <1>1, MinInNat
<1> QED BY <1>2, <1>3

-----------------------------------------------------------------------------
(* The runs of a text, and its words.                                      *)

\* A run ends with the text or before a character that is not Japanese.
LEMMA RunProperties ==
  ASSUME NEW text \in Seq(Char), NEW i \in 0..Len(text), NEW run, run = ExtractRun(text, i)
  PROVE  /\ run \in Seq(Char) /\ Len(run) \in 0..(Len(text) - i)
         /\ \A k \in 1..Len(run) : text[i + k] \in Japanese
         /\ Len(run) = Len(text) - i \/ text[i + Len(run) + 1] \notin Japanese
         /\ \A k \in 0..Len(run) : Prefix(run, k) = SubSeq(text, i + 1, i + k)
<1> DEFINE rest == From(text, i)
           n == Len(text) - i
           T == {k \in 0..Len(rest) : \A j \in 1..k : rest[j] \in Japanese}
           l == Max(T)
<1>1. Len(text) \in Nat /\ n \in Nat /\ i \in Nat
  OBVIOUS
<1>2. rest \in Seq(Char) /\ Len(rest) = n /\ \A k \in 1..n : rest[k] = text[i + k]
  BY FromProperties
<1> HIDE DEF rest, n
<1>3. T \in SUBSET Int /\ 0 \in T /\ \A k \in T : k <= n
  BY <1>1, <1>2
<1>4. l \in T /\ \A k \in T : l >= k
  <2>1. n \in Int
    BY <1>1
  <2> HIDE DEF T
  <2> QED BY <1>3, <2>1, MaxInInt
<1>5. run = Prefix(rest, l)
  BY DEF ExtractRun, rest
<1> HIDE DEF l
<1>6. l \in 0..n /\ \A j \in 1..l : rest[j] \in Japanese
  BY <1>2, <1>4
<1>7. run \in Seq(Char) /\ Len(run) = l /\ \A k \in 1..l : run[k] = rest[k]
  BY <1>2, <1>5, <1>6, PrefixProperties
<1>8. \A k \in 1..l : text[i + k] \in Japanese
  BY <1>1, <1>2, <1>6
<1>9. ASSUME l # n PROVE text[i + l + 1] \notin Japanese
  <2>1. l + 1 \in 0..n /\ l + 1 \in 1..n /\ i + (l + 1) = i + l + 1
    BY <1>1, <1>6, <1>9
  <2>2. l + 1 \notin T
    BY <1>4, <1>6
  <2>3. PICK j \in 1..(l + 1) : rest[j] \notin Japanese
    BY <1>2, <2>1, <2>2
  <2>4. j = l + 1
    BY <1>6, <2>3
  <2> QED BY <1>2, <2>1, <2>3, <2>4
<1>10. ASSUME NEW k \in 0..l PROVE Prefix(run, k) = SubSeq(text, i + 1, i + k)
  <2> DEFINE a == Prefix(run, k)
             b == SubSeq(text, i + 1, i + k)
  <2>1. k \in 0..Len(run) /\ i + k \in i..Len(text) /\ (i + k) - i = k
    BY <1>1, <1>6, <1>7 DEF n
  <2>2. a \in Seq(Char) /\ Len(a) = k /\ \A j \in 1..k : a[j] = run[j]
    BY <1>7, <2>1, PrefixProperties
  <2>3. /\ b \in Seq(Char) /\ Len(b) = (i + k) - i
        /\ \A j \in 1..((i + k) - i) : b[j] = text[i + j]
    BY <1>1, <2>1, SliceProperties
  <2>4. \A j \in 1..k : a[j] = b[j]
    BY <1>1, <1>2, <1>6, <1>7, <2>1, <2>2, <2>3
  <2> HIDE DEF a, b
  <2>5. a = b
    BY <2>1, <2>2, <2>3, <2>4, SeqEqual
  <2> QED BY <2>5 DEF a, b
<1> QED BY <1>1, <1>6, <1>7, <1>8, <1>9, <1>10 DEF n

\* What a rule takes away it leaves of no other character.
LEMMA FormKeepsOthers ==
  ASSUME WhollyJapanese,
         NEW r \in ToSet(Rules), NEW f \in Seq(Char), NEW s, Fits(r, f, s),
         NEW j \in 1..Len(f), f[j] \notin Japanese
  PROVE  Form(r, f) \in Seq(Char) /\ j \in 1..Len(Form(r, f)) /\ Form(r, f)[j] = f[j]
<1>1. r \in Rule /\ r.in \in Seq(Japanese)
  <2>1. Rules \in Seq(Rule)
    BY DictionaryAssumption DEF Rule
  <2>2. PICK i \in DOMAIN Rules : r = Rules[i]
    BY DEF ToSet
  <2> QED BY <2>1, <2>2, ElementOfSeq, LenProperties DEF WhollyJapanese
<1>2. r.in \in Seq(Char) /\ r.out \in Seq(Char)
  BY <1>1 DEF Rule
<1> DEFINE l == Len(r.in)
           n == Len(f)
           a == Reverse(r.in)
           b == Reverse(f)
<1>3. l \in Nat /\ n \in Nat /\ j \in Nat /\ 1 <= j /\ j <= n
  BY <1>2
<1>4. /\ a \in Seq(Char) /\ Len(a) = l /\ \A k \in 1..l : a[k] = r.in[l - k + 1]
      /\ b \in Seq(Char) /\ Len(b) = n /\ \A k \in 1..n : b[k] = f[n - k + 1]
  <2>1. \A k \in 1..l : l - k + 1 \in 1..l /\ r.in[l - k + 1] \in Char
    BY <1>2, <1>3, ElementOfSeq
  <2>2. \A k \in 1..n : n - k + 1 \in 1..n /\ f[n - k + 1] \in Char
    BY <1>3, ElementOfSeq
  <2>3. a = [k \in 1..l |-> r.in[(l - k) + 1]] /\ b = [k \in 1..n |-> f[(n - k) + 1]]
    BY DEF Reverse
  <2> HIDE DEF a, b, l, n
  <2> QED BY <1>3, <2>1, <2>2, <2>3
<1>5. l <= n /\ Prefix(a, l) = Prefix(b, l)
  BY <1>4 DEF Fits, IsSuffix, IsPrefix, Prefix
<1> HIDE DEF a, b, l, n
<1>6. \A k \in 1..l : a[k] = b[k]
  <2>1. l \in 0..Len(a) /\ l \in 0..Len(b)
    BY <1>3, <1>4, <1>5
  <2>2. a \in Seq(Char) /\ b \in Seq(Char)
    BY <1>4
  <2>3. \A k \in 1..l : Prefix(a, l)[k] = a[k]
    BY <2>1, <2>2, PrefixProperties
  <2>4. \A k \in 1..l : Prefix(b, l)[k] = b[k]
    BY <2>1, <2>2, PrefixProperties
  <2> QED BY <1>5, <2>3, <2>4
<1>7. j <= n - l
  <2> SUFFICES ASSUME j > n - l PROVE FALSE
    BY <1>3
  <2>1. n - j + 1 \in 1..l
    BY <1>3
  <2> DEFINE k == n - j + 1
  <2>2. k \in 1..n /\ n - k + 1 = j /\ l - k + 1 \in 1..l
    BY <1>3, <1>5, <2>1
  <2>3. f[j] = r.in[l - k + 1]
    <3>1. k \in 1..l
      BY <2>1
    <3> HIDE DEF k
    <3>2. b[k] = f[j] /\ a[k] = r.in[l - k + 1]
      BY <1>4, <2>2, <3>1
    <3> QED BY <1>6, <3>1, <3>2
  <2>4. r.in[l - k + 1] \in Japanese
    BY <1>1, <2>2, ElementOfSeq DEF l
  <2> QED BY <2>3, <2>4
<1> DEFINE stem == Prefix(f, n - l)
<1>8. stem \in Seq(Char) /\ Len(stem) = n - l /\ stem[j] = f[j]
  <2>1. n - l \in 0..n /\ j \in 1..(n - l)
    BY <1>3, <1>5, <1>7
  <2> QED BY <2>1, PrefixProperties DEF n
<1>9. Form(r, f) = stem \o r.out
  BY DEF Form, n, l
<1> HIDE DEF stem
<1>10. /\ stem \o r.out \in Seq(Char) /\ Len(stem \o r.out) = Len(stem) + Len(r.out)
       /\ \A k \in 1..(Len(stem) + Len(r.out)) :
            (stem \o r.out)[k] = IF k <= Len(stem) THEN stem[k] ELSE r.out[k - Len(stem)]
  BY <1>2, <1>8, ConcatProperties
<1>11. Len(r.out) \in Nat
  BY <1>2
<1>12. j \in 1..(Len(stem) + Len(r.out)) /\ j <= Len(stem)
  BY <1>3, <1>7, <1>8, <1>11
<1> QED BY <1>8, <1>9, <1>10, <1>12

\* No word has a character that is not Japanese.
LEMMA WordsAreJapanese ==
  ASSUME WhollyJapanese, NEW s \in Seq(Char), IsWordForm(s), NEW j \in 1..Len(s)
  PROVE  s[j] \in Japanese
<1> SUFFICES ASSUME s[j] \notin Japanese PROVE FALSE
  OBVIOUS
<1> DEFINE T == {f \in Seq(Char) : j \in 1..Len(f) /\ f[j] = s[j]}
<1>1. ASSUME NEW f \in T PROVE OneRule(f, s) \subseteq T
  BY <1>1, FormKeepsOthers DEF OneRule
<1>2. s \in T
  OBVIOUS
<1> HIDE DEF T
<1>3. Reach(s) \subseteq T
  BY <1>1, <1>2, ReachWithin
<1>4. PICK f \in T : Lookup(f) # <<>>
  BY <1>3 DEF IsWordForm
<1>5. f \in Seq(Japanese)
  BY <1>4 DEF Lookup, WhollyJapanese
<1>6. j \in 1..Len(f) /\ f[j] = s[j]
  BY DEF T
<1>7. f[j] \in Japanese
  BY <1>5, <1>6, ElementOfSeq
<1> QED BY <1>6, <1>7

-----------------------------------------------------------------------------
(* The hover.                                                              *)

\* A match at a place of a text is the longest word that begins there within its run:
\* within the text, where all words are Japanese.
LEMMA MatchFromProperties ==
  ASSUME NEW text \in Seq(Char), NEW i \in 0..Len(text), NEW m, m = MatchFrom(text, i)
  PROVE  /\ m \in [entries: Seq(DOMAIN Headword), at: Nat, len: Nat]
         /\ m.at = i /\ i + m.len <= Len(text) /\ m.len <= MaxScan
         /\ m.len = 0 => m.entries = <<>>
         /\ m.len > 0 => /\ m.entries # <<>> /\ text[i + 1] \in Japanese
                         /\ IsWordForm(SubSeq(text, i + 1, i + m.len))
         /\ WhollyJapanese =>
              \A k \in 1..(Len(text) - i) :
                k <= MaxScan /\ IsWordForm(SubSeq(text, i + 1, i + k)) => k <= m.len
<1> DEFINE run == ExtractRun(text, i)
           l == LookupLongestMatch(run, MaxScan)
<1>1. Len(text) \in Nat /\ i \in Nat /\ MaxScan \in Nat
  BY DictionaryAssumption
<1>2. /\ run \in Seq(Char) /\ Len(run) \in 0..(Len(text) - i)
      /\ \A k \in 1..Len(run) : text[i + k] \in Japanese
      /\ Len(run) = Len(text) - i \/ text[i + Len(run) + 1] \notin Japanese
      /\ \A k \in 0..Len(run) : Prefix(run, k) = SubSeq(text, i + 1, i + k)
  BY RunProperties
<1>3. m = [entries |-> l.entries, at |-> i, len |-> l.len]
  BY DEF MatchFrom, Located, LookupAt
<1> HIDE DEF run
<1>4. /\ l \in MatchRecord /\ l.len <= MaxScan /\ l.len <= Len(run)
      /\ l.len = 0 => l = NoMatch
      /\ l.len > 0 => IsWordForm(Prefix(run, l.len)) /\ l.entries # <<>>
      /\ \A n \in 1..Min2(MaxScan, Len(run)) : IsWordForm(Prefix(run, n)) => n <= l.len
  BY <1>1, <1>2, LookupReturnsLongestWord
<1> HIDE DEF l
<1>5. l.len \in Nat /\ l.entries \in Seq(DOMAIN Headword)
  BY <1>4 DEF MatchRecord
<1>6. l.len = 0 => l.entries = <<>>
  BY <1>4 DEF NoMatch
<1>7. ASSUME l.len > 0
      PROVE  text[i + 1] \in Japanese /\ IsWordForm(SubSeq(text, i + 1, i + l.len))
  <2>1. l.len \in 0..Len(run) /\ 1 \in 1..Len(run)
    BY <1>2, <1>4, <1>5, <1>7
  <2> QED BY <1>2, <1>4, <1>7, <2>1
<1>8. ASSUME WhollyJapanese, NEW k \in 1..(Len(text) - i), k <= MaxScan,
             IsWordForm(SubSeq(text, i + 1, i + k))
      PROVE  k <= l.len
  <2> DEFINE word == SubSeq(text, i + 1, i + k)
  <2>1. i + k \in i..Len(text) /\ (i + k) - i = k
    BY <1>1
  <2>2. word \in Seq(Char) /\ Len(word) = k /\ \A j \in 1..k : word[j] = text[i + j]
    BY <1>1, <2>1, SliceProperties
  <2>3. \A j \in 1..k : text[i + j] \in Japanese
    <3> HIDE DEF word
    <3>1. IsWordForm(word)
      BY <1>8 DEF word
    <3> QED BY <1>8, <2>2, <3>1, WordsAreJapanese
  <2>4. k <= Len(run)
    <3> SUFFICES ASSUME Len(run) < k PROVE FALSE
      BY <1>1, <1>2
    <3>1. Len(run) + 1 \in 1..k /\ i + (Len(run) + 1) = i + Len(run) + 1 /\ Len(run) # Len(text) - i
      BY <1>1, <1>2
    <3> QED BY <1>2, <2>3, <3>1
  <2>5. k \in 0..Len(run) /\ k \in 1..Min2(MaxScan, Len(run))
    BY <1>1, <1>2, <1>8, <2>4 DEF Min2
  <2> QED BY <1>2, <1>4, <1>8, <2>5
<1>9. /\ m.entries = l.entries /\ m.at = i /\ m.len = l.len
      /\ m \in [entries: Seq(DOMAIN Headword), at: Nat, len: Nat]
  BY <1>1, <1>3, <1>5
<1>10. i + m.len <= Len(text)
  BY <1>1, <1>2, <1>4, <1>5, <1>9
<1> HIDE DEF l
<1> QED BY <1>4, <1>6, <1>7, <1>8, <1>9, <1>10

\* A hover reports the longer of the two words, and where it is.
LEMMA HoverReports ==
  ASSUME NEW text \in Seq(Char), NEW offset, NEW hit, hit = Hover(text, offset), hit # None
  PROVE  LET n == Utf16ToCodePoint(text, offset)
             here == IF n < Len(text) /\ text[n + 1] \in Japanese THEN n ELSE n - 1
         IN  /\ here \in 0..(Len(text) - 1)
             /\ \E i \in {here - 1, here} \cap Nat : \E m :
                  /\ m = MatchFrom(text, i) /\ m.len > 0
                  /\ \A j \in {here - 1, here} \cap Nat : MatchFrom(text, j).len <= m.len
                  /\ hit = [entries |-> m.entries,
                            start |-> CodePointToUtf16(text, i),
                            end |-> CodePointToUtf16(text, i + m.len)]
<1> DEFINE n == Utf16ToCodePoint(text, offset)
           here == IF n < Len(text) /\ text[n + 1] \in Japanese THEN n ELSE n - 1
           run(i) == ExtractRun(text, i)
           at == IF run(n) = <<>> /\ n > 0 THEN n - 1 ELSE n
           matches == {MatchFrom(text, i) : i \in {at - 1, at} \cap Nat}
           longest == {m \in matches : \A o \in matches :
                         o.len < m.len \/ (o.len = m.len /\ o.at <= m.at)}
           Hits == {Place(text, m) : m \in longest}
<1>1. Len(text) \in Nat /\ n \in 0..Len(text)
  BY PlaceInText
<1>2. hit = IF run(at) = <<>> THEN None ELSE CHOOSE h \in Hits : TRUE
  BY DEF Hover
<1> HIDE DEF n
<1>3. ASSUME NEW i \in 0..Len(text)
      PROVE  run(i) # <<>> <=> i < Len(text) /\ text[i + 1] \in Japanese
  <2>1. /\ run(i) \in Seq(Char) /\ Len(run(i)) \in 0..(Len(text) - i)
        /\ \A k \in 1..Len(run(i)) : text[i + k] \in Japanese
        /\ Len(run(i)) = Len(text) - i \/ text[i + Len(run(i)) + 1] \notin Japanese
    BY RunProperties
  <2>2. run(i) = <<>> <=> Len(run(i)) = 0
    BY <2>1, EmptySeq
  <2> HIDE DEF run
  <2>3. CASE Len(run(i)) = 0
    BY <1>1, <2>1, <2>2, <2>3
  <2>4. CASE Len(run(i)) # 0
    <3>1. 1 \in 1..Len(run(i)) /\ i < Len(text)
      BY <1>1, <2>1, <2>4
    <3> QED BY <2>1, <2>2, <2>4, <3>1
  <2> QED BY <2>3, <2>4
<1> HIDE DEF run, Hits
<1>4. at \in 0..Len(text) /\ run(at) # <<>>
  BY <1>1, <1>2
<1>5. at = here /\ here \in 0..(Len(text) - 1)
  <2>1. at < Len(text) /\ text[at + 1] \in Japanese
    BY <1>3, <1>4
  <2>2. run(n) # <<>> <=> n < Len(text) /\ text[n + 1] \in Japanese
    BY <1>1, <1>3
  <2> QED BY <1>1, <1>4, <2>1, <2>2
<1> HIDE DEF at, here
<1> DEFINE I == {here - 1, here} \cap Nat
<1>6. \A i \in I : i \in 0..Len(text)
  BY <1>1, <1>5
<1>7. \A i \in I : MatchFrom(text, i).len \in Nat /\ MatchFrom(text, i).at = i
  BY <1>6, MatchFromProperties
<1>8. longest # {}
  <2>1. here \in I /\ (\A i \in I : i = here \/ i = here - 1)
    BY <1>5
  <2>2. matches = {MatchFrom(text, i) : i \in I}
    BY <1>5
  <2>3. CASE \A i \in I : MatchFrom(text, i).len <= MatchFrom(text, here).len
    <3>1. \A i \in I : i <= here
      BY <1>1, <1>5
    <3> DEFINE m == MatchFrom(text, here)
    <3>2. m.at = here /\ m.len \in Nat /\ here \in Int
      BY <1>7, <2>1
    <3>3. ASSUME NEW i \in I, NEW o, o = MatchFrom(text, i)
          PROVE  o.len < m.len \/ (o.len = m.len /\ o.at <= m.at)
      <4>1. o.len \in Nat /\ o.at = i /\ o.len <= m.len /\ i <= here
        BY <1>7, <2>3, <3>1, <3>3
      <4> HIDE DEF m
      <4> QED BY <3>2, <4>1
    <3>4. m \in matches
      BY <2>1, <2>2
    <3> HIDE DEF m, I
    <3>5. m \in longest
      BY <2>2, <3>3, <3>4
    <3> QED BY <3>5
  <2>4. CASE \E i \in I : ~(MatchFrom(text, i).len <= MatchFrom(text, here).len)
    <3>1. here - 1 \in I /\ MatchFrom(text, here).len < MatchFrom(text, here - 1).len
      BY <1>7, <2>1, <2>4
    <3>2. \A i \in I : MatchFrom(text, i).len < MatchFrom(text, here - 1).len \/ i = here - 1
      BY <2>1, <3>1
    <3> DEFINE m == MatchFrom(text, here - 1)
    <3>3. m.at = here - 1 /\ m.len \in Nat
      BY <1>7, <3>1
    <3>4. ASSUME NEW i \in I, NEW o, o = MatchFrom(text, i)
          PROVE  o.len < m.len \/ (o.len = m.len /\ o.at <= m.at)
      <4>1. CASE i = here - 1
        <5>1. o = m
          BY <3>4, <4>1
        <5> HIDE DEF m
        <5> QED BY <1>5, <3>3, <5>1
      <4>2. CASE i # here - 1
        BY <3>2, <3>4, <4>2
      <4> QED BY <4>1, <4>2
    <3>5. m \in matches
      BY <2>2, <3>1
    <3> HIDE DEF m, I
    <3>6. m \in longest
      BY <2>2, <3>4, <3>5
    <3> QED BY <3>6
  <2> QED BY <2>3, <2>4
<1>9. hit \in Hits
  BY <1>2, <1>4, <1>8 DEF Hits
<1>10. PICK m \in longest : hit = Place(text, m)
  BY <1>9 DEF Hits
<1>11. PICK i \in I : m = MatchFrom(text, i)
  BY <1>5
<1>12. \A j \in I : MatchFrom(text, j).len <= m.len
  BY <1>5, <1>7, <1>11
<1>13. /\ m.len > 0
       /\ hit = [entries |-> m.entries, start |-> CodePointToUtf16(text, i),
                 end |-> CodePointToUtf16(text, i + m.len)]
  BY <1>7, <1>10, <1>11 DEF Place
<1>14. \E j \in I : \E o :
          /\ o = MatchFrom(text, j) /\ o.len > 0
          /\ \A k \in I : MatchFrom(text, k).len <= o.len
          /\ hit = [entries |-> o.entries, start |-> CodePointToUtf16(text, j),
                    end |-> CodePointToUtf16(text, j + o.len)]
  BY <1>11, <1>12, <1>13
<1> QED BY <1>5, <1>14 DEF here, n

\* What a hover reports is a word at its place in the text, and no longer one begins
\* under the mouse or one character earlier.
THEOREM HoverFindsLongestWord ==
  ASSUME WhollyJapanese, NEW a \in Seq(Char), NEW p,
         NEW hit, hit = Hover(a, p), hit # None,
         NEW word,
         word = SubSeq(a, Utf16ToCodePoint(a, hit.start) + 1, Utf16ToCodePoint(a, hit.end))
  PROVE  hit.entries # <<>> /\ IsWordForm(word) /\ Len(word) = Max(Widths(a, p))
<1> DEFINE n == Utf16ToCodePoint(a, p)
           here == IF n < Len(a) /\ a[n + 1] \in Japanese THEN n ELSE n - 1
           I == {here - 1, here} \cap Nat
           Begun == {Prefix(From(a, i), Min2(k, Len(a) - i)) : i \in I, k \in 1..MaxScan}
           W == {Len(s) : s \in {t \in Begun : IsWordForm(t)}}
<1>1. Widths(a, p) = W
  BY DEF Widths
<1>2. /\ here \in 0..(Len(a) - 1)
      /\ \E i \in I : \E m :
           /\ m = MatchFrom(a, i) /\ m.len > 0
           /\ \A j \in I : MatchFrom(a, j).len <= m.len
           /\ hit = [entries |-> m.entries, start |-> CodePointToUtf16(a, i),
                     end |-> CodePointToUtf16(a, i + m.len)]
  BY HoverReports
<1> HIDE DEF here
<1>3. Len(a) \in Nat /\ MaxScan \in Nat /\ \A i \in I : i \in Nat /\ i \in 0..Len(a) /\ i < Len(a)
  BY <1>2, DictionaryAssumption
<1> HIDE DEF I, Begun, W
<1>at. PICK i \in I : \E m :
        /\ m = MatchFrom(a, i) /\ m.len > 0
        /\ \A j \in I : MatchFrom(a, j).len <= m.len
        /\ hit = [entries |-> m.entries, start |-> CodePointToUtf16(a, i),
                  end |-> CodePointToUtf16(a, i + m.len)]
  BY <1>2
<1>4. PICK m :
        /\ m = MatchFrom(a, i) /\ m.len > 0
        /\ \A j \in I : MatchFrom(a, j).len <= m.len
        /\ hit = [entries |-> m.entries, start |-> CodePointToUtf16(a, i),
                  end |-> CodePointToUtf16(a, i + m.len)]
  BY <1>at
<1>5. /\ m.len \in Nat /\ m.len > 0 /\ i + m.len <= Len(a) /\ m.len <= MaxScan
      /\ m.entries # <<>> /\ IsWordForm(SubSeq(a, i + 1, i + m.len))
  BY <1>3, <1>4, MatchFromProperties
<1>6. /\ i \in 0..Len(a) /\ i + m.len \in 0..Len(a) /\ i + m.len \in i..Len(a)
      /\ (i + m.len) - i = m.len
  BY <1>3, <1>5
<1>7. word = SubSeq(a, i + 1, i + m.len)
  <2>1. Utf16ToCodePoint(a, hit.start) = i /\ Utf16ToCodePoint(a, hit.end) = i + m.len
    <3>1. hit.start = CodePointToUtf16(a, i) /\ hit.end = CodePointToUtf16(a, i + m.len)
      BY <1>4
    <3> QED BY <1>6, <3>1, OffsetsRoundTrip
  <2> QED BY <2>1
<1>8. Len(word) = m.len
  <2>1. i \in Nat
    BY <1>3
  <2>2. Len(SubSeq(a, i + 1, i + m.len)) = (i + m.len) - i
    BY <1>6, <2>1, SliceProperties
  <2> QED BY <1>6, <1>7, <2>2
\* The prefixes of the rest of a text are slices of it.
<1>9. ASSUME NEW j \in I, NEW k \in 1..MaxScan, NEW l, l = Min2(k, Len(a) - j)
      PROVE  /\ l \in 1..(Len(a) - j) /\ l <= MaxScan
             /\ Prefix(From(a, j), l) = SubSeq(a, j + 1, j + l)
             /\ Len(Prefix(From(a, j), l)) = l
  <2>1. l \in 1..(Len(a) - j) /\ l <= MaxScan /\ l \in Nat /\ j \in 0..Len(a) /\ j \in Nat
    BY <1>3, <1>9 DEF Min2
  <2> DEFINE u == Prefix(From(a, j), l)
             v == SubSeq(a, j + 1, j + l)
             rest == From(a, j)
  <2>2. /\ rest \in Seq(Char) /\ Len(rest) = Len(a) - j
        /\ \A x \in 1..(Len(a) - j) : rest[x] = a[j + x]
    BY <2>1, FromProperties
  <2>3. u \in Seq(Char) /\ Len(u) = l /\ \A x \in 1..l : u[x] = rest[x]
    <3> HIDE DEF rest
    <3>1. l \in 0..Len(rest)
      BY <2>1, <2>2
    <3>2. /\ Prefix(rest, l) \in Seq(Char) /\ Len(Prefix(rest, l)) = l
          /\ \A x \in 1..l : Prefix(rest, l)[x] = rest[x]
      BY <2>2, <3>1, PrefixProperties
    <3> QED BY <3>2 DEF rest
  <2>4. v \in Seq(Char) /\ Len(v) = l /\ \A x \in 1..l : v[x] = a[j + x]
    <3>1. j + l \in j..Len(a) /\ (j + l) - j = l
      BY <1>3, <2>1
    <3>2. v \in Seq(Char) /\ Len(v) = (j + l) - j /\ \A x \in 1..((j + l) - j) : v[x] = a[j + x]
      BY <2>1, <3>1, SliceProperties
    <3> QED BY <3>1, <3>2
  <2> HIDE DEF u, v, rest
  <2>5. ASSUME NEW x \in 1..l PROVE u[x] = v[x]
    <3>1. x \in 1..(Len(a) - j)
      BY <1>3, <2>1
    <3>2. u[x] = rest[x] /\ rest[x] = a[j + x] /\ v[x] = a[j + x]
      BY <2>2, <2>3, <2>4, <3>1
    <3> QED BY <3>2
  <2>6. u = v
    BY <2>3, <2>4, <2>5, SeqEqual
  <2> QED BY <2>1, <2>3, <2>6 DEF u, v
<1>10. m.len \in W
  <2>1. m.len \in 1..MaxScan /\ Min2(m.len, Len(a) - i) = m.len
    BY <1>3, <1>5, <1>6 DEF Min2
  <2>2. Prefix(From(a, i), m.len) = word
    BY <1>7, <1>9, <2>1
  <2>3. word \in Begun
    BY <2>1, <2>2 DEF Begun
  <2> QED BY <1>5, <1>7, <1>8, <2>3 DEF W
<1>11. ASSUME NEW w \in W PROVE w \in Int /\ w <= m.len
  <2>1. PICK t \in Begun : IsWordForm(t) /\ w = Len(t)
    BY DEF W
  <2>2. PICK j \in I, k \in 1..MaxScan : t = Prefix(From(a, j), Min2(k, Len(a) - j))
    BY DEF Begun
  <2>3. PICK l : l = Min2(k, Len(a) - j)
    OBVIOUS
  <2>4. l \in 1..(Len(a) - j) /\ l <= MaxScan /\ t = SubSeq(a, j + 1, j + l) /\ w = l
    BY <1>9, <2>1, <2>2, <2>3
  <2>5. l <= MatchFrom(a, j).len
    BY <1>3, <2>1, <2>4, MatchFromProperties
  <2>6. MatchFrom(a, j).len \in Nat /\ MatchFrom(a, j).len <= m.len
    BY <1>3, <1>4, MatchFromProperties
  <2>7. l \in Int /\ m.len \in Int /\ l <= m.len
    <3>1. \A x, y, z \in Int : x <= y /\ y <= z => x <= z
      OBVIOUS
    <3>2. l \in Int /\ m.len \in Int /\ MatchFrom(a, j).len \in Int
      BY <1>5, <2>4, <2>6
    <3> QED BY <2>5, <2>6, <3>1, <3>2
  <2> QED BY <2>4, <2>7
<1>12. Max(W) = m.len
  <2>1. W \in SUBSET Int /\ \A y \in W : y <= m.len
    BY <1>11
  <2> QED BY <1>10, <2>1, MaxIs
<1>13. hit.entries # <<>>
  BY <1>4, <1>5
<1> QED BY <1>1, <1>5, <1>7, <1>8, <1>12, <1>13

-----------------------------------------------------------------------------
(* The scan.                                                               *)

\* The scan looks up, at a place of a text, what the hover looks up there.
LEMMA ScanMatchIsHovers ==
  ASSUME NEW text \in Seq(Char), NEW i \in 0..Len(text)
  PROVE  /\ ScanMatch(text, i).len = MatchFrom(text, i).len
         /\ ScanMatch(text, i).entries = MatchFrom(text, i).entries
<1> DEFINE run == ExtractRun(text, i)
           rest == From(text, i)
           l == Min2(Len(run), MaxScan)
           Of(t, n) == [entries |-> EntriesOf(Prefix(t, n)), len |-> n]
<1>1. Len(text) \in Nat /\ i \in Nat /\ MaxScan \in Nat
  BY DictionaryAssumption
<1>2. /\ run \in Seq(Char) /\ Len(run) \in 0..(Len(text) - i)
      /\ \A k \in 0..Len(run) : Prefix(run, k) = SubSeq(text, i + 1, i + k)
  BY RunProperties
<1>3. /\ rest \in Seq(Char) /\ Len(rest) = Len(text) - i
      /\ \A k \in 1..(Len(text) - i) : rest[k] = text[i + k]
  BY FromProperties
<1> HIDE DEF run, rest
<1>4. ASSUME NEW k \in 0..Len(run) PROVE Prefix(rest, k) = Prefix(run, k)
  <2> DEFINE u == Prefix(rest, k)
             v == Prefix(run, k)
  <2>1. k \in 0..Len(rest) /\ i + k \in i..Len(text) /\ (i + k) - i = k
    BY <1>1, <1>2, <1>3
  <2>2. u \in Seq(Char) /\ Len(u) = k /\ \A x \in 1..k : u[x] = rest[x]
    BY <1>3, <2>1, PrefixProperties
  <2>3. /\ SubSeq(text, i + 1, i + k) \in Seq(Char) /\ Len(SubSeq(text, i + 1, i + k)) = (i + k) - i
        /\ \A x \in 1..((i + k) - i) : SubSeq(text, i + 1, i + k)[x] = text[i + x]
    BY <1>1, <2>1, SliceProperties
  <2>4. v = SubSeq(text, i + 1, i + k)
    BY <1>2
  <2> HIDE DEF u, v
  <2>5. v \in Seq(Char) /\ Len(v) = k /\ \A x \in 1..k : v[x] = text[i + x]
    BY <2>1, <2>3, <2>4
  <2>6. ASSUME NEW x \in 1..k PROVE u[x] = v[x]
    <3>1. x \in 1..(Len(text) - i)
      BY <1>1, <1>2
    <3> QED BY <1>3, <2>2, <2>5, <3>1
  <2>7. u = v
    BY <2>2, <2>5, <2>6, SeqEqual
  <2> QED BY <2>7 DEF u, v
<1>5. Min2(l, Len(rest)) = l /\ Min2(MaxScan, Len(run)) = l /\ l \in Nat /\ l <= Len(run)
  <2>1. Len(run) \in Nat /\ Len(rest) \in Nat /\ Len(run) <= Len(rest)
    BY <1>1, <1>2, <1>3
  <2> QED BY <1>1, <2>1 DEF Min2
<1>6. \A n \in 1..l : Of(rest, n) = Of(run, n)
  BY <1>4, <1>5
<1>7. Matches(rest, l) = Matches(run, MaxScan)
  <2>1. Matches(rest, l) = {NoMatch} \cup {m \in {Of(rest, n) : n \in 1..l} : m.entries # <<>>}
    BY <1>5 DEF Matches
  <2>2. Matches(run, MaxScan) = {NoMatch} \cup {m \in {Of(run, n) : n \in 1..l} : m.entries # <<>>}
    BY <1>5 DEF Matches
  <2> HIDE DEF Of, l
  <2>3. {Of(rest, n) : n \in 1..l} = {Of(run, n) : n \in 1..l}
    BY <1>6
  <2> QED BY <2>1, <2>2, <2>3
<1>8. LookupLongestMatch(rest, l) = LookupLongestMatch(run, MaxScan)
  BY <1>7 DEF LookupLongestMatch, LongestOf
<1>9. ScanMatch(text, i) = LookupLongestMatch(rest, l)
  BY DEF ScanMatch, rest, run
<1>10. MatchFrom(text, i) = [entries |-> LookupLongestMatch(run, MaxScan).entries, at |-> i,
                             len |-> LookupLongestMatch(run, MaxScan).len]
  BY DEF MatchFrom, Located, LookupAt, run
<1> QED BY <1>8, <1>9, <1>10

\* From one stop to the next there is no choice.
LEMMA OneSetOfStops ==
  ASSUME NEW s \in Seq(Char), NEW A, NEW B, AreStops(A, s), AreStops(B, s)
  PROVE  A \subseteq B
<1> DEFINE Rest == A \ B
<1> SUFFICES ASSUME Rest # {} PROVE FALSE
  OBVIOUS
<1>1. A \in SUBSET Nat /\ A \subseteq 0..Len(s) /\ Len(s) \in Nat /\ 0 \in A /\ 0 \in B
  BY DEF AreStops
<1>2. PICK x \in Rest : \A y \in Rest : x <= y
  <2>1. Rest \in SUBSET Nat
    BY <1>1
  <2> HIDE DEF Rest
  <2> QED BY <2>1, NatLeast
<1>3. x \in Nat /\ x # 0 /\ x \in A /\ x \notin B /\ x <= Len(s)
  BY <1>1
<1> DEFINE Below == {y \in A : y < x}
<1>4. PICK i \in Below : \A y \in Below : i >= y
  <2>1. 0 < x /\ x \in Int /\ Nat \subseteq Int
    BY <1>3
  <2>3. Below \in SUBSET Int
    <3>1. A \subseteq Int
      BY <1>1
    <3>2. Below \subseteq A
      OBVIOUS
    <3> HIDE DEF Below
    <3> QED BY <3>1, <3>2
  <2>4. 0 \in Below
    BY <1>1, <2>1
  <2>2. \A y \in Below : y <= x
    BY <1>1, <1>3
  <2> HIDE DEF Below
  <2> QED BY <2>1, <2>2, <2>3, <2>4, GreatestExists
<1>5. i \in Nat /\ i < x /\ i \in A /\ i # Len(s) /\ i \in B
  <2>1. i \in Nat /\ i < x /\ i \in A
    BY <1>1
  <2>2. i \notin Rest
    BY <1>2, <1>3, <2>1
  <2> QED BY <1>1, <1>3, <2>1, <2>2
<1> DEFINE next == i + Consumed(MatchFrom(s, i))
<1>6. next \in A /\ (\A j \in A : j > i => j >= next) /\ next \in B
  BY <1>5 DEF AreStops
<1>7. next > i
  <2>1. MatchFrom(s, i).len \in Nat
    <3>1. i \in 0..Len(s)
      BY <1>1, <1>5
    <3> QED BY <3>1, MatchFromProperties
  <2> QED BY <1>5, <2>1 DEF Consumed
<1> HIDE DEF next
<1>8. next = x
  <2>1. next \in Nat /\ next <= x
    BY <1>1, <1>3, <1>5, <1>6
  <2>2. ~(next < x)
    BY <1>4, <1>5, <1>6, <1>7, <2>1
  <2> QED BY <1>3, <2>1, <2>2
<1> QED BY <1>3, <1>6, <1>8

NextStop(s, i) == i + Consumed(MatchFrom(s, i))

Ranged(s, i) ==
  [start |-> Units(Prefix(s, i)), len |-> Units(SubSeq(s, i + 1, i + MatchFrom(s, i).len))]

\* A step of a scan: on to the next stop, with the range if the word is known.
LEMMA ScanStepReads ==
  ASSUME NEW s \in Seq(Char), NEW words, NEW t, t.at \in 0..(Len(s) - 1),
         t.off = Units(Prefix(s, t.at)), NEW i, i = t.at
  PROVE  /\ NextStop(s, i) \in 0..Len(s) /\ NextStop(s, i) > i
         /\ ScanStep(s, words, t) =
              [at |-> NextStop(s, i), off |-> Units(Prefix(s, NextStop(s, i))),
               ranges |-> t.ranges \cup
                            IF IsKnown(MatchFrom(s, i), words) THEN {Ranged(s, i)} ELSE {}]
<1>0. PICK h : h = MatchFrom(s, i)
  OBVIOUS
<1> DEFINE m == ScanMatch(s, i)
           next == i + Consumed(m)
           width == Units(SubSeq(s, i + 1, next))
<1>1. Len(s) \in Nat /\ i \in Nat /\ i < Len(s) /\ i \in 0..Len(s)
  OBVIOUS
<1>2. m.len = h.len /\ m.entries = h.entries
  BY <1>0, <1>1, ScanMatchIsHovers
<1>3. h.len \in Nat /\ i + h.len <= Len(s) /\ (h.len = 0 => h.entries = <<>>)
  <2>1. /\ h \in [entries: Seq(DOMAIN Headword), at: Nat, len: Nat]
        /\ i + h.len <= Len(s) /\ (h.len = 0 => h.entries = <<>>)
    BY <1>0, <1>1, MatchFromProperties
  <2> QED BY <2>1
<1>4. next = NextStop(s, i) /\ next \in i..Len(s) /\ next > i /\ next \in 0..Len(s)
  BY <1>0, <1>1, <1>2, <1>3 DEF NextStop, Consumed
<1>5. Units(Prefix(s, next)) = Units(Prefix(s, i)) + width
  BY <1>1, <1>4, UnitsSplit
<1>6. IsKnown(m, words) <=> IsKnown(h, words)
  BY <1>2 DEF IsKnown
<1>7. IsKnown(h, words) => width = Units(SubSeq(s, i + 1, i + h.len))
  <2> SUFFICES ASSUME IsKnown(h, words) PROVE next = i + h.len
    OBVIOUS
  <2>1. h.entries # <<>>
    BY EmptySeq DEF IsKnown, ToSet
  <2> QED BY <1>2, <1>3, <2>1 DEF Consumed
<1>8. ScanStep(s, words, t) =
        [at |-> next, off |-> t.off + width,
         ranges |-> t.ranges \cup
                      IF IsKnown(m, words) THEN {[start |-> t.off, len |-> width]} ELSE {}]
  BY DEF ScanStep, Past, WidthAt
<1> HIDE DEF width, next, m
<1>9. IsKnown(h, words) => [start |-> t.off, len |-> width] = Ranged(s, i)
  BY <1>0, <1>7 DEF Ranged
<1>10. ScanStep(s, words, t) =
         [at |-> next, off |-> Units(Prefix(s, next)),
          ranges |-> t.ranges \cup IF IsKnown(h, words) THEN {Ranged(s, i)} ELSE {}]
  BY <1>5, <1>6, <1>8, <1>9
<1> QED BY <1>0, <1>4, <1>10

\* The scan for underlines finds what the hover would, at every place where it stops.
THEOREM ScanReadsAsHover ==
  ASSUME NEW s \in Seq(Char), NEW words
  PROVE  FindInText(s, words) = ExpectedIn(s, words)
<1> DEFINE n == Len(s)
           Hit(i) == IsKnown(MatchFrom(s, i), words)
           V == {t \in [at: 0..n, off: Nat, ranges: SUBSET [start: Nat, len: Nat]] :
                   t.off = Units(Prefix(s, t.at))}
           Body(t) == IF t.at = n THEN t ELSE ScanStep(s, words, t)
<1>1. n \in Nat
  OBVIOUS
<1>2. ASSUME NEW i \in 0..n
      PROVE  Units(Prefix(s, i)) \in Nat /\ (i < n => Ranged(s, i) \in [start: Nat, len: Nat])
  <2>1. Units(Prefix(s, i)) \in Nat
    <3>1. i \in Nat /\ i \in i..Len(s)
      BY <1>1
    <3> QED BY <3>1, UnitsSplit
  <2>2. ASSUME NEW j, j = MatchFrom(s, i).len PROVE Units(SubSeq(s, i + 1, i + j)) \in Nat
    <3>1. i \in Nat /\ i + j \in i..Len(s)
      <4>1. j \in Nat /\ i + j <= Len(s)
        BY <2>2, MatchFromProperties
      <4> QED BY <1>1, <4>1
    <3> QED BY <3>1, UnitsSplit
  <2> QED BY <2>1, <2>2 DEF Ranged
<1>3. ScanStart \in V
  <2>1. Prefix(s, 0) = <<>>
    BY SubSeqEmpty DEF Prefix
  <2> QED BY <1>1, <2>1, UnitsEmpty DEF ScanStart
<1>4. ASSUME NEW t \in V, t.at # n
      PROVE  /\ Body(t) \in V
             /\ Body(t).at = NextStop(s, t.at) /\ Body(t).at > t.at
             /\ Body(t).ranges = t.ranges \cup IF Hit(t.at) THEN {Ranged(s, t.at)} ELSE {}
  <2>1. t.at \in 0..(Len(s) - 1) /\ t.at \in 0..n /\ t.at < n
    BY <1>1, <1>4
  <2> DEFINE next == NextStop(s, t.at)
             more == t.ranges \cup IF Hit(t.at) THEN {Ranged(s, t.at)} ELSE {}
  <2>2. /\ next \in 0..n /\ next > t.at
        /\ Body(t) = [at |-> next, off |-> Units(Prefix(s, next)), ranges |-> more]
    BY <1>4, <2>1, ScanStepReads
  <2>3. Ranged(s, t.at) \in [start: Nat, len: Nat] /\ Units(Prefix(s, next)) \in Nat
    BY <1>2, <2>1, <2>2
  <2>4. more \in SUBSET [start: Nat, len: Nat]
    BY <2>3
  <2> HIDE DEF next, more, Body
  <2>5. Body(t) \in V
    BY <2>2, <2>3, <2>4
  <2> QED BY <2>2, <2>5 DEF next, more
<1>5. ASSUME NEW t \in V PROVE Body(t) \in V
  BY <1>4
<1> HIDE DEF Body
<1>6. \E f \in [0..n -> V] : f = [k \in 0..n |-> IF k = 0 THEN ScanStart ELSE Body(f[k - 1])]
  <2> DEFINE step == [k \in 1..n |-> [t \in V |-> Body(t)]]
  <2>1. step \in [1..n -> [V -> V]]
    BY <1>5
  <2>2. \A k \in 1..n, t \in V : step[k][t] = Body(t)
    OBVIOUS
  <2> HIDE DEF step, n, V
  <2>3. PICK f \in [0..n -> V] : IsLoop(f, n, ScanStart, step)
    BY <1>1, <1>3, <2>1, LoopExists
  <2>4. ASSUME NEW k \in 0..n
        PROVE  f[k] = IF k = 0 THEN ScanStart ELSE Body(f[k - 1])
    <3>1. k # 0 => k \in 1..n /\ k - 1 \in 0..n
      BY <1>1
    <3> QED BY <2>2, <2>3, <3>1 DEF IsLoop
  <2>5. f = [k \in 0..n |-> IF k = 0 THEN ScanStart ELSE Body(f[k - 1])]
    BY <2>4
  <2> QED BY <2>5
<1> DEFINE scan[k \in 0..n] ==
             IF k = 0 THEN ScanStart
             ELSE IF scan[k - 1].at = Len(s) THEN scan[k - 1] ELSE ScanStep(s, words, scan[k - 1])
<1>7. FindInText(s, words) = scan[n].ranges
  BY DEF FindInText
<1>8. scan = [k \in 0..n |-> IF k = 0 THEN ScanStart ELSE Body(scan[k - 1])]
  <2>1. \E f : f = [k \in 0..n |-> IF k = 0 THEN ScanStart
                      ELSE IF f[k - 1].at = Len(s) THEN f[k - 1] ELSE ScanStep(s, words, f[k - 1])]
    BY <1>6 DEF Body
  <2>2. scan = [k \in 0..n |-> IF k = 0 THEN ScanStart
                  ELSE IF scan[k - 1].at = Len(s) THEN scan[k - 1]
                   ELSE ScanStep(s, words, scan[k - 1])]
    BY <2>1
  <2> HIDE DEF scan
  <2> QED BY <2>2 DEF Body
<1> HIDE DEF scan
<1> DEFINE cur(k) == scan[k].at
           P(k) == {cur(j) : j \in 0..k}
           Closed(k) == \A i \in P(k) \ {cur(k)} :
                          NextStop(s, i) \in P(k) /\ \A j \in P(k) : j > i => j >= NextStop(s, i)
           Good == {k \in 0..n :
                      /\ cur(k) >= k /\ \A j \in P(k) : j <= cur(k)
                      /\ Closed(k)
                      /\ scan[k].ranges = {Ranged(s, i) : i \in {j \in P(k) \ {cur(k)} : Hit(j)}}}
<1>9. scan[0] = ScanStart /\ \A k \in 0..(n - 1) : scan[k + 1] = Body(scan[k])
  <2>1. scan[0] = ScanStart
    BY <1>1, <1>8
  <2>2. ASSUME NEW k \in 0..(n - 1) PROVE scan[k + 1] = Body(scan[k])
    <3>1. k + 1 \in 0..n /\ k + 1 # 0 /\ (k + 1) - 1 = k
      BY <1>1
    <3> QED BY <1>8, <3>1
  <2> QED BY <2>1, <2>2
<1>typed. \A k \in 0..n : scan[k] \in V
  <2> DEFINE Typed == {k \in 0..n : scan[k] \in V}
  <2>1. 0 \in Typed
    BY <1>1, <1>3, <1>9
  <2>2. ASSUME NEW k \in 0..(n - 1), k \in Typed PROVE k + 1 \in Typed
    <3>1. k + 1 \in 0..n /\ scan[k + 1] = Body(scan[k])
      BY <1>1, <1>9
    <3> HIDE DEF V
    <3> QED BY <1>5, <2>2, <3>1
  <2>3. 0..n \subseteq Typed
    <3> HIDE DEF Typed, V
    <3> QED BY <1>1, <2>1, <2>2, InductionTo
  <2> QED BY <2>3
<1>10. 0 \in Good
  <2>1. cur(0) = 0 /\ scan[0].ranges = {}
    BY <1>9 DEF ScanStart
  <2>2. P(0) = {0}
    BY <2>1
  <2> QED BY <1>1, <1>3, <1>9, <2>1, <2>2
<1>11. ASSUME NEW k \in 0..(n - 1), k \in Good PROVE k + 1 \in Good
  <2>1. k + 1 \in 0..n /\ k \in Nat /\ scan[k + 1] = Body(scan[k])
    BY <1>1, <1>9
  <2>2. P(k + 1) = P(k) \cup {cur(k + 1)}
    <3>1. 0..(k + 1) = 0..k \cup {k + 1}
      BY <2>1
    <3> QED BY <3>1
  <2>3. cur(k) \in P(k) /\ cur(k) \in 0..n /\ scan[k] \in V
    <3>1. k \in 0..n /\ k \in 0..k
      BY <1>1, <2>1
    <3>2. scan[k] \in V
      BY <1>typed, <3>1
    <3> QED BY <3>1, <3>2
  <2>good. /\ cur(k) >= k /\ (\A j \in P(k) : j <= cur(k)) /\ Closed(k)
        /\ scan[k].ranges = {Ranged(s, i) : i \in {j \in P(k) \ {cur(k)} : Hit(j)}}
    BY <1>11
  <2>4. CASE cur(k) = n
    <3>1. scan[k + 1] = scan[k] /\ cur(k + 1) = cur(k)
      BY <2>1, <2>4 DEF Body
    <3>2. P(k + 1) = P(k)
      BY <2>2, <2>3, <3>1
    <3>3. cur(k + 1) >= k + 1
      BY <1>1, <2>1, <2>4, <3>1
    <3> HIDE DEF P, cur
    <3> QED BY <1>11, <2>1, <3>1, <3>2, <3>3
  <2>5. CASE cur(k) # n
    <3> DEFINE c == cur(k)
               d == cur(k + 1)
    <3>1. /\ d \in 0..n /\ d = NextStop(s, c) /\ d > c
          /\ scan[k + 1].ranges = scan[k].ranges \cup IF Hit(c) THEN {Ranged(s, c)} ELSE {}
      <4>1. scan[k + 1] \in V
        BY <1>typed, <2>1
      <4> QED BY <1>4, <2>1, <2>3, <2>5, <4>1
    <3>2. d \in 0..n /\ c \in 0..n
      BY <2>3, <3>1
    <3>3. \A j \in P(k) : j \in 0..n
      <4>1. ASSUME NEW j \in 0..k PROVE cur(j) \in 0..n
        <5>1. j \in 0..n
          BY <1>1
        <5>2. scan[j] \in V
          BY <1>typed, <5>1
        <5> QED BY <5>2
      <4> QED BY <4>1
    <3>4. c >= k /\ (\A j \in P(k) : j <= c) /\ c \in P(k) /\ d \notin P(k)
      <4>1. c >= k /\ (\A j \in P(k) : j <= c) /\ c \in P(k)
        BY <2>3, <2>good
      <4> HIDE DEF P, c, d
      <4>2. ~(d <= c)
        BY <1>1, <3>1, <3>2
      <4> QED BY <4>1, <4>2
    <3>5. P(k + 1) \ {d} = P(k) /\ d \in P(k + 1)
      BY <2>2, <3>4
    <3>6. d >= k + 1
      BY <2>1, <3>1, <3>2, <3>4
    <3>7. \A j \in P(k + 1) : j <= d
      <4> HIDE DEF P, c
      <4>1. P(k + 1) = P(k) \cup {d}
        BY <2>2
      <4> HIDE DEF d
      <4>2. \A j \in P(k) : j \in Int /\ j <= c
        BY <1>1, <3>3, <3>4
      <4>3. c \in Int /\ d \in Int /\ c < d
        BY <1>1, <3>1, <3>2
      <4>4. \A j \in P(k) : j <= d
        BY <4>2, <4>3
      <4> QED BY <4>1, <4>3, <4>4
    <3>8. ASSUME NEW i \in P(k)
          PROVE  /\ NextStop(s, i) \in P(k + 1)
                 /\ \A j \in P(k + 1) : j > i => j >= NextStop(s, i)
      <4>1. CASE i = c
        <5>1. NextStop(s, i) = d
          BY <3>1, <4>1
        <5>2. d \in P(k + 1)
          BY <2>2
        <5> HIDE DEF c
        <5>3. ASSUME NEW j \in P(k + 1), j > i PROVE j >= d
          <6> HIDE DEF P
          <6>1. j = d \/ j \in P(k)
            BY <2>2
          <6> HIDE DEF d
          <6>2. ASSUME j \in P(k) PROVE FALSE
            <7>1. j \in Int /\ j <= c /\ c \in Int
              BY <1>1, <3>2, <3>3, <3>4, <6>2
            <7> QED BY <4>1, <5>3, <7>1
          <6> QED BY <1>1, <3>2, <6>1, <6>2
        <5> QED BY <5>1, <5>2, <5>3
      <4>2. CASE i # c
        <5>1. NextStop(s, i) \in P(k) /\ \A j \in P(k) : j > i => j >= NextStop(s, i)
          <6>1. i \in P(k) \ {cur(k)}
            BY <4>2
          <6> QED BY <2>good, <6>1
        <5>2. d >= NextStop(s, i)
          <6>1. NextStop(s, i) \in 0..n
            BY <3>3, <5>1
          <6>2. NextStop(s, i) <= c
            BY <3>4, <5>1
          <6> HIDE DEF c, d
          <6>3. c \in Int /\ d \in Int /\ c < d
            BY <1>1, <3>1, <3>2
          <6> QED BY <1>1, <6>1, <6>2, <6>3
        <5> QED BY <2>2, <5>1, <5>2
      <4> QED BY <4>1, <4>2
    <3>9. scan[k + 1].ranges = {Ranged(s, i) : i \in {j \in P(k) : Hit(j)}}
      <4>1. scan[k].ranges = {Ranged(s, i) : i \in {j \in P(k) \ {c} : Hit(j)}}
        BY <2>good
      <4> HIDE DEF P, c, d, Hit
      <4> QED BY <3>1, <3>4, <4>1
    <3>10. Closed(k + 1)
      BY <3>5, <3>8
    <3> HIDE DEF P, Closed
    <3> QED BY <2>1, <3>5, <3>6, <3>7, <3>9, <3>10
  <2> QED BY <2>4, <2>5
<1>12. n \in Good
  <2> HIDE DEF Good, n
  <2>1. 0..n \subseteq Good
    BY <1>1, <1>10, <1>11, InductionTo
  <2> QED BY <1>1, <2>1
<1>13. cur(n) = n
  <2>1. n \in 0..n
    BY <1>1
  <2>2. cur(n) \in 0..n
    BY <1>typed, <2>1
  <2> QED BY <1>1, <1>12, <2>2
<1>14. AreStops(P(n), s)
  <2>1. P(n) \subseteq 0..n
    BY <1>typed
  <2>2. 0 \in P(n)
    <3>1. 0 \in 0..n /\ cur(0) = 0
      BY <1>1, <1>9 DEF ScanStart
    <3> QED BY <3>1
  <2> QED BY <1>12, <1>13, <2>1, <2>2 DEF AreStops, NextStop
<1>15. Stops(s) = P(n)
  <2>1. P(n) \in SUBSET (0..Len(s))
    BY <1>14 DEF AreStops
  <2> HIDE DEF P
  <2>2. AreStops(Stops(s), s)
    BY <1>14, <2>1 DEF Stops
  <2> QED BY <1>14, <2>2, OneSetOfStops
<1>16. scan[n].ranges = {Ranged(s, i) : i \in {j \in P(n) \ {n} : Hit(j)}}
  BY <1>12, <1>13
<1>17. ExpectedIn(s, words) = {Ranged(s, i) : i \in {j \in Stops(s) \ {n} : Hit(j)}}
  BY DEF ExpectedIn, Ranged
<1> QED BY <1>7, <1>15, <1>16, <1>17

-----------------------------------------------------------------------------
(* The invariants of the page.                                             *)

PopupRecord == [entries: Seq(DOMAIN Headword), by: {"hover", "selection"}]

PageTypeOK ==
  /\ page \in [{"article", "feed"} -> Texts] /\ page["article"] \in Articles
  /\ on \in BOOLEAN /\ dictionary \in {"none", "loading", "ready"}

PopupTypeOK ==
  /\ mouse \in Spots \cup {Blank, OverPopup, Outside} /\ hoverTimer \in Spots \cup {Blank, None}
  /\ hideTimer \in BOOLEAN /\ wasOverPopup \in BOOLEAN /\ popup \in PopupRecord \cup {None}

LinesTypeOK ==
  /\ highlighter \in {"off", "asked", "answered", "listening", "failed"}
  /\ reply \subseteq Words /\ known \subseteq Words
  /\ rebuildTimer \in BOOLEAN /\ observing \in BOOLEAN /\ active \in BOOLEAN

DeckTypeOK == deck \subseteq Words /\ backupDue \in BOOLEAN /\ adding \in Words \cup {None}

ReaderTypeOK == PageTypeOK /\ PopupTypeOK /\ LinesTypeOK /\ DeckTypeOK

\* What keeps a page quiet that was never switched on.
QuietWhenOff == ~on /\ active => dictionary = "none"

QuietInv == ReaderTypeOK /\ QuietWhenOff /\ NothingLeftBehind

\* A pending hover is for the place of the mouse, unless that has left the page.
HoverFollowsMouse ==
  /\ on /\ hoverTimer # None => mouse \in {hoverTimer, Outside}
  /\ popup # None => dictionary = "ready"
  /\ popup # None /\ popup.by = "hover" => lastLookedUp = Headword[popup.entries[1]]

\* With no timer pending, a popup of a hover is that of the word under the mouse.
PopupOfPlace ==
  (/\ on /\ popup # None /\ popup.by = "hover"
   /\ mouse \in Spots \cup {Blank} /\ hoverTimer = None /\ ~hideTimer) =>
      /\ At(mouse) # None /\ Headword[popup.entries[1]] = Shown(At(mouse))
      /\ mark = [start |-> At(mouse).start, end |-> At(mouse).end]

PopupInv == HoverFollowsMouse /\ PopupOfPlace

\* The page paints the words it knows, whenever it has nothing left to repaint.
PaintsKnown ==
  /\ on => active
  /\ highlighter # "off" => dictionary = "ready"
  /\ on /\ highlighter = "listening" => observing
  /\ on /\ highlighter = "listening" /\ ~rebuildTimer => painted = Rebuilt(known)

\* What the page knows is the deck, whenever no copy of the deck is due.
KnowsDeck ==
  /\ highlighter = "answered" => reply = deck
  /\ adding # None => adding \in deck
  /\ highlighter = "listening" /\ ~backupDue /\ deck # {} => known = deck

-----------------------------------------------------------------------------
(* Nothing is left behind.                                                 *)

\* What is on the page is text.
LEMMA TextsAreTexts == Texts \subseteq Seq(Char)
BY ReaderAssumption, EmptySeq DEF Texts

\* What is under the mouse is what a hover reports.
LEMMA AtIsHover ==
  ASSUME page["article"] \in Articles, NEW p, At(p) # None
  PROVE  /\ p \in Spots /\ At(p) = Hover(page["article"], p)
         /\ At(p).entries \in Seq(DOMAIN Headword) /\ At(p).entries # <<>>
         /\ Shown(At(p)) # None
<1> DEFINE a == page["article"]
           is(h) == h.text = a /\ h.spot = p
<1>1. p \in Spots /\ At(p) = (CHOOSE h \in Hovers : is(h)).hit
  BY DEF At
<1>2. [text |-> a, spot |-> p, hit |-> Hover(a, p)] \in Hovers
  BY <1>1 DEF Hovers
<1>3. PICK h \in Hovers : h = CHOOSE o \in Hovers : is(o)
  BY <1>2
<1>4. is(h)
  BY <1>2, <1>3
<1>5. h = [text |-> a, spot |-> p, hit |-> Hover(a, p)]
  BY <1>4 DEF Hovers
<1>6. At(p) = Hover(a, p)
  <2>1. At(p) = h.hit
    <3> HIDE DEF is
    <3> QED BY <1>1, <1>3
  <2> QED BY <1>5, <2>1
<1>7. a \in Seq(Char)
  BY ReaderAssumption
<1> HIDE DEF a, is
<1>8. PICK i, m : /\ i \in 0..Len(a) /\ m = MatchFrom(a, i) /\ m.len > 0
                  /\ At(p).entries = m.entries
  <2> DEFINE n == Utf16ToCodePoint(a, p)
             here == IF n < Len(a) /\ a[n + 1] \in Japanese THEN n ELSE n - 1
  <2>1. PICK hit : hit = At(p)
    OBVIOUS
  <2>2. hit = Hover(a, p) /\ hit # None
    BY <1>6, <2>1
  <2>3. /\ here \in 0..(Len(a) - 1)
        /\ \E i \in {here - 1, here} \cap Nat : \E m :
             /\ m = MatchFrom(a, i) /\ m.len > 0
             /\ hit = [entries |-> m.entries, start |-> CodePointToUtf16(a, i),
                       end |-> CodePointToUtf16(a, i + m.len)]
    BY <1>7, <2>2, HoverReports
  <2> HIDE DEF here
  <2>at. PICK i \in {here - 1, here} \cap Nat : \E m :
             /\ m = MatchFrom(a, i) /\ m.len > 0
             /\ hit = [entries |-> m.entries, start |-> CodePointToUtf16(a, i),
                       end |-> CodePointToUtf16(a, i + m.len)]
    BY <2>3
  <2>4. PICK m :
             /\ m = MatchFrom(a, i) /\ m.len > 0
             /\ hit = [entries |-> m.entries, start |-> CodePointToUtf16(a, i),
                       end |-> CodePointToUtf16(a, i + m.len)]
    BY <2>at
  <2>5. Len(a) \in Nat /\ i \in 0..Len(a)
    BY <1>7, <2>3
  <2> QED BY <2>1, <2>4, <2>5
<1>9. m.entries \in Seq(DOMAIN Headword) /\ m.entries # <<>>
  BY <1>7, <1>8, MatchFromProperties
<1>10. m.entries[1] \in DOMAIN Headword
  <2>1. 1 \in 1..Len(m.entries)
    BY <1>9, EmptySeq
  <2> QED BY <1>9, <2>1, ElementOfSeq
<1> QED BY <1>1, <1>6, <1>8, <1>9, <1>10, DictionaryAssumption DEF Shown, a

\* The ranges a repainting finds are those that should be underlined.
LEMMA FoundIsExpected == Found = Expected
BY TextsAreTexts, ScanReadsAsHover DEF Found, Expected

\* What a hover leaves in the popup when it shows a word.
LEMMA ShowHitType ==
  ASSUME page["article"] \in Articles, NEW hit, hit = At(hoverTimer), hit # None, ShowHit(hit),
         popup \in PopupRecord \cup {None}
  PROVE  /\ hideTimer' = FALSE /\ popup' \in PopupRecord \cup {None} /\ lastLookedUp' # None
         /\ lastLookedUp' = Shown(hit)
         /\ popup' # popup => popup' # None /\ popup' = [entries |-> hit.entries, by |-> "hover"]
         /\ Shown(hit) # lastLookedUp =>
              popup' = [entries |-> hit.entries, by |-> "hover"] /\ popup' # None
         /\ Shown(hit) = lastLookedUp => popup' = popup
<1>1. hit.entries \in Seq(DOMAIN Headword) /\ Shown(hit) # None
  BY AtIsHover
<1>2. [entries |-> hit.entries, by |-> "hover"] \in PopupRecord
  BY <1>1 DEF PopupRecord
<1>3. None \notin PopupRecord
  BY ReaderAssumption DEF PopupRecord
<1> QED BY <1>1, <1>2, <1>3 DEF ShowHit

\* QuietInv at the start, and after each kind of step.
LEMMA QuietInit == Init => QuietInv
<1> SUFFICES ASSUME Init PROVE QuietInv
  OBVIOUS
<1>1. page \in [{"article", "feed"} -> Texts] /\ page["article"] \in Articles
  BY DEF Init, Texts
<1> QED BY <1>1 DEF Init, QuietInv, ReaderTypeOK, PageTypeOK, PopupTypeOK, LinesTypeOK,
                    DeckTypeOK, QuietWhenOff, NothingLeftBehind

\* A step of the popup only: types, and what a hidden popup leaves.
LEMMA QuietByPopup ==
  ASSUME QuietInv, UNCHANGED <<pageVars, lineVars, deckVars>>, PopupTypeOK',
         popup' = None => mark' = None /\ lastLookedUp' = None, ~on => popup' = None
  PROVE  QuietInv'
BY DEF QuietInv, ReaderTypeOK, PageTypeOK, LinesTypeOK, DeckTypeOK, QuietWhenOff,
       NothingLeftBehind, pageVars, lineVars, deckVars

\* The mouse, and the timers it starts.
LEMMA QuietMouse ==
  QuietInv /\ Mouse => QuietInv'
<1> SUFFICES ASSUME QuietInv, Mouse PROVE QuietInv'
  OBVIOUS
<1>1. /\ PopupTypeOK
      /\ ~on => popup = None
      /\ popup = None => mark = None /\ lastLookedUp = None
  BY DEF QuietInv, ReaderTypeOK, NothingLeftBehind
<1> USE DEF PopupTypeOK, popupVars
<1>2. ASSUME NEW p \in Spots \cup {Blank}, MoveTo(p) PROVE QuietInv'
  <2>1. UNCHANGED <<pageVars, lineVars, deckVars>> /\ mouse' = p /\ hideTimer' = hideTimer
    BY <1>2 DEF MoveTo
  <2>2. CASE on /\ wasOverPopup
    <3>1. /\ wasOverPopup' = FALSE /\ hoverTimer' = None
          /\ popup' = None /\ mark' = None /\ lastLookedUp' = None
      BY <1>2, <2>2 DEF MoveTo, ForceHide
    <3>2. PopupTypeOK'
      BY <1>1, <2>1, <3>1
    <3> QED BY <2>1, <3>1, <3>2, QuietByPopup
  <2>3. CASE ~(on /\ wasOverPopup)
    <3>1. /\ UNCHANGED <<wasOverPopup, popup, lastLookedUp, mark>>
          /\ hoverTimer' \in {p, hoverTimer}
      BY <1>2, <2>3 DEF MoveTo
    <3>2. PopupTypeOK'
      BY <1>1, <2>1, <3>1
    <3> QED BY <1>1, <2>1, <3>1, <3>2, QuietByPopup
  <2> QED BY <2>2, <2>3
<1>3. CASE MoveOverPopup
  <2>1. PopupTypeOK' /\ UNCHANGED <<pageVars, popup, lastLookedUp, mark, lineVars, deckVars>>
    BY <1>1, <1>3 DEF MoveOverPopup
  <2> QED BY <1>1, <2>1, QuietByPopup
<1>4. CASE Leave
  <2>1. PopupTypeOK' /\ UNCHANGED <<pageVars, popup, lastLookedUp, mark, lineVars, deckVars>>
    BY <1>1, <1>4 DEF Leave
  <2> QED BY <1>1, <2>1, QuietByPopup
<1>5. CASE Escape
  <2>1. /\ PopupTypeOK' /\ UNCHANGED <<pageVars, lineVars, deckVars>>
        /\ popup' = None /\ mark' = None /\ lastLookedUp' = None
    BY <1>1, <1>5 DEF Escape, ForceHide
  <2> QED BY <2>1, QuietByPopup
<1>6. ASSUME NEW key \in DOMAIN Groups, Select(key) PROVE QuietInv'
  <2>1. popup' \in PopupRecord /\ popup' # None
    BY <1>6, LookupType, ReaderAssumption DEF Select, PopupRecord
  <2>2. PopupTypeOK'
    BY <1>1, <1>6, <2>1 DEF Select
  <2>3. on /\ UNCHANGED <<pageVars, lineVars, deckVars>>
    BY <1>6 DEF Select
  <2> QED BY <2>1, <2>2, <2>3, QuietByPopup
<1> QED BY <1>2, <1>3, <1>4, <1>5, <1>6 DEF Mouse

\* A hover or a hiding that was pending.
LEMMA QuietTimers ==
  QuietInv /\ (HandleHover \/ HideFires) => QuietInv'
<1> SUFFICES ASSUME QuietInv, HandleHover \/ HideFires PROVE QuietInv'
  OBVIOUS
<1>1. /\ PopupTypeOK /\ page["article"] \in Articles
      /\ ~on => popup = None
      /\ popup = None => mark = None /\ lastLookedUp = None
  BY DEF QuietInv, ReaderTypeOK, PageTypeOK, NothingLeftBehind
<1> USE DEF PopupTypeOK, popupVars
<1>2. CASE HandleHover
  <2>1. UNCHANGED <<pageVars, mouse, wasOverPopup, lineVars, deckVars>> /\ hoverTimer' = None
    BY <1>2 DEF HandleHover
  <2>2. CASE ~on \/ dictionary # "ready" \/ At(hoverTimer) = None
    <3>1. hideTimer' \in BOOLEAN /\ UNCHANGED <<popup, lastLookedUp, mark>>
      BY <1>1, <1>2, <2>2 DEF HandleHover
    <3>2. PopupTypeOK'
      BY <1>1, <2>1, <3>1
    <3> QED BY <1>1, <2>1, <3>1, <3>2, QuietByPopup
  <2>3. CASE on /\ dictionary = "ready" /\ At(hoverTimer) # None
    <3>1. ShowHit(At(hoverTimer))
      BY <1>2, <2>3 DEF HandleHover
    <3>2. /\ hideTimer' = FALSE /\ popup' \in PopupRecord \cup {None} /\ lastLookedUp' # None
          /\ popup' # popup => popup' # None
          /\ Shown(At(hoverTimer)) # lastLookedUp => popup' # None
          /\ lastLookedUp' = Shown(At(hoverTimer))
      BY <1>1, <2>3, <3>1, ShowHitType
    <3>3. popup' # None
      BY <1>1, <3>2
    <3>4. PopupTypeOK'
      BY <1>1, <2>1, <3>2
    <3> QED BY <2>1, <2>3, <3>3, <3>4, QuietByPopup
  <2> QED BY <2>2, <2>3
<1>3. CASE HideFires
  <2>1. /\ UNCHANGED <<pageVars, lineVars, deckVars>>
        /\ popup' = None /\ mark' = None /\ lastLookedUp' = None
    BY <1>3 DEF HideFires, ForceHide
  <2>2. PopupTypeOK'
    BY <1>1, <1>3 DEF HideFires, ForceHide
  <2> QED BY <2>1, <2>2, QuietByPopup
<1> QED BY <1>2, <1>3

\* The switch.
LEMMA QuietSwitch ==
  QuietInv /\ Switch => QuietInv'
<1> SUFFICES ASSUME QuietInv, Switch PROVE QuietInv'
  OBVIOUS
<1> USE DEF QuietInv, ReaderTypeOK, PageTypeOK, PopupTypeOK, LinesTypeOK, DeckTypeOK,
            QuietWhenOff, NothingLeftBehind, pageVars, popupVars, lineVars, deckVars
<1>1. CASE SwitchOn
  BY <1>1 DEF SwitchOn
<1>2. CASE SwitchOff
  <2>1. /\ on' = FALSE /\ popup' = None /\ mark' = None /\ lastLookedUp' = None
        /\ active' = FALSE /\ observing' = FALSE /\ rebuildTimer' = FALSE /\ painted' = {}
        /\ UNCHANGED <<page, dictionary, mouse, hoverTimer, hideTimer, wasOverPopup,
                       highlighter, reply, known, deckVars>>
    BY <1>2 DEF SwitchOff, ForceHide
  <2>2. PageTypeOK'
    BY <2>1
  <2>3. PopupTypeOK'
    BY <2>1
  <2>4. LinesTypeOK' /\ DeckTypeOK'
    BY <2>1
  <2> QED BY <2>1, <2>2, <2>3, <2>4
<1> QED BY <1>1, <1>2 DEF Switch

\* The page: its start, its refills and its repainting.
LEMMA QuietPage ==
  QuietInv /\ Page => QuietInv'
<1> SUFFICES ASSUME QuietInv, Page PROVE QuietInv'
  OBVIOUS
<1> USE DEF QuietInv, ReaderTypeOK, PageTypeOK, PopupTypeOK, LinesTypeOK, DeckTypeOK,
            QuietWhenOff, NothingLeftBehind, pageVars, popupVars, lineVars, deckVars
<1>1. CASE Load
  BY <1>1 DEF Load
<1>2. CASE LoadFails
  BY <1>2 DEF LoadFails
<1>3. CASE Answer
  BY <1>3 DEF Answer
<1>4. CASE Receive
  BY <1>4 DEF Receive, Rebuild
<1>5. CASE AskFails
  BY <1>5 DEF AskFails
<1>6. CASE Refill
  <2>1. page' = [page EXCEPT !["feed"] = IF page["feed"] = <<>> THEN Feed ELSE <<>>]
    BY <1>6 DEF Refill
  <2>2. page' \in [{"article", "feed"} -> Texts] /\ page'["article"] = page["article"]
    BY <2>1 DEF Texts
  <2> QED BY <1>6, <2>2 DEF Refill
<1>7. CASE RebuildFires
  <2>1. rebuildTimer' = FALSE /\ (~on /\ painted = {} => painted' = {})
    BY <1>7 DEF RebuildFires, Rebuild
  <2>2. /\ page' = page /\ on' = on /\ dictionary' = dictionary /\ mouse' = mouse
        /\ hoverTimer' = hoverTimer /\ hideTimer' = hideTimer
        /\ wasOverPopup' = wasOverPopup /\ popup' = popup /\ lastLookedUp' = lastLookedUp
        /\ mark' = mark /\ highlighter' = highlighter /\ reply' = reply /\ known' = known
        /\ observing' = observing /\ active' = active /\ deck' = deck
        /\ backupDue' = backupDue /\ adding' = adding
    BY <1>7 DEF RebuildFires
  <2>3. PageTypeOK' /\ PopupTypeOK'
    BY <2>1, <2>2
  <2>6. LinesTypeOK' /\ DeckTypeOK'
    BY <2>1, <2>2
  <2>4. QuietWhenOff'
    BY <2>1, <2>2
  <2>5. NothingLeftBehind'
    BY <2>1, <2>2
  <2> QED BY <2>3, <2>4, <2>5, <2>6
<1> QED BY <1>1, <1>2, <1>3, <1>4, <1>5, <1>6, <1>7 DEF Page

\* The deck.
LEMMA QuietBackground ==
  QuietInv /\ Background => QuietInv'
<1> SUFFICES ASSUME QuietInv, Background PROVE QuietInv'
  OBVIOUS
<1> USE DEF QuietInv, ReaderTypeOK, PageTypeOK, PopupTypeOK, LinesTypeOK, DeckTypeOK,
            QuietWhenOff, NothingLeftBehind, pageVars, popupVars, lineVars, deckVars
<1>1. ASSUME NEW w \in Words, ChangeElsewhere(w) PROVE QuietInv'
  BY <1>1 DEF ChangeElsewhere, Changed
<1>2. ASSUME NEW w \in Words, AddWord(w) PROVE QuietInv'
  BY <1>2 DEF AddWord, Changed
<1>3. CASE SrsSequenceAdded
  BY <1>3 DEF SrsSequenceAdded, Rebuild
<1>4. CASE WriteCardsBackup
  <2>1. backupDue' = FALSE /\ known' \subseteq Words /\ (~on => painted' = {})
    BY <1>4 DEF WriteCardsBackup, Rebuild
  <2>2. /\ page' = page /\ on' = on /\ dictionary' = dictionary /\ mouse' = mouse
        /\ hoverTimer' = hoverTimer /\ hideTimer' = hideTimer
        /\ wasOverPopup' = wasOverPopup /\ popup' = popup /\ lastLookedUp' = lastLookedUp
        /\ mark' = mark /\ highlighter' = highlighter /\ reply' = reply
        /\ rebuildTimer' = rebuildTimer /\ observing' = observing /\ active' = active
        /\ deck' = deck /\ adding' = adding
    BY <1>4 DEF WriteCardsBackup
  <2>3. PageTypeOK' /\ PopupTypeOK'
    BY <2>1, <2>2
  <2>6. LinesTypeOK' /\ DeckTypeOK'
    BY <2>1, <2>2
  <2>4. QuietWhenOff'
    BY <2>1, <2>2
  <2>5. NothingLeftBehind'
    BY <2>1, <2>2
  <2> QED BY <2>3, <2>4, <2>5, <2>6
<1> QED BY <1>1, <1>2, <1>3, <1>4 DEF Background

\* Type correctness, and that a page that is switched off shows nothing: Spec => []QuietInv
\* (setEnabled in content.ts, deactivate in srs-highlighter.ts).
THEOREM ReaderQuiet == Spec => []QuietInv
<1>1. QuietInv /\ UNCHANGED vars => QuietInv'
  BY DEF QuietInv, ReaderTypeOK, PageTypeOK, PopupTypeOK, LinesTypeOK, DeckTypeOK,
         QuietWhenOff, NothingLeftBehind, vars, pageVars, popupVars, lineVars, deckVars
<1>2. QuietInv /\ [Next]_vars => QuietInv'
  BY <1>1, QuietMouse, QuietTimers, QuietSwitch, QuietPage, QuietBackground DEF Next
<1> QED BY <1>2, QuietInit, PTL DEF Spec

\* With lookups off, or once they were off, nothing stays behind (content.ts, srs-highlighter.ts).
THEOREM ReaderNothingLeftBehind == Spec => []NothingLeftBehind
BY ReaderQuiet, PTL DEF QuietInv

-----------------------------------------------------------------------------
(* The popup.                                                              *)

\* Steps that leave the popup and the mouse alone.
LEMMA PopupUntouched ==
  ASSUME PopupInv, page'["article"] = page["article"], UNCHANGED popupVars,
         on' => on, dictionary = "ready" => dictionary' = "ready"
  PROVE  PopupInv'
<1>1. /\ mouse' = mouse /\ hoverTimer' = hoverTimer /\ hideTimer' = hideTimer
      /\ popup' = popup /\ lastLookedUp' = lastLookedUp /\ mark' = mark
  BY DEF popupVars
<1>2. At(mouse)' = At(mouse)
  BY <1>1 DEF At, Hovers
<1>3. HoverFollowsMouse'
  BY <1>1 DEF PopupInv, HoverFollowsMouse
<1>4. PopupOfPlace'
  BY <1>1, <1>2 DEF PopupInv, PopupOfPlace, Shown
<1> QED BY <1>3, <1>4 DEF PopupInv

\* PopupInv at the start, and after each kind of step.
LEMMA PopupInvInit == Init => PopupInv
BY DEF Init, PopupInv, HoverFollowsMouse, PopupOfPlace

\* The mouse moves, or a selection or Escape changes the popup.
LEMMA PopupMouse ==
  QuietInv /\ PopupInv /\ Mouse => PopupInv'
<1> SUFFICES ASSUME QuietInv, PopupInv, Mouse PROVE PopupInv'
  OBVIOUS
<1> USE DEF QuietInv, NothingLeftBehind, PopupInv, HoverFollowsMouse, PopupOfPlace
<1>1. ASSUME NEW p \in Spots \cup {Blank}, MoveTo(p) PROVE PopupInv'
  <2>1. p # None
    BY ReaderAssumption
  <2>2. on' = on /\ dictionary' = dictionary /\ mouse' = p
    BY <1>1 DEF MoveTo, pageVars
  <2>3. CASE ~on
    <3>1. popup' = None
      BY <1>1, <2>3 DEF MoveTo
    <3> QED BY <2>2, <2>3, <3>1
  <2>4. CASE on /\ wasOverPopup
    <3>1. popup' = None /\ hoverTimer' = None
      BY <1>1, <2>4 DEF MoveTo, ForceHide
    <3> QED BY <3>1
  <2>5. CASE on /\ ~wasOverPopup
    <3>1. hoverTimer' = p /\ popup' = popup /\ lastLookedUp' = lastLookedUp
      BY <1>1, <2>5 DEF MoveTo
    <3> QED BY <2>1, <2>2, <3>1
  <2> QED BY <2>3, <2>4, <2>5
<1>2. CASE MoveOverPopup
  <2>1. /\ mouse' = OverPopup /\ hoverTimer' = None /\ popup' = popup
        /\ lastLookedUp' = lastLookedUp /\ dictionary' = dictionary
    BY <1>2 DEF MoveOverPopup, pageVars
  <2> QED BY <2>1, ReaderAssumption
<1>3. CASE Leave
  <2>1. /\ mouse' = Outside /\ hoverTimer' = hoverTimer /\ popup' = popup /\ on' = on
        /\ lastLookedUp' = lastLookedUp /\ dictionary' = dictionary
    BY <1>3 DEF Leave, pageVars
  <2> QED BY <2>1, ReaderAssumption
<1>4. CASE Escape
  <2>1. popup' = None /\ mouse' = mouse /\ hoverTimer' = hoverTimer /\ on' = on
    BY <1>4 DEF Escape, ForceHide, pageVars
  <2> QED BY <2>1
<1>5. ASSUME NEW key \in DOMAIN Groups, Select(key) PROVE PopupInv'
  <2>1. /\ popup'.by = "selection" /\ mouse' = mouse /\ hoverTimer' = hoverTimer /\ on' = on
        /\ dictionary' = "ready"
    BY <1>5 DEF Select, pageVars
  <2> QED BY <2>1
<1> QED BY <1>1, <1>2, <1>3, <1>4, <1>5 DEF Mouse

\* A hover or a hiding that was pending.
LEMMA PopupTimers ==
  QuietInv /\ PopupInv /\ (HandleHover \/ HideFires) => PopupInv'
<1> SUFFICES ASSUME QuietInv, PopupInv, HandleHover \/ HideFires PROVE PopupInv'
  OBVIOUS
<1>1. CASE HandleHover
  <2>1. /\ hoverTimer # None /\ hoverTimer' = None /\ mouse' = mouse /\ on' = on
        /\ dictionary' = dictionary /\ page' = page
    BY <1>1 DEF HandleHover, pageVars
  <2>2. CASE ~on \/ dictionary # "ready"
    <3>1. popup = None
      BY <2>2 DEF QuietInv, NothingLeftBehind, PopupInv, HoverFollowsMouse
    <3>2. popup' = None
      BY <1>1, <2>2, <3>1 DEF HandleHover
    <3> QED BY <2>1, <3>2 DEF PopupInv, HoverFollowsMouse, PopupOfPlace
  <2>3. CASE on /\ dictionary = "ready" /\ At(hoverTimer) = None
    <3>1. hideTimer' = TRUE /\ popup' = popup /\ lastLookedUp' = lastLookedUp
      BY <1>1, <2>3 DEF HandleHover
    <3> QED BY <2>1, <3>1 DEF PopupInv, HoverFollowsMouse, PopupOfPlace
  <2>4. CASE on /\ dictionary = "ready" /\ At(hoverTimer) # None
    <3>1. PICK hit : hit = At(hoverTimer)
      OBVIOUS
    <3>2. ShowHit(hit)
      BY <1>1, <2>4, <3>1 DEF HandleHover
    <3>3. page["article"] \in Articles /\ popup \in PopupRecord \cup {None}
      BY DEF QuietInv, ReaderTypeOK, PageTypeOK, PopupTypeOK
    <3>4. /\ lastLookedUp' = Shown(hit)
          /\ Shown(hit) # lastLookedUp => popup' = [entries |-> hit.entries, by |-> "hover"]
          /\ Shown(hit) = lastLookedUp => popup' = popup
      BY <2>4, <3>1, <3>2, <3>3, ShowHitType
    <3>5. mark' = [start |-> hit.start, end |-> hit.end]
      BY <3>2 DEF ShowHit
    <3>6. popup' # None /\ popup'.by = "hover" => Headword[popup'.entries[1]] = Shown(hit)
      <4>1. CASE Shown(hit) # lastLookedUp
        BY <3>4, <4>1 DEF Shown
      <4>2. CASE Shown(hit) = lastLookedUp
        BY <3>4, <4>2 DEF PopupInv, HoverFollowsMouse
      <4> QED BY <4>1, <4>2
    <3>7. HoverFollowsMouse'
      BY <2>1, <2>4, <3>4, <3>6 DEF HoverFollowsMouse
    <3>8. ASSUME mouse \in Spots \cup {Blank} PROVE mouse = hoverTimer
      BY <2>1, <2>4, <3>8, ReaderAssumption DEF PopupInv, HoverFollowsMouse
    <3>9. At(mouse)' = At(mouse)
      BY <2>1 DEF At, Hovers
    <3>10. PopupOfPlace'
      <4> SUFFICES ASSUME popup' # None, popup'.by = "hover", mouse \in Spots \cup {Blank}
                   PROVE  /\ At(mouse) # None /\ Headword[popup'.entries[1]] = Shown(At(mouse))
                          /\ mark' = [start |-> At(mouse).start, end |-> At(mouse).end]
        BY <2>1, <3>9 DEF PopupOfPlace, Shown
      <4> QED BY <2>4, <3>1, <3>5, <3>6, <3>8
    <3> QED BY <3>7, <3>10 DEF PopupInv
  <2> QED BY <2>2, <2>3, <2>4
<1>2. CASE HideFires
  <2>1. popup' = None /\ mouse' = mouse /\ hoverTimer' = hoverTimer /\ on' = on
    BY <1>2 DEF HideFires, ForceHide, pageVars
  <2> QED BY <2>1 DEF PopupInv, HoverFollowsMouse, PopupOfPlace
<1> QED BY <1>1, <1>2

\* The switch, the page and the deck.
LEMMA PopupOthers ==
  QuietInv /\ PopupInv /\ (Switch \/ Page \/ Background) => PopupInv'
<1> SUFFICES ASSUME QuietInv, PopupInv, Switch \/ Page \/ Background PROVE PopupInv'
  OBVIOUS
<1>1. CASE SwitchOn
  <2>1. popup' = None /\ hoverTimer' = None
    BY <1>1 DEF SwitchOn, popupVars, QuietInv, NothingLeftBehind
  <2> QED BY <2>1 DEF PopupInv, HoverFollowsMouse, PopupOfPlace
<1>2. CASE SwitchOff
  <2>1. popup' = None /\ on' = FALSE
    BY <1>2 DEF SwitchOff, ForceHide
  <2> QED BY <2>1 DEF PopupInv, HoverFollowsMouse, PopupOfPlace
<1>3. CASE Load
  BY <1>3, PopupUntouched DEF Load
<1>4. CASE LoadFails
  BY <1>4, PopupUntouched DEF LoadFails
<1>5. CASE Answer \/ Receive \/ AskFails \/ RebuildFires
  BY <1>5, PopupUntouched DEF Answer, Receive, AskFails, RebuildFires, pageVars
<1>6. CASE Refill
  <2>1. page'["article"] = page["article"]
    BY <1>6 DEF Refill, QuietInv, ReaderTypeOK, PageTypeOK
  <2> QED BY <1>6, <2>1, PopupUntouched DEF Refill
<1>7. CASE Background
  <2>1. UNCHANGED <<pageVars, popupVars>>
    BY <1>7 DEF Background, ChangeElsewhere, AddWord, SrsSequenceAdded, WriteCardsBackup
  <2> QED BY <2>1, PopupUntouched DEF pageVars
<1> QED BY <1>1, <1>2, <1>3, <1>4, <1>5, <1>6, <1>7 DEF Switch, Page

\* A popup opened by a hover is that of the word under the mouse, unless a timer that
\* will change it is pending (handleHover, forceHide and the timers of content.ts).
THEOREM ReaderPopup == Spec => []PopupInv
<1>1. PopupInv /\ UNCHANGED vars => PopupInv'
  BY PopupUntouched DEF vars, pageVars
<1>2. QuietInv /\ PopupInv /\ [Next]_vars => PopupInv'
  BY <1>1, PopupMouse, PopupTimers, PopupOthers DEF Next
<1> QED BY <1>2, PopupInvInit, ReaderQuiet, PTL DEF Spec

\* Of a text whose words are all Japanese: what a hover has put in the popup is the word
\* under the mouse, and no longer word begins there (content.ts, lookup.rs).
THEOREM ReaderPopupShowsHovered ==
  ASSUME WhollyJapanese
  PROVE  Spec => []PopupShowsHovered
<1>1. QuietInv /\ PopupInv => PopupShowsHovered
  <2> SUFFICES ASSUME QuietInv, PopupInv, on, popup # None, popup.by = "hover",
                      mouse \in Spots \cup {Blank}, hoverTimer = None, ~hideTimer
               PROVE  PopupShowsHovered
    BY DEF PopupShowsHovered
  <2> DEFINE a == page["article"]
             hit == At(mouse)
             word == SubSeq(a, Utf16ToCodePoint(a, mark.start) + 1, Utf16ToCodePoint(a, mark.end))
             longest == CHOOSE l \in Longest : l.text = a /\ l.spot = mouse
  <2>1. /\ hit # None /\ Headword[popup.entries[1]] = Shown(hit)
        /\ mark = [start |-> hit.start, end |-> hit.end]
    BY DEF PopupInv, PopupOfPlace
  <2>2. a \in Articles /\ a \in Seq(Char)
    BY ReaderAssumption DEF QuietInv, ReaderTypeOK, PageTypeOK
  <2>3. mouse \in Spots /\ hit = Hover(a, mouse)
    BY <2>1, <2>2, AtIsHover
  <2>4. IsWordForm(word) /\ Len(word) = Max(Widths(a, mouse))
    <3>1. mark.start = hit.start /\ mark.end = hit.end
      BY <2>1
    <3>2. PICK h : h = hit
      OBVIOUS
    <3>3. word = SubSeq(a, Utf16ToCodePoint(a, h.start) + 1, Utf16ToCodePoint(a, h.end))
      BY <3>1, <3>2
    <3> QED BY <2>1, <2>2, <2>3, <3>2, <3>3, HoverFindsLongestWord
  <2>5. longest.widths = Widths(a, mouse)
    <3> DEFINE is(l) == l.text = a /\ l.spot = mouse
               m == [text |-> a, spot |-> mouse, widths |-> Widths(a, mouse)]
    <3>1. m \in Longest /\ is(m)
      BY <2>2, <2>3 DEF Longest
    <3>2. longest \in Longest /\ is(longest)
      BY <3>1
    <3>3. \A l \in Longest : is(l) => l.widths = Widths(a, mouse)
      BY DEF Longest
    <3> HIDE DEF longest, is
    <3> QED BY <3>2, <3>3
  <2> HIDE DEF word, longest, hit, a
  <2>6. \E h \in {hit} : /\ h # None /\ Headword[popup.entries[1]] = Shown(h)
                         /\ mark = [start |-> h.start, end |-> h.end]
    BY <2>1
  <2>7. IsWordForm(word) /\ Len(word) = Max(longest.widths)
    BY <2>4, <2>5
  <2> QED BY <2>6, <2>7 DEF PopupShowsHovered, word, longest, hit, a
<1> QED BY <1>1, ReaderQuiet, ReaderPopup, PTL

-----------------------------------------------------------------------------
(* The underlines.                                                         *)

LinesInv == PaintsKnown /\ KnowsDeck

\* PaintsKnown and KnowsDeck at the start.
LEMMA LinesInvInit == Init => LinesInv
BY DEF Init, LinesInv, PaintsKnown, KnowsDeck

\* A page that is on and has loaded the dictionary repaints all its nodes.
LEMMA RebuildPaints ==
  ASSUME NEW words, Rebuild(words), active, dictionary = "ready"
  PROVE  painted' = Rebuilt(words)
BY DEF Rebuild

\* Steps that leave the page and its underlines alone.
LEMMA PaintsKnownUntouched ==
  ASSUME PaintsKnown, UNCHANGED <<pageVars, lineVars>>
  PROVE  PaintsKnown'
<1>1. page' = page /\ on' = on /\ dictionary' = dictionary
  BY DEF pageVars
<1>2. /\ highlighter' = highlighter /\ known' = known /\ painted' = painted
      /\ rebuildTimer' = rebuildTimer /\ observing' = observing /\ active' = active
  BY DEF lineVars
<1>3. Rebuilt(known)' = Rebuilt(known)
  BY <1>1, <1>2 DEF Rebuilt, OnPage
<1> QED BY <1>1, <1>2, <1>3 DEF PaintsKnown

\* PaintsKnown after any step.
LEMMA PaintsKnownStep ==
  QuietInv /\ PaintsKnown /\ [Next]_vars => PaintsKnown'
<1> SUFFICES ASSUME QuietInv, PaintsKnown, [Next]_vars PROVE PaintsKnown'
  OBVIOUS
<1> USE DEF PaintsKnown
<1>1. CASE Mouse \/ HandleHover \/ HideFires
  <2>1. UNCHANGED <<pageVars, lineVars>>
    BY <1>1 DEF Mouse, MoveTo, MoveOverPopup, Leave, Escape, Select, HandleHover, HideFires
  <2> QED BY <2>1, PaintsKnownUntouched
<1>2. CASE SwitchOn
  <2>1. /\ on' = TRUE /\ active' = TRUE /\ observing' = (highlighter = "listening")
        /\ page' = page /\ highlighter' = highlighter /\ known' = known
        /\ dictionary' = IF dictionary = "none" THEN "loading" ELSE dictionary
        /\ painted' = IF dictionary # "ready" THEN {} ELSE Rebuilt(known)
    BY <1>2 DEF SwitchOn
  <2>2. Rebuilt(known)' = Rebuilt(known)
    BY <2>1 DEF Rebuilt, OnPage
  <2> QED BY <2>1, <2>2
<1>3. CASE SwitchOff
  BY <1>3 DEF SwitchOff
<1>4. CASE Load
  BY <1>4 DEF Load
<1>5. CASE LoadFails
  BY <1>5 DEF LoadFails, lineVars
<1>6. CASE Answer
  BY <1>6 DEF Answer, pageVars
<1>7. CASE Receive
  <2>1. /\ page' = page /\ on' = on /\ dictionary' = dictionary /\ known' = reply
        /\ observing' = TRUE /\ active' = active
        /\ dictionary = "ready" /\ (on => painted' = Rebuilt(reply))
    BY <1>7, RebuildPaints DEF Receive, pageVars
  <2>2. Rebuilt(known)' = Rebuilt(reply)
    BY <2>1 DEF Rebuilt, OnPage
  <2> QED BY <2>1, <2>2
<1>8. CASE AskFails
  BY <1>8 DEF AskFails, pageVars
<1>9. CASE Refill
  <2>1. /\ on' = on /\ dictionary' = dictionary /\ highlighter' = highlighter
        /\ observing' = observing /\ active' = active /\ rebuildTimer' = (rebuildTimer \/ observing)
    BY <1>9 DEF Refill
  <2> QED BY <2>1
<1>10. CASE RebuildFires
  <2>1. /\ page' = page /\ on' = on /\ dictionary' = dictionary /\ known' = known
        /\ highlighter' = highlighter /\ observing' = observing /\ active' = active
        /\ on /\ dictionary = "ready" => painted' = Rebuilt(known)
    BY <1>10, RebuildPaints DEF RebuildFires, pageVars
  <2>2. Rebuilt(known)' = Rebuilt(known)
    BY <2>1 DEF Rebuilt, OnPage
  <2> QED BY <2>1, <2>2
<1>11. ASSUME NEW w \in Words, ChangeElsewhere(w) \/ AddWord(w) PROVE PaintsKnown'
  BY <1>11, PaintsKnownUntouched DEF ChangeElsewhere, AddWord
<1>12. CASE SrsSequenceAdded
  <2>1. /\ page' = page /\ on' = on /\ dictionary' = dictionary /\ known' = known \cup {adding}
        /\ highlighter' = highlighter /\ observing' = observing /\ active' = active
        /\ rebuildTimer' = rebuildTimer
    BY <1>12 DEF SrsSequenceAdded, pageVars
  <2>2. Rebuilt(known)' = Rebuilt(known \cup {adding})
    BY <2>1 DEF Rebuilt, OnPage
  <2>3. CASE adding \in known
    <3>1. painted' = painted /\ known \cup {adding} = known
      BY <1>12, <2>3 DEF SrsSequenceAdded
    <3> QED BY <2>1, <2>2, <3>1
  <2>4. CASE adding \notin known
    <3>1. on /\ dictionary = "ready" => painted' = Rebuilt(known \cup {adding})
      BY <1>12, <2>1, <2>4, RebuildPaints DEF SrsSequenceAdded
    <3> QED BY <2>1, <2>2, <3>1
  <2> QED BY <2>3, <2>4
<1>13. CASE WriteCardsBackup
  <2>1. /\ page' = page /\ on' = on /\ dictionary' = dictionary
        /\ highlighter' = highlighter /\ observing' = observing /\ active' = active
        /\ rebuildTimer' = rebuildTimer
    BY <1>13 DEF WriteCardsBackup, pageVars
  <2>2. \/ known' = known /\ painted' = painted
        \/ known' = deck /\ Rebuild(deck)
    BY <1>13 DEF WriteCardsBackup
  <2>3. Rebuilt(known)' = Rebuilt(known')
    BY <2>1 DEF Rebuilt, OnPage
  <2>4. CASE known' = known /\ painted' = painted
    BY <2>1, <2>3, <2>4
  <2>5. CASE known' = deck /\ Rebuild(deck)
    <3>1. on /\ dictionary = "ready" => painted' = Rebuilt(deck)
      BY <2>5, RebuildPaints
    <3> QED BY <2>1, <2>3, <2>5, <3>1
  <2> QED BY <2>2, <2>4, <2>5
<1>14. CASE UNCHANGED vars
  BY <1>14, PaintsKnownUntouched DEF vars
<1> QED BY <1>1, <1>2, <1>3, <1>4, <1>5, <1>6, <1>7, <1>8, <1>9, <1>10, <1>11, <1>12, <1>13, <1>14
        DEF Next, Switch, Page, Background

\* What is underlined is always what the page's copy of the deck says.
THEOREM ReaderPaintsKnown == Spec => []PaintsKnown
<1>1. Init => PaintsKnown
  BY LinesInvInit DEF LinesInv
<1> QED BY <1>1, PaintsKnownStep, ReaderQuiet, PTL DEF Spec

\* KnowsDeck after any step, if answers are not overtaken.
LEMMA KnowsDeckStep ==
  ASSUME Patient, QuietInv, KnowsDeck, [Next]_vars
  PROVE  KnowsDeck'
<1> USE DEF KnowsDeck
<1>1. CASE UNCHANGED <<highlighter, reply, known, deckVars>>
  BY <1>1 DEF deckVars
<1>2. CASE Mouse \/ HandleHover \/ HideFires \/ Switch \/ LoadFails \/ RebuildFires \/ UNCHANGED vars
  <2>1. UNCHANGED <<highlighter, reply, known, deckVars>>
    BY <1>2 DEF Mouse, MoveTo, MoveOverPopup, Leave, Escape, Select, HandleHover, HideFires, Switch,
                SwitchOn, SwitchOff, LoadFails, RebuildFires, vars, lineVars
  <2> QED BY <1>1, <2>1
<1>3. CASE Refill
  <2>1. /\ highlighter' = highlighter /\ reply' = reply /\ known' = known
        /\ deck' = deck /\ backupDue' = backupDue /\ adding' = adding
    BY <1>3 DEF Refill
  <2> QED BY <2>1
<1>4. CASE Load
  BY <1>4 DEF Load, deckVars
<1>5. CASE Answer
  BY <1>5 DEF Answer, deckVars
<1>6. CASE Receive
  BY <1>6 DEF Receive, deckVars
<1>7. CASE AskFails
  BY <1>7 DEF AskFails, deckVars
<1>8. ASSUME NEW w \in Words, ChangeElsewhere(w) PROVE KnowsDeck'
  <2>1. /\ adding # w /\ highlighter # "answered" /\ backupDue' = TRUE
        /\ deck' = IF w \in deck THEN deck \ {w} ELSE deck \cup {w}
        /\ highlighter' = highlighter /\ adding' = adding
    BY <1>8 DEF ChangeElsewhere, Changed, lineVars
  <2> QED BY <2>1
<1>9. ASSUME NEW w \in Words, AddWord(w) PROVE KnowsDeck'
  <2>1. /\ adding' = w /\ highlighter # "answered" /\ backupDue' = TRUE
        /\ deck' = deck \cup {w} /\ highlighter' = highlighter
    BY <1>9 DEF AddWord, Changed, lineVars
  <2> QED BY <2>1
<1>10. CASE SrsSequenceAdded
  <2>1. /\ adding # None /\ adding' = None /\ known' = known \cup {adding}
        /\ highlighter' = highlighter /\ reply' = reply /\ deck' = deck /\ backupDue' = backupDue
    BY <1>10 DEF SrsSequenceAdded
  <2> QED BY <2>1
<1>11. CASE WriteCardsBackup
  <2>1. /\ highlighter' = highlighter /\ reply' = reply /\ deck' = deck /\ adding' = adding
        /\ deck # {} /\ highlighter = "listening" => known' = deck
    BY <1>11 DEF WriteCardsBackup
  <2> QED BY <2>1
<1> QED BY <1>2, <1>3, <1>4, <1>5, <1>6, <1>7, <1>8, <1>9, <1>10, <1>11
        DEF Next, Page, Background

\* If no answer is overtaken by a change, the underlines are those of the words in the deck.
THEOREM ReaderUnderlinesFollowDeck ==
  ASSUME Patient
  PROVE  Spec => []UnderlinesFollowDeck
<1>1. Init => KnowsDeck
  BY LinesInvInit DEF LinesInv
<1>2. QuietInv /\ KnowsDeck /\ [Next]_vars => KnowsDeck'
  BY KnowsDeckStep
<1>3. PaintsKnown /\ KnowsDeck => UnderlinesFollowDeck
  BY FoundIsExpected DEF PaintsKnown, KnowsDeck, UnderlinesFollowDeck, Rebuilt
<1> QED BY <1>1, <1>2, <1>3, ReaderQuiet, ReaderPaintsKnown, PTL DEF Spec
=============================================================================
