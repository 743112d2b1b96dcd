----------------------------- MODULE PeriodProofs -----------------------------
(***************************************************************************)
(* Theorems about Period.tla and PeriodDocs.tla: the parser of periods     *)
(* meets the documented grammar for expressions of any length, and the     *)
(* recipes and the alternating job do what is written of them on any day.  *)
(***************************************************************************)
EXTENDS PeriodDocs, TLAPS, WellFoundedInduction, SequenceTheorems

-----------------------------------------------------------------------------
(* Induction on natural numbers, over a set in place of a predicate.       *)

LEMMA LeastElement ==
  ASSUME NEW T \in SUBSET Nat, T # {}
  PROVE  \E x \in T : \A y \in T : x <= y
<1> DEFINE R == OpToRel(<, Nat)
<1>1. IsWellFoundedOn(R, Nat)
  BY NatLessThanWellFounded, Zenon
<1>2. \A x, y \in Nat : <<y, x>> \in R <=> y < x
  BY Zenon DEF OpToRel
<1> HIDE DEF R
<1>3. PICK x \in T : \A y \in T : ~ (<<y, x>> \in R)
  BY <1>1, WFMin
<1>4. \A y \in T : ~(y < x)
  BY <1>2, <1>3
<1> QED BY <1>4

LEMMA Induction ==
  ASSUME NEW S, 0 \in S, \A n \in Nat : n \in S => n + 1 \in S
  PROVE  Nat \subseteq S
<1> SUFFICES ASSUME Nat \ S # {} PROVE FALSE
  OBVIOUS
<1>1. PICK x \in Nat \ S : \A y \in Nat \ S : x <= y
  BY LeastElement
<1>2. x # 0 /\ x - 1 \in Nat
  BY <1>1
<1>3. x - 1 \in S
  BY <1>1, <1>2
<1> QED BY <1>1, <1>2, <1>3

(* The same with all smaller numbers as the hypothesis.                    *)
LEMMA StrongInduction ==
  ASSUME NEW S, \A n \in Nat : (\A m \in 0 .. n - 1 : m \in S) => n \in S
  PROVE  Nat \subseteq S
<1> SUFFICES ASSUME Nat \ S # {} PROVE FALSE
  OBVIOUS
<1>1. PICK x \in Nat \ S : \A y \in Nat \ S : x <= y
  BY LeastElement
<1>2. \A m \in 0 .. x - 1 : m \in S
  BY <1>1
<1> QED BY <1>1, <1>2

-----------------------------------------------------------------------------
(* The recursive definitions define what they say.                         *)

(* One step of the parser for each token.                                  *)
LEMMA ReadingSteps ==
  ASSUME NEW s, Len(s) \in Nat
  PROVE  /\ Reading(s)[0] = Start
         /\ \A i \in 0 .. Len(s) - 1 : Reading(s)[i + 1] = Take(Reading(s)[i], s[i + 1])
<1> DEFINE Is(g, n) == g = [i \in 0 .. n |-> IF i = 0 THEN Start
                                             ELSE Take(g[i - 1], s[i])]
           S == {n \in Nat : \E g : Is(g, n)}
<1>1. 0 \in S
  <2>1. Is([i \in 0 .. 0 |-> Start], 0)
    OBVIOUS
  <2> QED BY <2>1
<1>2. ASSUME NEW n \in Nat, n \in S PROVE n + 1 \in S
  <2>1. PICK g : Is(g, n)
    BY <1>2
  <2>2. PICK h : h = [i \in 0 .. n + 1 |-> IF i <= n THEN g[i]
                                           ELSE Take(g[n], s[n + 1])]
    OBVIOUS
  <2>3. ASSUME NEW i \in 0 .. n + 1
        PROVE  h[i] = IF i = 0 THEN Start ELSE Take(h[i - 1], s[i])
    <3>1. CASE i = n + 1
      BY <2>2, <3>1
    <3>2. CASE i <= n
      <4>1. h[i] = g[i] /\ (i # 0 => h[i - 1] = g[i - 1])
        BY <2>2, <3>2
      <4> QED BY <4>1, <3>2, <2>1
    <3> QED BY <3>1, <3>2
  <2>4. Is(h, n + 1)
    BY <2>2, <2>3
  <2> QED BY <2>4
<1>3. Len(s) \in S
  <2> HIDE DEF S
  <2> QED BY <1>1, <1>2, Induction
<1>4. \E g : Is(g, Len(s))
  BY <1>3
<1>5. Reading(s) = CHOOSE g : Is(g, Len(s))
  BY DEF Reading
<1>6. Is(Reading(s), Len(s))
  <2> HIDE DEF Is
  <2> QED BY <1>4, <1>5
<1>7. ASSUME NEW i \in 0 .. Len(s) - 1
      PROVE  Reading(s)[i + 1] = Take(Reading(s)[i], s[i + 1])
  BY <1>6
<1> QED BY <1>6, <1>7

(* One or more of something: the last of them after none or after others.  *)
More(g, meanings, a, b) == UNION {AndOne(g[c], meanings[<<c, b>>]) : c \in a .. b - 1}

(* The last of them is one of the meanings of the end of it.               *)
Ends(x, g, meanings, a, b) ==
  \E c \in a .. b - 1 : \E xs \in g[c] : \E y \in meanings[<<c, b>>] : x = xs \cup {y}

LEMMA MoreEnds ==
  ASSUME NEW g, NEW meanings, NEW a, NEW b, NEW x
  PROVE  x \in More(g, meanings, a, b) <=> Ends(x, g, meanings, a, b)
<1>1. x \in More(g, meanings, a, b) <=>
        \E c \in a .. b - 1 : x \in AndOne(g[c], meanings[<<c, b>>])
  BY DEF More
<1>2. \A before, of :
        x \in AndOne(before, of) <=> \E xs \in before : \E y \in of : x = xs \cup {y}
  BY DEF AndOne
<1> QED BY <1>1, <1>2 DEF Ends

LEMMA MoreLocal ==
  ASSUME NEW f, NEW g, NEW meanings, NEW a, NEW b, \A c \in a .. b - 1 : f[c] = g[c]
  PROVE  More(f, meanings, a, b) = More(g, meanings, a, b)
<1>1. ASSUME NEW x PROVE Ends(x, f, meanings, a, b) <=> Ends(x, g, meanings, a, b)
  BY DEF Ends
<1>2. ASSUME NEW x
      PROVE  x \in More(f, meanings, a, b) <=> x \in More(g, meanings, a, b)
  BY <1>1, MoreEnds
<1> QED BY <1>2

LEMMA OneOrMoreSteps ==
  ASSUME NEW meanings, NEW a \in Int, NEW n \in Int, a <= n
  PROVE  /\ OneOrMore(meanings, a, n)[a] = {{}}
         /\ \A b \in a + 1 .. n : \A x :
              x \in OneOrMore(meanings, a, n)[b] <=>
                Ends(x, OneOrMore(meanings, a, n), meanings, a, b)
<1> DEFINE Is(g, m) == g = [b \in a .. m |->
                             IF b = a THEN {{}} ELSE More(g, meanings, a, b)]
           S == {k \in Nat : \E g : Is(g, a + k)}
<1>1. 0 \in S
  <2>1. PICK g : g = [b \in a .. a |-> {{}}]
    OBVIOUS
  <2>2. \A b \in a .. a : b = a
    OBVIOUS
  <2>3. g = [b \in a .. a |-> IF b = a THEN {{}} ELSE More(g, meanings, a, b)]
    BY <2>1, <2>2
  <2>4. a + 0 = a
    OBVIOUS
  <2> QED BY <2>3, <2>4
<1>2. ASSUME NEW k \in Nat, k \in S PROVE k + 1 \in S
  <2>1. PICK g : Is(g, a + k)
    BY <1>2
  <2>2. PICK h : h = [b \in a .. a + (k + 1) |->
                        IF b <= a + k THEN g[b] ELSE More(g, meanings, a, a + (k + 1))]
    OBVIOUS
  <2>3. ASSUME NEW b \in a .. a + (k + 1)
        PROVE  h[b] = IF b = a THEN {{}} ELSE More(h, meanings, a, b)
    <3>1. \A c \in a .. b - 1 : g[c] = h[c]
      BY <2>2
    <3>2. More(g, meanings, a, b) = More(h, meanings, a, b)
      BY <3>1, MoreLocal
    <3>3. CASE b = a + (k + 1)
      <4>1. h[b] = More(g, meanings, a, b) /\ b # a
        BY <2>2, <3>3
      <4> QED BY <4>1, <3>2
    <3>4. CASE b <= a + k
      <4>1. h[b] = g[b]
        BY <2>2, <3>4
      <4>2. b \in a .. a + k
        BY <3>4
      <4>3. g[b] = IF b = a THEN {{}} ELSE More(g, meanings, a, b)
        BY <2>1, <4>2
      <4> QED BY <4>1, <4>3, <3>2
    <3> QED BY <3>3, <3>4
  <2>4. Is(h, a + (k + 1))
    BY <2>2, <2>3
  <2> QED BY <2>4
<1>3. n - a \in S
  <2> HIDE DEF S
  <2> QED BY <1>1, <1>2, Induction
<1>4. \E g : Is(g, n)
  BY <1>3
<1>5. OneOrMore(meanings, a, n) = CHOOSE g : Is(g, n)
  BY DEF OneOrMore, More
<1>6. Is(OneOrMore(meanings, a, n), n)
  <2> HIDE DEF Is
  <2> QED BY <1>4, <1>5
<1>7. OneOrMore(meanings, a, n)[a] = {{}}
  BY <1>6
<1>8. ASSUME NEW b \in a + 1 .. n
      PROVE  OneOrMore(meanings, a, n)[b] = More(OneOrMore(meanings, a, n), meanings, a, b)
  <2>1. b \in a .. n /\ b # a
    OBVIOUS
  <2> QED BY <1>6, <2>1
<1> QED BY <1>7, <1>8, MoreEnds

-----------------------------------------------------------------------------
(* Values and scales.                                                      *)

(* The tokens of a sequence have numbers.                                  *)
Numbered(s) == Len(s) \in Nat /\ \A i \in 1 .. Len(s) : s[i].number \in Int

LEMMA ValuesAreNumbers ==
  ASSUME NEW scale, NEW tok, tok.number \in Int
  PROVE  Values(scale, tok) \subseteq Int
<1>1. {tok.number, Am(tok.number), Pm(tok.number)} \cup 1 .. 12 \subseteq Int
  BY DEF Am, Pm
<1> QED BY <1>1 DEF Values

LEMMA NamesDiffer ==
  /\ \A m, n \in 1 .. 12 : Months[m] = Months[n] => m = n
  /\ \A m, n \in 1 .. 7 : \A w : w \in Weekdays[m] /\ w \in Weekdays[n] => m = n
  /\ \A n \in 1 .. 12 : Months[n] \notin {"-", "}"}
  /\ \A n \in 1 .. 7 : \A w \in Weekdays[n] : w \notin {"-", "}"}
<1>1. \A m, n \in 1 .. 12 : Months[m] = Months[n] => m = n
  BY DEF Months
<1>2. \A m, n \in 1 .. 7 : \A w : w \in Weekdays[m] /\ w \in Weekdays[n] => m = n
  BY DEF Weekdays
<1>3. \A n \in 1 .. 12 :
        Months[n] \in {"jan", "feb", "mar", "apr", "may", "jun", "jul", "aug",
                            "sep", "oct", "nov", "dec"}
  BY DEF Months
<1>4. ASSUME NEW n \in 1 .. 7
      PROVE  Weekdays[n] \subseteq {"su", "sun", "mo", "mon", "tu", "tue", "we",
                                     "wed", "th", "thu", "fr", "fri", "sa", "sat"}
  <2>1. CASE n = 1
    BY <2>1 DEF Weekdays
  <2>2. CASE n = 2
    BY <2>2 DEF Weekdays
  <2>3. CASE n = 3
    BY <2>3 DEF Weekdays
  <2>4. CASE n = 4
    BY <2>4 DEF Weekdays
  <2>5. CASE n = 5
    BY <2>5 DEF Weekdays
  <2>6. CASE n = 6
    BY <2>6 DEF Weekdays
  <2>7. CASE n = 7
    BY <2>7 DEF Weekdays
  <2> QED BY <2>1, <2>2, <2>3, <2>4, <2>5, <2>6, <2>7
<1> QED BY <1>1, <1>2, <1>3, <1>4

(* A token has one value at most.                                          *)
LEMMA OneValue ==
  ASSUME NEW scale, NEW tok, tok.number \in Int, NEW v \in Values(scale, tok),
         NEW w \in Values(scale, tok)
  PROVE  v = w
<1>1. CASE IsNumber(tok)
  <2>1. \A x : tok # Word(x)
    <3> SUFFICES ASSUME NEW x, tok = Word(x) PROVE FALSE
      OBVIOUS
    <3>1. tok.number = -1
      BY DEF Word
    <3> QED BY <1>1, <3>1 DEF IsNumber
  <2>2. \A n \in 1 .. 7 : tok \notin {Word(x) : x \in Weekdays[n]}
    BY <2>1
  <2>3. tok = Hour(12, "noon") => tok.word = "noon"
    BY DEF Hour
  <2>4. ASSUME NEW n \in Values(scale, tok)
        PROVE  \/ tok.word = "" /\ n = tok.number
               \/ tok.word = "am" /\ n = Am(tok.number)
               \/ tok.word = "pm" /\ n = Pm(tok.number)
               \/ tok.word = "noon" /\ n = 12
    BY <2>1, <2>2, <2>3 DEF Values
  <2> QED BY <2>4
<1>2. CASE ~IsNumber(tok)
  <2>1. ASSUME NEW n \in Values(scale, tok)
        PROVE  \/ n \in 1 .. 12 /\ scale = "month" /\ tok.word = Months[n]
               \/ n \in 1 .. 7 /\ scale = "wday" /\ tok.word \in Weekdays[n]
    <3>1. tok # Hour(12, "noon")
      BY <1>2 DEF IsNumber, Hour
    <3>2. \A x : tok = Word(x) => tok.word = x
      BY DEF Word
    <3> QED BY <1>2, <3>1, <3>2 DEF Values
  <2> QED BY <2>1, NamesDiffer
<1> QED BY <1>1, <1>2

LEMMA WordsAreNoNumbers ==
  ASSUME NEW x
  PROVE  ~IsNumber(Word(x)) /\ Word(x) # Hour(12, "noon")
BY DEF Word, IsNumber, Hour

LEMMA WordsDiffer ==
  ASSUME NEW x, NEW y, Word(x) = Word(y)
  PROVE  x = y
BY DEF Word

LEMMA SignsDiffer == To # CloseBrace /\ To # OpenBrace /\ OpenBrace # CloseBrace
<1>1. "-" # "{" /\ "-" # "}" /\ "{" # "}"
  BY Zenon
<1> QED BY <1>1, WordsDiffer, Zenon DEF To, OpenBrace, CloseBrace

LEMMA SignsHaveNoValue ==
  ASSUME NEW scale, NEW tok \in {To, CloseBrace}
  PROVE  Values(scale, tok) = {}
<1>1. PICK sign \in {"-", "}"} : tok = Word(sign)
  BY Zenon DEF To, CloseBrace
<1>2. ~IsNumber(tok) /\ tok # Hour(12, "noon")
  BY <1>1, WordsAreNoNumbers
<1>3. \A n \in 1 .. 12 : Months[n] # sign
  BY <1>1, NamesDiffer, Zenon
<1>4. \A n \in 1 .. 7 : \A w \in Weekdays[n] : w # sign
  BY <1>1, NamesDiffer, Zenon
<1>5. \A n \in 1 .. 12 : tok # Word(Months[n])
  BY <1>1, <1>3, WordsDiffer, Zenon
<1>6. \A n \in 1 .. 7 : \A w \in Weekdays[n] : tok # Word(w)
  BY <1>1, <1>4, WordsDiffer, Zenon
<1> QED BY <1>2, <1>5, <1>6 DEF Values

(* The words of the table are the words of the parser.                     *)
LEMMA ScaleMeetsTable ==
  ASSUME NEW w
  PROVE  Scales(w) = {TableScale(w)} \ {"none"}
<1>1. \A c \in Candidates : c = <<c[1], c[2]>>
  BY DEF Candidates
<1>2. ASSUME NEW x PROVE <<w, x>> \in Candidates <=> TableScale(w) = x /\ x # "none"
  BY DEF Candidates, TableScale
<1>3. ASSUME NEW x PROVE x \in Scales(w) <=> x \in {TableScale(w)} \ {"none"}
  <2>1. x \in Scales(w) <=> \E c \in Candidates : c[1] = w /\ c[2] = x
    BY DEF Scales
  <2>2. (\E c \in Candidates : c[1] = w /\ c[2] = x) <=> <<w, x>> \in Candidates
    BY <1>1
  <2> QED BY <2>1, <2>2, <1>2
<1> QED BY <1>3

-----------------------------------------------------------------------------
(* The parser's steps, one per kind of token it can expect.                *)

TableScales == {"year", "month", "week", "yday", "mday", "wday", "hour", "minute",
                "second", "none"}
Ranges == SUBSET (Int \X Int)
Clauses == SUBSET [scale : TableScales, ranges : Ranges]
Parser == [expects : {"scale", "brace", "range", "dash", "high", "nothing"},
           scale : TableScales, ranges : Ranges, lo : Int, clauses : Clauses]

(* All that a step changes but what is expected next.                      *)
Has(p, scale, ranges, clauses) ==
  p.scale = scale /\ p.ranges = ranges /\ p.clauses = clauses

LEMMA StartType ==
  /\ Start \in Parser
  /\ Start.expects = "scale" /\ Start.ranges = {} /\ Start.clauses = {}
<1>1. {} \in Ranges /\ {} \in Clauses
  BY DEF Ranges, Clauses
<1>2. "none" \in TableScales
  BY DEF TableScales
<1> QED BY <1>1, <1>2 DEF Start, Parser

LEMMA FailType ==
  ASSUME NEW p \in Parser
  PROVE  Fail(p) \in Parser /\ Fail(p).expects = "nothing"
BY DEF Fail, Parser

LEMMA CloseType ==
  ASSUME NEW p \in Parser
  PROVE  /\ Close(p) \in Parser
         /\ p.ranges = {} => Close(p).expects = "nothing"
         /\ p.ranges # {} =>
              /\ Close(p).expects = "scale"
              /\ Has(Close(p), p.scale, {},
                     p.clauses \cup {[scale |-> p.scale, ranges |-> p.ranges]})
<1>1. CASE p.ranges = {}
  BY <1>1, FailType DEF Close
<1>2. CASE p.ranges # {}
  <2>1. [scale |-> p.scale, ranges |-> p.ranges] \in [scale : TableScales, ranges : Ranges]
    BY DEF Parser
  <2>2. p.clauses \cup {[scale |-> p.scale, ranges |-> p.ranges]} \in Clauses
    BY <2>1 DEF Parser, Clauses
  <2>3. {} \in Ranges
    BY DEF Ranges
  <2> DEFINE cs == p.clauses \cup {[scale |-> p.scale, ranges |-> p.ranges]}
  <2>4. Close(p) = [p EXCEPT !.expects = "scale", !.ranges = {}, !.clauses = cs]
    BY <1>2 DEF Close, Parser
  <2>5. cs \in Clauses
    BY <2>2
  <2> HIDE DEF cs
  <2>6. Close(p) \in Parser /\ Close(p).expects = "scale" /\ Has(Close(p), p.scale, {}, cs)
    BY <2>3, <2>4, <2>5 DEF Parser, Has
  <2> QED BY <1>2, <2>6 DEF cs
<1> QED BY <1>1, <1>2

LEMMA AddRangeType ==
  ASSUME NEW p \in Parser, NEW lo \in Int, NEW hi \in Int
  PROVE  /\ AddRange(p, lo, hi) \in Parser
         /\ AddRange(p, lo, hi).expects = "range"
         /\ Has(AddRange(p, lo, hi), p.scale, p.ranges \cup {<<lo, hi>>}, p.clauses)
<1> DEFINE rs == p.ranges \cup {<<lo, hi>>}
<1>1. rs \in Ranges
  <2>1. p.ranges \in Ranges
    BY DEF Parser
  <2>2. <<lo, hi>> \in Int \X Int
    OBVIOUS
  <2> QED BY <2>1, <2>2 DEF Ranges
<1>2. AddRange(p, lo, hi) = [p EXCEPT !.ranges = rs, !.expects = "range"]
  BY DEF AddRange, Parser
<1> HIDE DEF rs
<1>3. /\ AddRange(p, lo, hi) \in Parser
      /\ AddRange(p, lo, hi).expects = "range"
      /\ Has(AddRange(p, lo, hi), p.scale, rs, p.clauses)
  BY <1>1, <1>2 DEF Parser, Has
<1> QED BY <1>3 DEF rs

LEMMA LowType ==
  ASSUME NEW p \in Parser, NEW tok, tok.number \in Int
  PROVE  /\ Low(p, tok) \in Parser
         /\ Values(p.scale, tok) = {} => Low(p, tok).expects = "nothing"
         /\ \A v \in Values(p.scale, tok) :
              /\ Low(p, tok).expects = "dash"
              /\ Low(p, tok).lo = v
              /\ Has(Low(p, tok), p.scale, p.ranges, p.clauses)
<1>1. CASE Values(p.scale, tok) = {}
  BY <1>1, FailType DEF Low
<1>2. CASE Values(p.scale, tok) # {}
  <2>1. PICK v \in Values(p.scale, tok) : v = CHOOSE x \in Values(p.scale, tok) : TRUE
    BY <1>2
  <2>2. v \in Int /\ \A w \in Values(p.scale, tok) : w = v
    BY <2>1, OneValue, ValuesAreNumbers
  <2>3. Low(p, tok) = [p EXCEPT !.expects = "dash", !.lo = v]
    BY <1>2, <2>1 DEF Low
  <2> QED BY <1>2, <2>2, <2>3 DEF Parser, Has
<1> QED BY <1>1, <1>2

LEMMA TakeScale ==
  ASSUME NEW p \in Parser, NEW tok, tok.number \in Int, p.expects = "scale"
  PROVE  LET sc == TableScale(tok.word)
         IN /\ Take(p, tok) \in Parser
            /\ IsNumber(tok) \/ sc = "none" => Take(p, tok).expects = "nothing"
            /\ ~IsNumber(tok) /\ sc # "none" =>
                 /\ Take(p, tok).expects = "brace"
                 /\ Has(Take(p, tok), sc, p.ranges, p.clauses)
<1> DEFINE sc == TableScale(tok.word)
<1>1. sc \in TableScales
  BY DEF TableScale, TableScales
<1>2. Scales(tok.word) = {sc} \ {"none"}
  BY ScaleMeetsTable
<1> HIDE DEF sc
<1>3. CASE ~IsNumber(tok) /\ sc # "none"
  <2>1. Scales(tok.word) # {} /\ (CHOOSE x \in Scales(tok.word) : TRUE) = sc
    BY <1>2, <1>3
  <2>2. Take(p, tok) = [p EXCEPT !.expects = "brace", !.scale = sc]
    BY <2>1, <1>3 DEF Take
  <2>4. /\ Take(p, tok) \in Parser
        /\ Take(p, tok).expects = "brace"
        /\ Has(Take(p, tok), sc, p.ranges, p.clauses)
    BY <2>2, <1>1 DEF Parser, Has
  <2> QED BY <2>4, <1>3 DEF sc
<1>4. CASE IsNumber(tok) \/ sc = "none"
  <2>1. Take(p, tok) = Fail(p)
    BY <1>2, <1>4 DEF Take
  <2> QED BY <2>1, <1>4, FailType DEF sc
<1> QED BY <1>3, <1>4

LEMMA TakeBrace ==
  ASSUME NEW p \in Parser, NEW tok, tok.number \in Int, p.expects = "brace"
  PROVE  /\ Take(p, tok) \in Parser
         /\ tok # OpenBrace => Take(p, tok).expects = "nothing"
         /\ tok = OpenBrace =>
              /\ Take(p, tok).expects = "range"
              /\ Has(Take(p, tok), p.scale, p.ranges, p.clauses)
<1>1. CASE tok = OpenBrace
  <2>1. Take(p, tok) = [p EXCEPT !.expects = "range"]
    BY <1>1 DEF Take
  <2> QED BY <1>1, <2>1 DEF Parser, Has
<1>2. CASE tok # OpenBrace
  <2>1. Take(p, tok) = Fail(p)
    BY <1>2 DEF Take
  <2> QED BY <1>2, <2>1, FailType
<1> QED BY <1>1, <1>2

LEMMA TakeRange ==
  ASSUME NEW p \in Parser, NEW tok, tok.number \in Int, p.expects = "range"
  PROVE  /\ Take(p, tok) \in Parser
         /\ tok = CloseBrace => Take(p, tok) = Close(p)
         /\ tok # CloseBrace => Take(p, tok) = Low(p, tok)
<1>1. /\ tok = CloseBrace => Take(p, tok) = Close(p)
      /\ tok # CloseBrace => Take(p, tok) = Low(p, tok)
  BY DEF Take
<1> QED BY <1>1, CloseType, LowType

LEMMA TakeDash ==
  ASSUME NEW p \in Parser, NEW tok, tok.number \in Int, p.expects = "dash"
  PROVE  LET with == AddRange(p, p.lo, p.lo)
         IN /\ Take(p, tok) \in Parser
            /\ tok = To => /\ Take(p, tok).expects = "high"
                                 /\ Take(p, tok).lo = p.lo
                                 /\ Has(Take(p, tok), p.scale, p.ranges, p.clauses)
            /\ tok = CloseBrace => Take(p, tok) = Close(with)
            /\ tok \notin {To, CloseBrace} => Take(p, tok) = Low(with, tok)
<1>1. p.lo \in Int
  BY DEF Parser
<1>2. AddRange(p, p.lo, p.lo) \in Parser
  BY <1>1, AddRangeType
<1>3. To # CloseBrace
  BY SignsDiffer
<1>4. tok = CloseBrace => Take(p, tok) = Close(AddRange(p, p.lo, p.lo))
  BY <1>3 DEF Take
<1>5. tok \notin {To, CloseBrace} => Take(p, tok) = Low(AddRange(p, p.lo, p.lo), tok)
  BY DEF Take
<1>6. CASE tok = To
  <2>1. Take(p, tok) = [p EXCEPT !.expects = "high"]
    BY <1>3, <1>6 DEF Take
  <2> QED BY <1>3, <1>6, <2>1 DEF Parser, Has
<1> QED BY <1>2, <1>4, <1>5, <1>6, CloseType, LowType

LEMMA TakeHigh ==
  ASSUME NEW p \in Parser, NEW tok, tok.number \in Int, p.expects = "high"
  PROVE  /\ Take(p, tok) \in Parser
         /\ Values(p.scale, tok) = {} => Take(p, tok).expects = "nothing"
         /\ \A v \in Values(p.scale, tok) :
              /\ Take(p, tok).expects = "range"
              /\ Has(Take(p, tok), p.scale, p.ranges \cup {<<p.lo, v>>}, p.clauses)
<1>1. CASE Values(p.scale, tok) = {}
  <2>1. Take(p, tok) = Fail(p)
    BY <1>1 DEF Take
  <2> QED BY <1>1, <2>1, FailType
<1>2. CASE Values(p.scale, tok) # {}
  <2>1. PICK v \in Values(p.scale, tok) : v = CHOOSE x \in Values(p.scale, tok) : TRUE
    BY <1>2
  <2>2. v \in Int /\ \A w \in Values(p.scale, tok) : w = v
    BY <2>1, OneValue, ValuesAreNumbers
  <2>3. PICK lo \in Int : lo = p.lo
    BY DEF Parser
  <2>4. Take(p, tok) = AddRange(p, lo, v)
    BY <1>2, <2>1, <2>3 DEF Take
  <2>5. /\ Take(p, tok) \in Parser /\ Take(p, tok).expects = "range"
        /\ Has(Take(p, tok), p.scale, p.ranges \cup {<<lo, v>>}, p.clauses)
    BY <2>2, <2>4, AddRangeType
  <2> QED BY <1>2, <2>2, <2>3, <2>5
<1> QED BY <1>1, <1>2

LEMMA TakeNothing ==
  ASSUME NEW p \in Parser, NEW tok, p.expects = "nothing"
  PROVE  Take(p, tok) \in Parser /\ Take(p, tok).expects = "nothing"
<1>1. Take(p, tok) = Fail(p)
  BY DEF Take
<1> QED BY <1>1, FailType

LEMMA TakeType ==
  ASSUME NEW p \in Parser, NEW tok, tok.number \in Int
  PROVE  Take(p, tok) \in Parser
<1>1. p.expects \in {"scale", "brace", "range", "dash", "high", "nothing"}
  BY DEF Parser
<1>2. CASE p.expects = "scale"
  BY <1>2, TakeScale
<1>3. CASE p.expects = "brace"
  BY <1>3, TakeBrace
<1>4. CASE p.expects = "range"
  BY <1>4, TakeRange
<1>5. CASE p.expects = "dash"
  BY <1>5, TakeDash
<1>6. CASE p.expects = "high"
  BY <1>6, TakeHigh
<1>7. CASE p.expects = "nothing"
  BY <1>7, TakeNothing
<1> QED BY <1>1, <1>2, <1>3, <1>4, <1>5, <1>6, <1>7

LEMMA ReadingType ==
  ASSUME NEW s, Numbered(s), NEW i \in 0 .. Len(s)
  PROVE  Reading(s)[i] \in Parser
<1> DEFINE S == {n \in Nat : n <= Len(s) => Reading(s)[n] \in Parser}
<1>1. Len(s) \in Nat
  BY DEF Numbered
<1>2. 0 \in S
  BY <1>1, ReadingSteps, StartType
<1>3. ASSUME NEW n \in Nat, n \in S PROVE n + 1 \in S
  <2> SUFFICES ASSUME n + 1 <= Len(s) PROVE Reading(s)[n + 1] \in Parser
    OBVIOUS
  <2>1. n \in 0 .. Len(s) - 1 /\ s[n + 1].number \in Int
    BY <1>1 DEF Numbered
  <2>2. Reading(s)[n] \in Parser
    BY <1>1, <1>3
  <2>3. Reading(s)[n + 1] = Take(Reading(s)[n], s[n + 1])
    BY <1>1, <2>1, ReadingSteps
  <2> QED BY <2>1, <2>2, <2>3, TakeType
<1> HIDE DEF S
<1>4. Nat \subseteq S
  BY <1>2, <1>3, Induction
<1> QED BY <1>1, <1>4 DEF S

-----------------------------------------------------------------------------
(* The grammar's steps.                                                    *)

(* x is what comes before position c and what is read from there to b.     *)
LastRange(x, scale, s, a, b) ==
  \E c \in a .. b - 1 : \E rs \in RangesMeanings(scale, s, a)[c] :
    \E r \in RangeMeanings(scale, s, c, b) : x = rs \cup {r}
LastClause(x, s, b) ==
  \E a \in 0 .. b - 1 : \E cs \in SubPeriodMeanings(s)[a] :
    \E c \in ClauseMeanings(s, a, b) : x = cs \cup {c}

LEMMA RangesSteps ==
  ASSUME NEW scale, NEW s, Len(s) \in Nat, NEW a \in 0 .. Len(s)
  PROVE  LET upTo == RangesMeanings(scale, s, a)
         IN /\ upTo[a] = {{}}
            /\ \A b \in a + 1 .. Len(s) : \A x :
                 x \in upTo[b] <=> LastRange(x, scale, s, a, b)
<1> DEFINE n == Len(s)
           F == [cut \in (a .. n) \X (a .. n) |-> RangeMeanings(scale, s, cut[1], cut[2])]
<1>1. \A b \in a + 1 .. n : \A c \in a .. b - 1 : F[<<c, b>>] = RangeMeanings(scale, s, c, b)
  OBVIOUS
<1>2. RangesMeanings(scale, s, a) = OneOrMore(F, a, n)
  BY DEF RangesMeanings
<1>3. n \in Int /\ a <= n
  OBVIOUS
<1> HIDE DEF F, n
<1>4. /\ OneOrMore(F, a, n)[a] = {{}}
      /\ \A b \in a + 1 .. n : \A x :
           x \in OneOrMore(F, a, n)[b] <=> Ends(x, OneOrMore(F, a, n), F, a, b)
  BY <1>3, OneOrMoreSteps
<1>5. ASSUME NEW b \in a + 1 .. n, NEW x
      PROVE  Ends(x, OneOrMore(F, a, n), F, a, b) <=>
               LastRange(x, scale, s, a, b)
  BY <1>1, <1>2 DEF Ends, LastRange
<1> QED BY <1>2, <1>4, <1>5 DEF n

LEMMA SubPeriodSteps ==
  ASSUME NEW s, Len(s) \in Nat
  PROVE  LET upTo == SubPeriodMeanings(s)
         IN /\ upTo[0] = {{}}
            /\ \A b \in 1 .. Len(s) : \A x :
                 x \in upTo[b] <=> LastClause(x, s, b)
<1> DEFINE n == Len(s)
           F == [cut \in (0 .. n) \X (0 .. n) |-> ClauseMeanings(s, cut[1], cut[2])]
<1>1. \A b \in 1 .. n : \A a \in 0 .. b - 1 : F[<<a, b>>] = ClauseMeanings(s, a, b)
  OBVIOUS
<1>2. SubPeriodMeanings(s) = OneOrMore(F, 0, n)
  BY DEF SubPeriodMeanings
<1>3. n \in Int /\ 0 <= n
  OBVIOUS
<1> HIDE DEF F, n
<1>4. /\ OneOrMore(F, 0, n)[0] = {{}}
      /\ \A b \in 0 + 1 .. n : \A x :
           x \in OneOrMore(F, 0, n)[b] <=> Ends(x, OneOrMore(F, 0, n), F, 0, b)
  BY <1>3, OneOrMoreSteps
<1>5. ASSUME NEW b \in 1 .. n, NEW x
      PROVE  Ends(x, OneOrMore(F, 0, n), F, 0, b) <=>
               LastClause(x, s, b)
  BY <1>1, <1>2 DEF Ends, LastClause
<1> QED BY <1>2, <1>4, <1>5 DEF n

-----------------------------------------------------------------------------
(* Soundness: what the parser has so far is a meaning of what it has read. *)

(* A clause opened at position k.                                          *)
Opened(s, k, p) ==
  /\ p.clauses \in SubPeriodMeanings(s)[k]
  /\ ~IsNumber(s[k + 1]) /\ TableScale(s[k + 1].word) # "none"
  /\ p.scale = TableScale(s[k + 1].word)

Sound(s, i, p) ==
  CASE p.expects = "scale" ->
         p.ranges = {} /\ p.clauses \in SubPeriodMeanings(s)[i]
    [] p.expects = "brace" ->
         p.ranges = {} /\ \E k \in 0 .. i - 1 : i = k + 1 /\ Opened(s, k, p)
    [] p.expects \in {"range", "dash", "high"} ->
         \E k \in 0 .. i - 2 :
           /\ Opened(s, k, p) /\ s[k + 2] = OpenBrace
           /\ \/ /\ p.expects = "range"
                 /\ p.ranges \in RangesMeanings(p.scale, s, k + 2)[i]
              \/ /\ p.expects = "dash" /\ i - 1 >= k + 2
                 /\ p.ranges \in RangesMeanings(p.scale, s, k + 2)[i - 1]
                 /\ p.lo \in TableValues(p.scale, s[i])
              \/ /\ p.expects = "high" /\ i - 2 >= k + 2
                 /\ p.ranges \in RangesMeanings(p.scale, s, k + 2)[i - 2]
                 /\ p.lo \in TableValues(p.scale, s[i - 1])
                 /\ s[i] = To
    [] OTHER -> TRUE

(* A value on its own, or the second of a pair, makes one range more.      *)
LEMMA OneRangeMore ==
  ASSUME NEW s, Numbered(s), NEW scale, NEW a \in 0 .. Len(s),
         NEW i \in a + 1 .. Len(s),
         NEW rs \in RangesMeanings(scale, s, a)[i - 1],
         NEW v \in TableValues(scale, s[i])
  PROVE  rs \cup {<<v, v>>} \in RangesMeanings(scale, s, a)[i]
<1>1. <<v, v>> \in RangeMeanings(scale, s, i - 1, i)
  BY DEF RangeMeanings
<1>2. i - 1 \in a .. i - 1 /\ Len(s) \in Nat
  BY DEF Numbered
<1>3. LastRange(rs \cup {<<v, v>>}, scale, s, a, i)
  BY <1>1, <1>2, Zenon DEF LastRange
<1> QED BY <1>2, <1>3, RangesSteps

LEMMA OnePairMore ==
  ASSUME NEW s, Numbered(s), NEW scale, NEW a \in 0 .. Len(s),
         NEW i \in a + 3 .. Len(s),
         NEW rs \in RangesMeanings(scale, s, a)[i - 3],
         NEW v \in TableValues(scale, s[i - 2]), s[i - 1] = To,
         NEW w \in TableValues(scale, s[i])
  PROVE  rs \cup {<<v, w>>} \in RangesMeanings(scale, s, a)[i]
<1>1. <<v, w>> \in RangeMeanings(scale, s, i - 3, i)
  <2>1. /\ i = (i - 3) + 3 /\ i # (i - 3) + 1
        /\ i - 1 = (i - 3) + 2 /\ i - 2 = (i - 3) + 1
    OBVIOUS
  <2>2. RangeMeanings(scale, s, i - 3, i) =
          TableValues(scale, s[i - 2]) \X TableValues(scale, s[i])
    BY <2>1 DEF RangeMeanings
  <2> QED BY <2>2
<1>2. i - 3 \in a .. i - 1 /\ Len(s) \in Nat /\ i \in a + 1 .. Len(s)
  BY DEF Numbered
<1>3. LastRange(rs \cup {<<v, w>>}, scale, s, a, i)
  BY <1>1, <1>2, Zenon DEF LastRange
<1> QED BY <1>2, <1>3, RangesSteps

(* A clause that is closed with a range makes one clause more.             *)
LEMMA OneClauseMore ==
  ASSUME NEW s, Numbered(s), NEW i \in 1 .. Len(s), NEW k \in 0 .. i - 4,
         NEW cs \in SubPeriodMeanings(s)[k], NEW sc, sc = TableScale(s[k + 1].word),
         sc # "none", ~IsNumber(s[k + 1]), s[k + 2] = OpenBrace, s[i] = CloseBrace,
         NEW rs \in RangesMeanings(sc, s, k + 2)[i - 1]
  PROVE  cs \cup {[scale |-> sc, ranges |-> rs]} \in SubPeriodMeanings(s)[i]
<1>1. Len(s) \in Nat /\ k \in 0 .. i - 1 /\ i - k > 3
  BY DEF Numbered
<1>2. LooksLikeClause(s, k, i)
  BY <1>1 DEF LooksLikeClause
<1>3. [scale |-> sc, ranges |-> rs] \in ClauseMeanings(s, k, i)
  BY <1>2 DEF ClauseMeanings
<1>4. LastClause(cs \cup {[scale |-> sc, ranges |-> rs]}, s, i)
  BY <1>1, <1>3, Zenon DEF LastClause
<1> QED BY <1>1, <1>4, SubPeriodSteps

(* Where no range has been read the ranges are empty, and only there.      *)
LEMMA NoRangesYet ==
  ASSUME NEW s, Numbered(s), NEW scale, NEW a \in 0 .. Len(s)
  PROVE  /\ {} \in RangesMeanings(scale, s, a)[a]
         /\ \A b \in a + 1 .. Len(s) : \A rs \in RangesMeanings(scale, s, a)[b] : rs # {}
<1>1. Len(s) \in Nat
  BY DEF Numbered
<1>2. RangesMeanings(scale, s, a)[a] = {{}}
  BY <1>1, RangesSteps
<1>3. ASSUME NEW b \in a + 1 .. Len(s), NEW x \in RangesMeanings(scale, s, a)[b]
      PROVE  x # {}
  <2>1. LastRange(x, scale, s, a, b)
    BY <1>1, RangesSteps
  <2>2. PICK rs, r : x = rs \cup {r}
    BY <2>1, Zenon DEF LastRange
  <2>3. r \in x
    BY <2>2
  <2> QED BY <2>3
<1> QED BY <1>2, <1>3

(* A step of the parser keeps what it has sound.                           *)
LEMMA SoundFromScale ==
  ASSUME NEW s, Numbered(s), NEW i \in 0 .. Len(s) - 1, NEW p \in Parser,
         p.expects = "scale", Sound(s, i, p)
  PROVE  Sound(s, i + 1, Take(p, s[i + 1]))
<1> DEFINE q == Take(p, s[i + 1])
           sc == TableScale(s[i + 1].word)
<1>1. Len(s) \in Nat /\ s[i + 1].number \in Int
  BY DEF Numbered
<1>2. p.ranges = {} /\ p.clauses \in SubPeriodMeanings(s)[i]
  BY DEF Sound
<1>3. /\ IsNumber(s[i + 1]) \/ sc = "none" => q.expects = "nothing"
      /\ ~IsNumber(s[i + 1]) /\ sc # "none" =>
           q.expects = "brace" /\ Has(q, sc, p.ranges, p.clauses)
  BY <1>1, TakeScale
<1> HIDE DEF q
<1>4. CASE IsNumber(s[i + 1]) \/ sc = "none"
  BY <1>3, <1>4 DEF Sound, q
<1>5. CASE ~IsNumber(s[i + 1]) /\ sc # "none"
  <2>1. Opened(s, i, q) /\ q.ranges = {} /\ q.expects = "brace"
    BY <1>2, <1>3, <1>5 DEF Has, Opened
  <2>2. i \in 0 .. (i + 1) - 1
    BY <1>1
  <2> QED BY <2>1, <2>2 DEF Sound, q
<1> QED BY <1>4, <1>5

LEMMA SoundFromBrace ==
  ASSUME NEW s, Numbered(s), NEW i \in 0 .. Len(s) - 1, NEW p \in Parser,
         p.expects = "brace", Sound(s, i, p)
  PROVE  Sound(s, i + 1, Take(p, s[i + 1]))
<1> DEFINE q == Take(p, s[i + 1])
<1>1. Len(s) \in Nat /\ s[i + 1].number \in Int
  BY DEF Numbered
<1>2. PICK k \in 0 .. i - 1 : i = k + 1 /\ Opened(s, k, p) /\ p.ranges = {}
  BY DEF Sound
<1>3. /\ s[i + 1] # OpenBrace => q.expects = "nothing"
      /\ s[i + 1] = OpenBrace => q.expects = "range" /\ Has(q, p.scale, p.ranges, p.clauses)
  BY <1>1, TakeBrace
<1> HIDE DEF q
<1>4. CASE s[i + 1] # OpenBrace
  BY <1>3, <1>4 DEF Sound, q
<1>5. CASE s[i + 1] = OpenBrace
  <2>1. Opened(s, k, q) /\ q.ranges = {} /\ q.expects = "range"
    BY <1>2, <1>3, <1>5 DEF Has, Opened
  <2>2. k \in 0 .. (i + 1) - 2 /\ s[k + 2] = OpenBrace /\ k + 2 = i + 1 /\ k + 2 \in 0 .. Len(s)
    BY <1>1, <1>2, <1>5
  <2>3. q.ranges \in RangesMeanings(q.scale, s, k + 2)[i + 1]
    BY <1>1, <2>1, <2>2, NoRangesYet
  <2> QED BY <2>1, <2>2, <2>3 DEF Sound, q
<1> QED BY <1>4, <1>5

LEMMA SoundClose ==
  ASSUME NEW s, Numbered(s), NEW i \in 0 .. Len(s) - 1, NEW p \in Parser,
         NEW k \in 0 .. i - 2, Opened(s, k, p), s[k + 2] = OpenBrace,
         p.ranges \in RangesMeanings(p.scale, s, k + 2)[i], s[i + 1] = CloseBrace
  PROVE  Sound(s, i + 1, Close(p))
<1> DEFINE q == Close(p)
           sc == p.scale
           rs == p.ranges
           cs == p.clauses
<1>1. Len(s) \in Nat
  BY DEF Numbered
<1>2. /\ rs = {} => q.expects = "nothing"
      /\ rs # {} =>
           /\ q.expects = "scale"
           /\ Has(q, sc, {}, cs \cup {[scale |-> sc, ranges |-> rs]})
  BY CloseType
<1>3. /\ cs \in SubPeriodMeanings(s)[k] /\ ~IsNumber(s[k + 1]) /\ sc # "none"
      /\ sc = TableScale(s[k + 1].word)
  BY DEF Opened
<1>4. rs \in RangesMeanings(sc, s, k + 2)[i]
  OBVIOUS
<1> HIDE DEF q, sc, rs, cs
<1>5. CASE rs = {}
  BY <1>2, <1>5 DEF Sound, q
<1>6. CASE rs # {}
  <2>1. i # k + 2
    <3> SUFFICES ASSUME i = k + 2 PROVE FALSE
      OBVIOUS
    <3>1. k + 2 \in 0 .. Len(s)
      BY <1>1
    <3>2. RangesMeanings(sc, s, k + 2)[k + 2] = {{}}
      BY <1>1, <3>1, RangesSteps
    <3> QED BY <1>4, <1>6, <3>2
  <2>2. /\ k \in 0 .. (i + 1) - 4 /\ i + 1 \in 1 .. Len(s) /\ (i + 1) - 1 = i
    BY <1>1, <2>1
  <2>3. cs \cup {[scale |-> sc, ranges |-> rs]} \in SubPeriodMeanings(s)[i + 1]
    BY <1>3, <1>4, <2>2, OneClauseMore
  <2> QED BY <1>2, <1>6, <2>3 DEF Sound, Has, q
<1> QED BY <1>5, <1>6

LEMMA SoundLow ==
  ASSUME NEW s, Numbered(s), NEW i \in 0 .. Len(s) - 1, NEW p \in Parser,
         NEW k \in 0 .. i - 2, Opened(s, k, p), s[k + 2] = OpenBrace,
         p.ranges \in RangesMeanings(p.scale, s, k + 2)[i],
         Values(p.scale, s[i + 1]) = TableValues(p.scale, s[i + 1])
  PROVE  Sound(s, i + 1, Low(p, s[i + 1]))
<1> DEFINE q == Low(p, s[i + 1])
<1>1. Len(s) \in Nat /\ s[i + 1].number \in Int
  BY DEF Numbered
<1>2. /\ Values(p.scale, s[i + 1]) = {} => q.expects = "nothing"
      /\ \A v \in Values(p.scale, s[i + 1]) :
           q.expects = "dash" /\ q.lo = v /\ Has(q, p.scale, p.ranges, p.clauses)
  BY <1>1, LowType
<1> HIDE DEF q
<1>3. CASE Values(p.scale, s[i + 1]) = {}
  BY <1>2, <1>3 DEF Sound, q
<1>4. CASE Values(p.scale, s[i + 1]) # {}
  <2>1. PICK v \in Values(p.scale, s[i + 1]) : TRUE
    BY <1>4
  <2>2. q.expects = "dash" /\ q.lo = v /\ Has(q, p.scale, p.ranges, p.clauses)
    BY <1>2, <2>1
  <2>3. Opened(s, k, q) /\ q.lo \in TableValues(q.scale, s[i + 1])
    BY <2>1, <2>2 DEF Opened, Has
  <2>4. k \in 0 .. (i + 1) - 2 /\ (i + 1) - 1 >= k + 2 /\ (i + 1) - 1 = i
    BY <1>1
  <2>5. q.ranges \in RangesMeanings(q.scale, s, k + 2)[(i + 1) - 1]
    BY <2>2, <2>4 DEF Has
  <2> QED BY <2>2, <2>3, <2>4, <2>5 DEF Sound, q
<1> QED BY <1>3, <1>4

LEMMA SoundFromRange ==
  ASSUME NEW s, Numbered(s), NEW i \in 0 .. Len(s) - 1, NEW p \in Parser,
         p.expects = "range", Sound(s, i, p),
         Values(p.scale, s[i + 1]) = TableValues(p.scale, s[i + 1])
  PROVE  Sound(s, i + 1, Take(p, s[i + 1]))
<1>1. Len(s) \in Nat /\ s[i + 1].number \in Int
  BY DEF Numbered
<1>2. PICK k \in 0 .. i - 2 :
        /\ Opened(s, k, p) /\ s[k + 2] = OpenBrace
        /\ p.ranges \in RangesMeanings(p.scale, s, k + 2)[i]
  BY DEF Sound
<1>3. CASE s[i + 1] = CloseBrace
  BY <1>1, <1>2, <1>3, TakeRange, SoundClose
<1>4. CASE s[i + 1] # CloseBrace
  BY <1>1, <1>2, <1>4, TakeRange, SoundLow
<1> QED BY <1>3, <1>4

LEMMA SoundFromDash ==
  ASSUME NEW s, Numbered(s), NEW i \in 0 .. Len(s) - 1, NEW p \in Parser,
         p.expects = "dash", Sound(s, i, p),
         Values(p.scale, s[i + 1]) = TableValues(p.scale, s[i + 1])
  PROVE  Sound(s, i + 1, Take(p, s[i + 1]))
<1> DEFINE with == AddRange(p, p.lo, p.lo)
           q == Take(p, s[i + 1])
<1>1. Len(s) \in Nat /\ s[i + 1].number \in Int /\ p.lo \in Int
  BY DEF Parser, Numbered
<1>2. PICK k \in 0 .. i - 2 :
        /\ Opened(s, k, p) /\ s[k + 2] = OpenBrace /\ i - 1 >= k + 2
        /\ p.ranges \in RangesMeanings(p.scale, s, k + 2)[i - 1]
        /\ p.lo \in TableValues(p.scale, s[i])
  BY DEF Sound
<1>3. /\ with \in Parser
      /\ Has(with, p.scale, p.ranges \cup {<<p.lo, p.lo>>}, p.clauses)
  BY <1>1, AddRangeType
<1>4. /\ s[i + 1] = To => /\ q.expects = "high" /\ q.lo = p.lo
                          /\ Has(q, p.scale, p.ranges, p.clauses)
      /\ s[i + 1] = CloseBrace => q = Close(with)
      /\ s[i + 1] \notin {To, CloseBrace} => q = Low(with, s[i + 1])
  BY <1>1, TakeDash
<1> HIDE DEF with, q
<1>5. k + 2 \in 0 .. Len(s) /\ i \in (k + 2) + 1 .. Len(s)
  BY <1>1, <1>2
<1>6. p.ranges \cup {<<p.lo, p.lo>>} \in RangesMeanings(p.scale, s, k + 2)[i]
  BY <1>2, <1>5, OneRangeMore
<1>7. /\ with.ranges \in RangesMeanings(with.scale, s, k + 2)[i] /\ Opened(s, k, with)
      /\ with.scale = p.scale
  BY <1>2, <1>3, <1>6 DEF Has, Opened
<1>8. CASE s[i + 1] = To
  <2>1. Opened(s, k, q) /\ q.expects = "high"
    BY <1>2, <1>4, <1>8 DEF Has, Opened
  <2>2. /\ k \in 0 .. (i + 1) - 2 /\ (i + 1) - 2 >= k + 2
        /\ (i + 1) - 2 = i - 1 /\ (i + 1) - 1 = i
    BY <1>1, <1>2
  <2>3. /\ q.ranges \in RangesMeanings(q.scale, s, k + 2)[i - 1]
        /\ q.lo \in TableValues(q.scale, s[i])
    BY <1>2, <1>4, <1>8 DEF Has
  <2> QED BY <1>2, <1>8, <2>1, <2>2, <2>3 DEF Sound, q
<1>9. CASE s[i + 1] = CloseBrace
  BY <1>2, <1>3, <1>4, <1>7, <1>9, SoundClose DEF q
<1>10. CASE s[i + 1] \notin {To, CloseBrace}
  BY <1>2, <1>3, <1>4, <1>7, <1>10, SoundLow DEF q
<1> QED BY <1>8, <1>9, <1>10

LEMMA SoundFromHigh ==
  ASSUME NEW s, Numbered(s), NEW i \in 0 .. Len(s) - 1, NEW p \in Parser,
         p.expects = "high", Sound(s, i, p),
         Values(p.scale, s[i + 1]) = TableValues(p.scale, s[i + 1])
  PROVE  Sound(s, i + 1, Take(p, s[i + 1]))
<1> DEFINE q == Take(p, s[i + 1])
<1>1. Len(s) \in Nat /\ s[i + 1].number \in Int /\ p.lo \in Int
  BY DEF Parser, Numbered
<1>2. PICK k \in 0 .. i - 2 :
        /\ Opened(s, k, p) /\ s[k + 2] = OpenBrace /\ i - 2 >= k + 2
        /\ p.ranges \in RangesMeanings(p.scale, s, k + 2)[i - 2]
        /\ p.lo \in TableValues(p.scale, s[i - 1]) /\ s[i] = To
  BY DEF Sound
<1>3. /\ Values(p.scale, s[i + 1]) = {} => q.expects = "nothing"
      /\ \A v \in Values(p.scale, s[i + 1]) :
           /\ q.expects = "range"
           /\ Has(q, p.scale, p.ranges \cup {<<p.lo, v>>}, p.clauses)
  BY <1>1, TakeHigh
<1> HIDE DEF q
<1>4. CASE Values(p.scale, s[i + 1]) = {}
  BY <1>3, <1>4 DEF Sound, q
<1>5. CASE Values(p.scale, s[i + 1]) # {}
  <2>1. PICK v \in Values(p.scale, s[i + 1]) : TRUE
    BY <1>5
  <2>3. /\ q.expects = "range"
        /\ Has(q, p.scale, p.ranges \cup {<<p.lo, v>>}, p.clauses)
    BY <1>3, <2>1
  <2>4. /\ k + 2 \in 0 .. Len(s) /\ i + 1 \in (k + 2) + 3 .. Len(s)
        /\ (i + 1) - 3 = i - 2 /\ (i + 1) - 2 = i - 1 /\ (i + 1) - 1 = i
        /\ k \in 0 .. (i + 1) - 2
    BY <1>1, <1>2
  <2>5. p.ranges \cup {<<p.lo, v>>} \in RangesMeanings(p.scale, s, k + 2)[i + 1]
    BY <1>2, <2>1, <2>4, OnePairMore
  <2>6. Opened(s, k, q) /\ q.ranges \in RangesMeanings(q.scale, s, k + 2)[i + 1]
    BY <1>2, <2>3, <2>5 DEF Has, Opened
  <2> QED BY <1>2, <2>3, <2>4, <2>6 DEF Sound, q
<1> QED BY <1>4, <1>5

LEMMA ReadingSound ==
  ASSUME NEW s, Numbered(s), InTable(s), NEW i \in 0 .. Len(s)
  PROVE  Sound(s, i, Reading(s)[i])
<1> DEFINE S == {n \in Nat : n <= Len(s) => Sound(s, n, Reading(s)[n])}
<1>1. Len(s) \in Nat
  BY DEF Numbered
<1>2. 0 \in S
  <2>1. Reading(s)[0] = Start /\ SubPeriodMeanings(s)[0] = {{}}
    BY <1>1, ReadingSteps, SubPeriodSteps
  <2> QED BY <2>1, StartType DEF Sound
<1>3. ASSUME NEW n \in Nat, n \in S PROVE n + 1 \in S
  <2> SUFFICES ASSUME n + 1 <= Len(s) PROVE Sound(s, n + 1, Reading(s)[n + 1])
    OBVIOUS
  <2> DEFINE p == Reading(s)[n]
  <2>1. n \in 0 .. Len(s) - 1 /\ n \in 0 .. Len(s) /\ n + 1 \in 1 .. Len(s)
    BY <1>1
  <2>2. Sound(s, n, p)
    BY <1>1, <1>3
  <2>3. Reading(s)[n + 1] = Take(p, s[n + 1])
    BY <1>1, <2>1, ReadingSteps
  <2>4. p \in Parser
    BY <2>1, ReadingType
  <2>5. p.expects \in {"range", "dash", "high"} =>
          Values(p.scale, s[n + 1]) = TableValues(p.scale, s[n + 1])
    <3>1. (n + 1) - 1 = n
      OBVIOUS
    <3> QED BY <2>1, <3>1 DEF InTable
  <2> HIDE DEF p
  <2>6. p.expects \in {"scale", "brace", "range", "dash", "high", "nothing"}
    BY <2>4 DEF Parser
  <2>7. CASE p.expects = "scale"
    BY <2>1, <2>2, <2>3, <2>4, <2>7, SoundFromScale
  <2>8. CASE p.expects = "brace"
    BY <2>1, <2>2, <2>3, <2>4, <2>8, SoundFromBrace
  <2>9. CASE p.expects = "range"
    BY <2>1, <2>2, <2>3, <2>4, <2>5, <2>9, SoundFromRange
  <2>10. CASE p.expects = "dash"
    BY <2>1, <2>2, <2>3, <2>4, <2>5, <2>10, SoundFromDash
  <2>11. CASE p.expects = "high"
    BY <2>1, <2>2, <2>3, <2>4, <2>5, <2>11, SoundFromHigh
  <2>12. CASE p.expects = "nothing"
    <3>1. Take(p, s[n + 1]).expects = "nothing"
      BY <2>1, <2>4, <2>12, TakeNothing
    <3> QED BY <2>3, <3>1 DEF Sound
  <2> QED BY <2>6, <2>7, <2>8, <2>9, <2>10, <2>11, <2>12
<1> HIDE DEF S
<1>4. Nat \subseteq S
  BY <1>2, <1>3, Induction
<1> QED BY <1>1, <1>4 DEF S

-----------------------------------------------------------------------------
(* Completeness: whatever is a meaning of what it has read the parser has. *)

(* It has the ranges, the last perhaps as a value that may yet be a low.   *)
Held(p, scale, ranges, clauses) ==
  /\ p.scale = scale /\ p.clauses = clauses
  /\ \/ p.expects = "range" /\ p.ranges = ranges
     \/ p.expects = "dash" /\ p.ranges \cup {<<p.lo, p.lo>>} = ranges

LEMMA HeldValue ==
  ASSUME NEW p \in Parser, NEW tok, tok.number \in Int, NEW sc, NEW rs, NEW cs,
         Held(p, sc, rs, cs), NEW v \in Values(sc, tok)
  PROVE  LET q == Take(p, tok)
         IN q.expects = "dash" /\ q.lo = v /\ Has(q, sc, rs, cs)
<1>1. tok \notin {To, CloseBrace}
  BY SignsHaveNoValue
<1>2. p.scale = sc /\ p.clauses = cs /\ p.expects \in {"range", "dash"}
  BY DEF Held
<1>3. CASE p.expects = "range"
  <2>1. Take(p, tok) = Low(p, tok) /\ p.ranges = rs
    BY <1>1, <1>3, TakeRange DEF Held
  <2> QED BY <1>2, <2>1, LowType
<1>4. CASE p.expects = "dash"
  <2> DEFINE with == AddRange(p, p.lo, p.lo)
  <2>1. p.lo \in Int
    BY DEF Parser
  <2>2. with \in Parser /\ Has(with, p.scale, p.ranges \cup {<<p.lo, p.lo>>}, p.clauses)
    BY <2>1, AddRangeType
  <2>3. Take(p, tok) = Low(with, tok)
    BY <1>1, <1>4, TakeDash
  <2> HIDE DEF with
  <2>4. Has(with, sc, rs, cs)
    BY <1>2, <1>4, <2>2 DEF Held, Has
  <2> QED BY <2>2, <2>3, <2>4, LowType DEF Has
<1> QED BY <1>2, <1>3, <1>4

LEMMA HeldOne ==
  ASSUME NEW p \in Parser, NEW tok, tok.number \in Int, NEW sc, NEW rs, NEW cs,
         Held(p, sc, rs, cs), NEW v \in Values(sc, tok)
  PROVE  Held(Take(p, tok), sc, rs \cup {<<v, v>>}, cs)
<1> DEFINE q == Take(p, tok)
<1>1. q.expects = "dash" /\ q.lo = v /\ Has(q, sc, rs, cs)
  BY HeldValue
<1> HIDE DEF q
<1>2. Held(q, sc, rs \cup {<<v, v>>}, cs)
  BY <1>1 DEF Held, Has
<1> QED BY <1>2 DEF q

LEMMA HeldPair ==
  ASSUME NEW q \in Parser, NEW sc, NEW rs, NEW cs, NEW v,
         q.expects = "dash", q.lo = v, Has(q, sc, rs, cs), To.number \in Int,
         NEW tok, tok.number \in Int, NEW w \in Values(sc, tok)
  PROVE  Held(Take(Take(q, To), tok), sc, rs \cup {<<v, w>>}, cs)
<1> DEFINE h == Take(q, To)
           r == Take(h, tok)
<1>1. h \in Parser /\ h.expects = "high" /\ h.lo = v /\ Has(h, sc, rs, cs)
  BY TakeDash DEF Has
<1> HIDE DEF h
<1>2. r.expects = "range" /\ Has(r, sc, rs \cup {<<v, w>>}, cs)
  BY <1>1, TakeHigh DEF Has
<1> HIDE DEF r
<1>3. Held(r, sc, rs \cup {<<v, w>>}, cs)
  BY <1>2 DEF Held, Has
<1> QED BY <1>3 DEF r, h

LEMMA HeldClose ==
  ASSUME NEW p \in Parser, NEW sc, NEW rs, NEW cs, Held(p, sc, rs, cs), rs # {},
         CloseBrace.number \in Int
  PROVE  /\ Take(p, CloseBrace).expects = "scale"
         /\ Take(p, CloseBrace).ranges = {}
         /\ Take(p, CloseBrace).clauses = cs \cup {[scale |-> sc, ranges |-> rs]}
<1>1. CASE p.expects = "range"
  <2>1. Take(p, CloseBrace) = Close(p) /\ p.ranges = rs /\ p.scale = sc /\ p.clauses = cs
    BY <1>1, TakeRange DEF Held
  <2> QED BY <2>1, CloseType DEF Has
<1>2. CASE p.expects = "dash"
  <2> DEFINE with == AddRange(p, p.lo, p.lo)
  <2>1. p.lo \in Int
    BY DEF Parser
  <2>2. with \in Parser /\ Has(with, p.scale, p.ranges \cup {<<p.lo, p.lo>>}, p.clauses)
    BY <2>1, AddRangeType
  <2>3. Take(p, CloseBrace) = Close(with)
    BY <1>2, TakeDash
  <2> HIDE DEF with
  <2>4. with.ranges = rs /\ with.scale = sc /\ with.clauses = cs
    BY <1>2, <2>2 DEF Held, Has
  <2> QED BY <2>2, <2>3, <2>4, CloseType DEF Has
<1> QED BY <1>1, <1>2 DEF Held

(* One token of the reading.                                               *)
LEMMA ReadingTakes ==
  ASSUME NEW s, Numbered(s), NEW i \in 0 .. Len(s) - 1
  PROVE  /\ Reading(s)[i] \in Parser /\ s[i + 1].number \in Int
         /\ Reading(s)[i + 1] = Take(Reading(s)[i], s[i + 1])
<1>1. Len(s) \in Nat
  BY DEF Numbered
<1>2. i \in 0 .. Len(s) /\ i + 1 \in 1 .. Len(s)
  BY <1>1
<1>3. Reading(s)[i + 1] = Take(Reading(s)[i], s[i + 1])
  BY <1>1, ReadingSteps
<1>4. Reading(s)[i] \in Parser /\ s[i + 1].number \in Int
  BY <1>2, ReadingType DEF Numbered
<1> QED BY <1>3, <1>4

(* One token of the reading, with what the table says of it.               *)
LEMMA ReadingStep ==
  ASSUME NEW s, Numbered(s), InTable(s), NEW i \in 0 .. Len(s) - 1
  PROVE  /\ Reading(s)[i] \in Parser /\ s[i + 1].number \in Int
         /\ Reading(s)[i + 1] = Take(Reading(s)[i], s[i + 1])
         /\ Reading(s)[i].expects \in {"range", "dash", "high"} =>
              Values(Reading(s)[i].scale, s[i + 1]) = TableValues(Reading(s)[i].scale, s[i + 1])
<1>1. i + 1 \in 1 .. Len(s) /\ (i + 1) - 1 = i
  BY DEF Numbered
<1>2. Reading(s)[i].expects \in {"range", "dash", "high"} =>
        Values(Reading(s)[i].scale, s[i + 1]) = TableValues(Reading(s)[i].scale, s[i + 1])
  BY <1>1 DEF InTable
<1> QED BY <1>2, ReadingTakes

LEMMA RangesRead ==
  ASSUME NEW s, Numbered(s), InTable(s), NEW a \in 0 .. Len(s), NEW sc, NEW cs,
         Reading(s)[a].expects = "range", Has(Reading(s)[a], sc, {}, cs),
         NEW j \in a .. Len(s), NEW rs \in RangesMeanings(sc, s, a)[j]
  PROVE  Held(Reading(s)[j], sc, rs, cs)
<1> DEFINE AllHeld(b) == \A xs \in RangesMeanings(sc, s, a)[b] : Held(Reading(s)[b], sc, xs, cs)
           S == {m \in Nat : a + m <= Len(s) => AllHeld(a + m)}
<1>1. Len(s) \in Nat
  BY DEF Numbered
<1>2. ASSUME NEW m \in Nat, \A k \in 0 .. m - 1 : k \in S PROVE m \in S
  <2> DEFINE b == a + m
  <2> SUFFICES ASSUME b <= Len(s), NEW x \in RangesMeanings(sc, s, a)[b]
               PROVE  Held(Reading(s)[b], sc, x, cs)
    OBVIOUS
  <2>1. b \in a .. Len(s)
    BY <1>1
  <2>2. ASSUME NEW c \in a .. b - 1 PROVE AllHeld(c)
    <3>1. c - a \in 0 .. m - 1 /\ a + (c - a) = c /\ c <= Len(s)
      BY <1>1, <2>1
    <3>2. c - a \in S
      BY <1>2, <3>1
    <3> QED BY <3>1, <3>2
  <2> HIDE DEF b
  <2>3. CASE b = a
    <3>1. x = {}
      BY <1>1, <2>3, RangesSteps
    <3> QED BY <2>3, <3>1 DEF Held, Has
  <2>4. CASE b # a
    <3>1. b \in a + 1 .. Len(s)
      BY <1>1, <2>1, <2>4
    <3>2. LastRange(x, sc, s, a, b)
      BY <1>1, <3>1, RangesSteps
    <3> PICK c \in a .. b - 1 : \E xs \in RangesMeanings(sc, s, a)[c] :
               \E r \in RangeMeanings(sc, s, c, b) : x = xs \cup {r}
      BY <3>2, Zenon DEF LastRange
    <3> PICK xs \in RangesMeanings(sc, s, a)[c] :
               \E r \in RangeMeanings(sc, s, c, b) : x = xs \cup {r}
      OBVIOUS
    <3>3. PICK r \in RangeMeanings(sc, s, c, b) : x = xs \cup {r}
      OBVIOUS
    <3>4. Held(Reading(s)[c], sc, xs, cs)
      BY <2>2
    <3>5. c \in 0 .. Len(s) - 1
      BY <1>1, <3>1
    <3>6. /\ Reading(s)[c] \in Parser /\ s[c + 1].number \in Int
          /\ Reading(s)[c + 1] = Take(Reading(s)[c], s[c + 1])
          /\ Values(sc, s[c + 1]) = TableValues(sc, s[c + 1])
      BY <3>4, <3>5, ReadingStep DEF Held
    <3>7. CASE b = c + 1
      <4>1. PICK v \in TableValues(sc, s[b]) : r = <<v, v>>
        BY <3>7 DEF RangeMeanings
      <4> QED BY <3>3, <3>4, <3>6, <3>7, <4>1, HeldOne
    <3>8. CASE b = c + 3 /\ s[c + 2] = To
      <4>1. PICK v \in TableValues(sc, s[c + 1]), w \in TableValues(sc, s[c + 3]) : r = <<v, w>>
        <5>1. RangeMeanings(sc, s, c, b) =
                TableValues(sc, s[c + 1]) \X TableValues(sc, s[c + 3])
          BY <3>8 DEF RangeMeanings
        <5> QED BY <5>1
      <4> DEFINE q == Reading(s)[c + 1]
      <4>2. q.expects = "dash" /\ q.lo = v /\ Has(q, sc, xs, cs)
        BY <3>4, <3>6, HeldValue
      <4>3. /\ c + 1 \in 0 .. Len(s) - 1 /\ (c + 1) + 1 = c + 2
            /\ c + 2 \in 0 .. Len(s) - 1 /\ (c + 2) + 1 = c + 3
        BY <1>1, <3>1, <3>5, <3>8
      <4>4. q \in Parser /\ To.number \in Int /\ Reading(s)[c + 2] = Take(q, To)
        BY <3>8, <4>3, ReadingStep
      <4> HIDE DEF q
      <4>5. Reading(s)[c + 2].expects = "high" /\ Reading(s)[c + 2].scale = sc
        BY <4>2, <4>4, TakeDash DEF Has
      <4>6. /\ s[c + 3].number \in Int /\ Values(sc, s[c + 3]) = TableValues(sc, s[c + 3])
            /\ Reading(s)[c + 3] = Take(Take(q, To), s[c + 3])
        BY <4>3, <4>4, <4>5, ReadingStep
      <4>7. Held(Reading(s)[c + 3], sc, xs \cup {<<v, w>>}, cs)
        BY <4>2, <4>4, <4>6, HeldPair
      <4> QED BY <3>3, <3>8, <4>1, <4>7
    <3>9. b = c + 1 \/ (b = c + 3 /\ s[c + 2] = To)
      BY DEF RangeMeanings
    <3> QED BY <3>7, <3>8, <3>9
  <2> QED BY <2>3, <2>4
<1> HIDE DEF S
<1>3. Nat \subseteq S
  BY <1>2, StrongInduction
<1>4. j - a \in Nat /\ a + (j - a) = j /\ j <= Len(s)
  BY <1>1
<1>5. AllHeld(j)
  <2>1. j - a \in S
    BY <1>3, <1>4
  <2> QED BY <1>4, <2>1 DEF S
<1> QED BY <1>5

LEMMA ClausesRead ==
  ASSUME NEW s, Numbered(s), InTable(s), NEW b \in 0 .. Len(s),
         NEW cs \in SubPeriodMeanings(s)[b]
  PROVE  Reading(s)[b].expects = "scale" /\ Reading(s)[b].clauses = cs
<1> DEFINE AllRead(n) == \A x \in SubPeriodMeanings(s)[n] :
                           Reading(s)[n].expects = "scale" /\ Reading(s)[n].clauses = x
           S == {n \in Nat : n <= Len(s) => AllRead(n)}
<1>1. Len(s) \in Nat
  BY DEF Numbered
<1>2. ASSUME NEW n \in Nat, \A m \in 0 .. n - 1 : m \in S PROVE n \in S
  <2> SUFFICES ASSUME n <= Len(s), NEW x \in SubPeriodMeanings(s)[n]
               PROVE  Reading(s)[n].expects = "scale" /\ Reading(s)[n].clauses = x
    OBVIOUS
  <2>1. ASSUME NEW a \in 0 .. n - 1 PROVE AllRead(a)
    <3>1. a \in S /\ a <= Len(s)
      BY <1>1, <1>2
    <3> QED BY <3>1
  <2>2. CASE n = 0
    <3>1. x = {} /\ Reading(s)[n] = Start
      BY <1>1, <2>2, SubPeriodSteps, ReadingSteps
    <3> QED BY <3>1, StartType
  <2>3. CASE n # 0
    <3>1. n \in 1 .. Len(s)
      BY <1>1, <2>3
    <3>2. LastClause(x, s, n)
      BY <1>1, <3>1, SubPeriodSteps
    <3> PICK a \in 0 .. n - 1 : \E xs \in SubPeriodMeanings(s)[a] :
               \E c \in ClauseMeanings(s, a, n) : x = xs \cup {c}
      BY <3>2, Zenon DEF LastClause
    <3> PICK xs \in SubPeriodMeanings(s)[a] :
               \E c \in ClauseMeanings(s, a, n) : x = xs \cup {c}
      OBVIOUS
    <3>3. PICK c \in ClauseMeanings(s, a, n) : x = xs \cup {c}
      OBVIOUS
    <3> DEFINE sc == TableScale(s[a + 1].word)
    <3>4. LooksLikeClause(s, a, n)
      BY DEF ClauseMeanings
    <3>5. PICK rs \in RangesMeanings(sc, s, a + 2)[n - 1] : c = [scale |-> sc, ranges |-> rs]
      BY <3>4 DEF ClauseMeanings
    <3>6. /\ n - a > 3 /\ ~IsNumber(s[a + 1]) /\ sc # "none"
          /\ s[a + 2] = OpenBrace /\ s[n] = CloseBrace
      BY <3>4 DEF LooksLikeClause
    <3> HIDE DEF sc
    <3>7. /\ a \in 0 .. Len(s) - 1 /\ a \in 0 .. Len(s)
          /\ a + 1 \in 0 .. Len(s) - 1 /\ (a + 1) + 1 = a + 2
          /\ a + 2 \in 0 .. Len(s) /\ n - 1 \in a + 2 .. Len(s)
          /\ n - 1 \in (a + 2) + 1 .. Len(s)
          /\ n - 1 \in 0 .. Len(s) - 1 /\ (n - 1) + 1 = n
      BY <1>1, <3>1, <3>6
    <3>8. /\ Reading(s)[a].expects = "scale" /\ Reading(s)[a].clauses = xs
          /\ Reading(s)[a].ranges = {}
      <4>1. Reading(s)[a].expects = "scale" /\ Reading(s)[a].clauses = xs
        BY <2>1
      <4>2. Sound(s, a, Reading(s)[a])
        BY <3>7, ReadingSound
      <4> QED BY <4>1, <4>2 DEF Sound
    <3>9. Reading(s)[a + 1].expects = "brace" /\ Has(Reading(s)[a + 1], sc, {}, xs)
      <4> PICK p \in Parser : p = Reading(s)[a]
        BY <3>7, ReadingStep
      <4>1. s[a + 1].number \in Int /\ Reading(s)[a + 1] = Take(p, s[a + 1])
        BY <3>7, ReadingStep
      <4>2. p.expects = "scale" /\ p.clauses = xs /\ p.ranges = {}
        BY <3>8
      <4>3. /\ Take(p, s[a + 1]).expects = "brace"
            /\ Has(Take(p, s[a + 1]), sc, p.ranges, p.clauses)
        BY <3>6, <4>1, <4>2, TakeScale DEF sc
      <4> QED BY <4>1, <4>2, <4>3
    <3>10. Reading(s)[a + 2].expects = "range" /\ Has(Reading(s)[a + 2], sc, {}, xs)
      <4>1. /\ Reading(s)[a + 1] \in Parser /\ s[a + 2].number \in Int
            /\ Reading(s)[a + 2] = Take(Reading(s)[a + 1], s[a + 2])
        BY <3>7, ReadingStep
      <4> QED BY <3>6, <3>9, <4>1, TakeBrace DEF Has
    <3>11. Held(Reading(s)[n - 1], sc, rs, xs)
      BY <3>7, <3>10, RangesRead
    <3>12. rs # {}
      BY <3>7, NoRangesYet
    <3> DEFINE p == Reading(s)[n - 1]
    <3>13. p \in Parser /\ CloseBrace.number \in Int /\ Reading(s)[n] = Take(p, CloseBrace)
      BY <3>6, <3>7, ReadingStep
    <3> HIDE DEF p
    <3>14. Held(p, sc, rs, xs)
      BY <3>11 DEF p
    <3>15. /\ Reading(s)[n].expects = "scale"
           /\ Reading(s)[n].clauses = xs \cup {[scale |-> sc, ranges |-> rs]}
      BY <3>12, <3>13, <3>14, HeldClose
    <3> QED BY <3>3, <3>5, <3>15
  <2> QED BY <2>2, <2>3
<1> HIDE DEF S
<1>3. Nat \subseteq S
  BY <1>2, StrongInduction
<1>4. AllRead(b)
  <2>1. b \in S /\ b <= Len(s)
    BY <1>1, <1>3
  <2> QED BY <2>1 DEF S
<1> QED BY <1>4

LEMMA ParseMeanings ==
  ASSUME NEW s, Numbered(s), InTable(s)
  PROVE  Meanings(s) = {Parse(s)} \ {{}}
<1> DEFINE n == Len(s)
           p == Reading(s)[n]
<1>1. n \in Nat /\ n \in 0 .. Len(s)
  BY DEF Numbered
<1>2. \A cs \in SubPeriodMeanings(s)[n] : p.expects = "scale" /\ p.clauses = cs
  BY <1>1, ClausesRead
<1>3. p.expects = "scale" => p.clauses \in SubPeriodMeanings(s)[n]
  <2>1. Sound(s, n, p)
    BY <1>1, ReadingSound
  <2> HIDE DEF p, n
  <2> QED BY <2>1 DEF Sound
<1>4. Parse(s) = IF p.expects = "scale" THEN p.clauses ELSE {}
  BY DEF Parse
<1>5. Meanings(s) = SubPeriodMeanings(s)[n] \ {{}}
  BY DEF Meanings
<1> HIDE DEF p, n
<1>6. CASE p.expects = "scale"
  <2>1. SubPeriodMeanings(s)[n] = {Parse(s)}
    BY <1>2, <1>3, <1>4, <1>6
  <2> QED BY <1>5, <2>1
<1>7. CASE p.expects # "scale"
  <2>1. SubPeriodMeanings(s)[n] = {} /\ Parse(s) = {}
    BY <1>2, <1>4, <1>7
  <2> QED BY <1>5, <2>1
<1> QED BY <1>6, <1>7

LEMMA TokensHaveNumbers == \A tok \in Token : tok.number \in Int
<1>1. Token \subseteq [word : STRING, number : Nat \cup {-1}]
  BY Zenon DEF Token
<1> QED BY <1>1

(* Every expression is a sequence of tokens.                               *)
Written == expr \in Seq(Token)

LEMMA ExpressionIsWritten == Spec => []Written
<1>1. Init => Written
  BY DEF Init, Written
<1>2. Written /\ [Next]_vars => Written'
  <2> SUFFICES ASSUME Written, [Next]_vars PROVE Written'
    OBVIOUS
  <2>1. ASSUME NEW chunk \in Chunks, Write(chunk) PROVE Written'
    <3>1. chunk \in Seq(Token)
      BY ChunksAssumption
    <3> QED BY <2>1, <3>1 DEF Write, Written
  <2>2. CASE Pass
    BY <2>2 DEF Pass, Written
  <2>3. CASE UNCHANGED vars
    BY <2>3 DEF vars, Written
  <2> QED BY <2>1, <2>2, <2>3 DEF Next
<1> QED BY <1>1, <1>2, PTL DEF Spec

(* The parser takes exactly the sentences of the documented grammar, each  *)
(* with its one meaning, however long the expression and whatever its      *)
(* tokens, so long as the values read are those of the table.              *)
THEOREM ParserIsTheGrammar == Spec => []ParserMeetsGrammar
<1>1. Written => Numbered(expr)
  <2> SUFFICES ASSUME expr \in Seq(Token) PROVE Numbered(expr)
    BY DEF Written
  <2>1. Len(expr) \in Nat /\ \A i \in 1 .. Len(expr) : expr[i] \in Token
    OBVIOUS
  <2> QED BY <2>1, TokensHaveNumbers DEF Numbered
<1>2. Written => ParserMeetsGrammar
  BY <1>1, ParseMeanings DEF ParserMeetsGrammar
<1> QED BY <1>2, ExpressionIsWritten, PTL

(* split(',') finds the parts between commas.                              *)
LEMMA SubPeriodsAreParts ==
  ASSUME NEW e, Len(e) \in Nat, NEW sub
  PROVE  sub \in SubPeriods(e) <=> sub \in Between(e)
<1> DEFINE n == Len(e)
           ends == {i \in 0 .. n + 1 : i \in {0, n + 1} \/ e[i] = Comma}
           Next2(x, y) == x < y /\ \A k \in ends : k <= x \/ k >= y
           Opens == 1 .. n + 1
           Closes == 0 .. n
           Cut(a, b) == a <= b + 1 /\ IsPart(e, a, b)
<1>1. sub \in SubPeriods(e) <=>
        \E x \in ends, y \in ends : Next2(x, y) /\ sub = SubSeq(e, x + 1, y - 1)
  <2>1. SubPeriods(e) = {SubSeq(e, cut[1] + 1, cut[2] - 1) : cut \in
                           {c \in ends \X ends : Next2(c[1], c[2])}}
    BY Zenon DEF SubPeriods
  <2>2. sub \in SubPeriods(e) <=>
          \E c \in ends \X ends : Next2(c[1], c[2]) /\ sub = SubSeq(e, c[1] + 1, c[2] - 1)
    <3> HIDE DEF ends, Next2
    <3> QED BY <2>1, Zenon
  <2> HIDE DEF ends, Next2
  <2>3. \A c \in ends \X ends : c[1] \in ends /\ c[2] \in ends
    OBVIOUS
  <2>4. \A x \in ends, y \in ends :
          \E c \in ends \X ends : c[1] = x /\ c[2] = y
    <3> TAKE x \in ends, y \in ends
    <3> WITNESS <<x, y>> \in ends \X ends
    <3> QED OBVIOUS
  <2>5. ASSUME NEW x \in ends, NEW y \in ends, Next2(x, y), sub = SubSeq(e, x + 1, y - 1)
        PROVE  sub \in SubPeriods(e)
    <3>1. PICK c \in ends \X ends : c[1] = x /\ c[2] = y
      BY <2>4
    <3> QED BY <2>2, <2>5, <3>1
  <2> QED BY <2>2, <2>3, <2>5
<1>2. sub \in Between(e) <=>
        \E a \in Opens, b \in Closes : Cut(a, b) /\ sub = SubSeq(e, a, b)
  <2>1. Between(e) = {SubSeq(e, cut[1], cut[2]) : cut \in
                        {p \in Opens \X Closes : Cut(p[1], p[2])}}
    BY Zenon DEF Between
  <2>2. sub \in Between(e) <=>
          \E p \in Opens \X Closes : Cut(p[1], p[2]) /\ sub = SubSeq(e, p[1], p[2])
    <3> HIDE DEF Opens, Closes, Cut
    <3> QED BY <2>1, Zenon
  <2> HIDE DEF Opens, Closes, Cut
  <2>3. \A p \in Opens \X Closes : p[1] \in Opens /\ p[2] \in Closes
    OBVIOUS
  <2>4. \A a \in Opens, b \in Closes :
          \E p \in Opens \X Closes : p[1] = a /\ p[2] = b
    <3> TAKE a \in Opens, b \in Closes
    <3> WITNESS <<a, b>> \in Opens \X Closes
    <3> QED OBVIOUS
  <2>5. ASSUME NEW a \in Opens, NEW b \in Closes, Cut(a, b), sub = SubSeq(e, a, b)
        PROVE  sub \in Between(e)
    <3>1. PICK p \in Opens \X Closes : p[1] = a /\ p[2] = b
      BY <2>4
    <3> QED BY <2>2, <2>5, <3>1
  <2> QED BY <2>2, <2>3, <2>5
<1>3. ASSUME NEW x \in ends, NEW y \in ends, Next2(x, y)
      PROVE  /\ x + 1 \in 1 .. n + 1 /\ y - 1 \in 0 .. n /\ x + 1 <= (y - 1) + 1
             /\ IsPart(e, x + 1, y - 1)
  <2>1. x \in Int /\ y \in Int /\ 0 <= x /\ x < y /\ y <= n + 1
    BY <1>3
  <2>2. x + 1 = 1 \/ e[(x + 1) - 1] = Comma
    <3>1. x # 0 /\ x # n + 1 => e[x] = Comma
      OBVIOUS
    <3>2. (x + 1) - 1 = x
      BY <2>1
    <3> QED BY <2>1, <3>1, <3>2
  <2>3. y - 1 = n \/ e[(y - 1) + 1] = Comma
    <3>1. y # 0 /\ y # n + 1 => e[y] = Comma
      OBVIOUS
    <3>2. (y - 1) + 1 = y
      BY <2>1
    <3> QED BY <2>1, <3>1, <3>2
  <2>4. ASSUME NEW i \in x + 1 .. y - 1 PROVE e[i] # Comma
    <3>1. i \in 0 .. n + 1 /\ ~(i <= x \/ i >= y)
      BY <2>1
    <3> QED BY <1>3, <3>1
  <2> QED BY <2>1, <2>2, <2>3, <2>4 DEF IsPart
<1>4. ASSUME NEW a \in 1 .. n + 1, NEW b \in 0 .. n, a <= b + 1, IsPart(e, a, b)
      PROVE  /\ a - 1 \in ends /\ b + 1 \in ends /\ Next2(a - 1, b + 1)
             /\ (a - 1) + 1 = a /\ (b + 1) - 1 = b
  <2>1. a - 1 \in ends /\ b + 1 \in ends
    BY <1>4 DEF IsPart
  <2>2. ASSUME NEW k \in ends PROVE k <= a - 1 \/ k >= b + 1
    <3> SUFFICES ASSUME k \in a .. b PROVE FALSE
      OBVIOUS
    <3>1. e[k] = Comma
      OBVIOUS
    <3> QED BY <1>4, <3>1 DEF IsPart
  <2> QED BY <1>4, <2>1, <2>2
<1> HIDE DEF ends, Next2
<1>5. sub \in SubPeriods(e) => sub \in Between(e)
  BY <1>1, <1>2, <1>3
<1>6. sub \in Between(e) => sub \in SubPeriods(e)
  <2> SUFFICES ASSUME NEW a \in 1 .. n + 1, NEW b \in 0 .. n, a <= b + 1,
                      IsPart(e, a, b), sub = SubSeq(e, a, b)
               PROVE  sub \in SubPeriods(e)
    BY <1>2
  <2> QED BY <1>1, <1>4
<1> QED BY <1>5, <1>6

LEMMA PartsAreNumbered ==
  ASSUME NEW e \in Seq(Token), NEW part \in Between(e)
  PROVE  Numbered(part)
<1>1. PICK a \in 1 .. Len(e) + 1, b \in 0 .. Len(e) :
        a <= b + 1 /\ part = SubSeq(e, a, b)
  BY DEF Between
<1>2. part \in Seq(Token) /\ Len(part) \in Nat
  BY <1>1
<1>3. \A i \in 1 .. Len(part) : part[i] \in Token
  BY <1>2
<1> QED BY <1>2, <1>3, TokensHaveNumbers DEF Numbered

(* A part that is no sentence matches, one that is a sentence when all its *)
(* clauses do.                                                             *)
LEMMA PartHolds ==
  ASSUME NEW part, Numbered(part), InTable(part)
  PROVE  EvalSubPeriod(part) <=> Holds(part)
<1>1. Meanings(part) = {Parse(part)} \ {{}}
  BY ParseMeanings
<1> QED BY <1>1 DEF EvalSubPeriod, Holds

(* Any expression of tokens, at any time, matches exactly when one of its  *)
(* parts is no sentence of the documented grammar or is one that holds.    *)
THEOREM TypingErrorsMatch == Spec => []ErrorsMatch
<1>1. Written => ErrorsMatch
  <2> SUFFICES ASSUME expr \in Seq(Token), expr # <<>>,
                      \A part \in Between(expr) : InTable(part)
               PROVE  InPeriod(expr) <=> \E part \in Between(expr) : Holds(part)
    BY DEF Written, ErrorsMatch, InPeriod
  <2>1. InPeriod(expr) <=> \E sub \in SubPeriods(expr) : EvalSubPeriod(sub)
    BY DEF InPeriod
  <2>2. \A sub : sub \in SubPeriods(expr) <=> sub \in Between(expr)
    BY SubPeriodsAreParts
  <2>3. \A part \in Between(expr) : EvalSubPeriod(part) <=> Holds(part)
    BY PartsAreNumbered, PartHolds
  <2> QED BY <2>1, <2>2, <2>3
<1> QED BY <1>1, ExpressionIsWritten, PTL

-----------------------------------------------------------------------------
(* Reading clauses that are known.                                         *)

Scaled(s, i, cs) ==
  Reading(s)[i].expects = "scale" /\ Reading(s)[i].ranges = {} /\ Reading(s)[i].clauses = cs

LEMMA OpenRead ==
  ASSUME NEW s, Numbered(s), NEW i \in 0 .. Len(s) - 2, NEW cs, Scaled(s, i, cs),
         NEW w, s[i + 1] = Word(w), TableScale(w) # "none", s[i + 2] = OpenBrace
  PROVE  Held(Reading(s)[i + 2], TableScale(w), {}, cs)
<1>1. i \in 0 .. Len(s) - 1 /\ i + 1 \in 0 .. Len(s) - 1 /\ (i + 1) + 1 = i + 2
  BY DEF Numbered
<1>2. ~IsNumber(Word(w)) /\ Word(w).word = w
  BY WordsAreNoNumbers DEF Word
<1> PICK p \in Parser : p = Reading(s)[i]
  BY <1>1, ReadingTakes
<1> PICK q \in Parser : q = Reading(s)[i + 1]
  BY <1>1, ReadingTakes
<1> DEFINE sc == TableScale(w)
<1>3. q = Take(p, s[i + 1]) /\ Reading(s)[i + 2] = Take(q, s[i + 2])
      /\ s[i + 1].number \in Int /\ s[i + 2].number \in Int
  BY <1>1, ReadingTakes
<1>4. p.expects = "scale" /\ p.ranges = {} /\ p.clauses = cs
  BY DEF Scaled
<1> PICK tok : tok = s[i + 1]
  OBVIOUS
<1>5. q.expects = "brace" /\ Has(q, sc, {}, cs)
  <2>1. ~IsNumber(tok) /\ sc = TableScale(tok.word) /\ sc # "none" /\ tok.number \in Int
    BY <1>2, <1>3
  <2> HIDE DEF sc
  <2>2. Take(p, tok).expects = "brace" /\ Has(Take(p, tok), sc, p.ranges, p.clauses)
    BY <1>4, <2>1, TakeScale
  <2> QED BY <1>3, <1>4, <2>2
<1> HIDE DEF sc
<1>6. Take(q, s[i + 2]).expects = "range" /\ Has(Take(q, s[i + 2]), sc, {}, cs)
  BY <1>3, <1>5, TakeBrace DEF Has
<1>7. Held(Reading(s)[i + 2], sc, {}, cs)
  BY <1>3, <1>6 DEF Held, Has
<1> QED BY <1>7 DEF sc

LEMMA ValueRead ==
  ASSUME NEW s, Numbered(s), NEW i \in 0 .. Len(s) - 1, NEW sc, NEW rs, NEW cs,
         Held(Reading(s)[i], sc, rs, cs), NEW v \in Values(sc, s[i + 1])
  PROVE  Held(Reading(s)[i + 1], sc, rs \cup {<<v, v>>}, cs)
BY ReadingTakes, HeldOne

LEMMA SpanRead ==
  ASSUME NEW s, Numbered(s), NEW i \in 0 .. Len(s) - 3, NEW sc, NEW rs, NEW cs,
         Held(Reading(s)[i], sc, rs, cs), NEW v \in Values(sc, s[i + 1]),
         s[i + 2] = To, NEW w \in Values(sc, s[i + 3])
  PROVE  Held(Reading(s)[i + 3], sc, rs \cup {<<v, w>>}, cs)
<1>1. /\ i \in 0 .. Len(s) - 1 /\ i + 1 \in 0 .. Len(s) - 1 /\ (i + 1) + 1 = i + 2
      /\ i + 2 \in 0 .. Len(s) - 1 /\ (i + 2) + 1 = i + 3
  BY DEF Numbered
<1> PICK q \in Parser : q = Reading(s)[i + 1]
  BY <1>1, ReadingTakes
<1>2. q.expects = "dash" /\ q.lo = v /\ Has(q, sc, rs, cs)
  BY <1>1, ReadingTakes, HeldValue
<1>3. /\ Reading(s)[i + 3] = Take(Take(q, To), s[i + 3])
      /\ To.number \in Int /\ s[i + 3].number \in Int
  BY <1>1, ReadingTakes
<1>4. Held(Take(Take(q, To), s[i + 3]), sc, rs \cup {<<v, w>>}, cs)
  BY <1>2, <1>3, HeldPair
<1> QED BY <1>3, <1>4

LEMMA CloseRead ==
  ASSUME NEW s, Numbered(s), NEW i \in 0 .. Len(s) - 1, NEW sc, NEW rs, NEW cs,
         Held(Reading(s)[i], sc, rs, cs), rs # {}, s[i + 1] = CloseBrace
  PROVE  Scaled(s, i + 1, cs \cup {[scale |-> sc, ranges |-> rs]})
<1> PICK p \in Parser : p = Reading(s)[i]
  BY ReadingTakes
<1>1. Reading(s)[i + 1] = Take(p, CloseBrace) /\ CloseBrace.number \in Int
  BY ReadingTakes
<1>2. /\ Take(p, CloseBrace).expects = "scale"
      /\ Take(p, CloseBrace).ranges = {}
      /\ Take(p, CloseBrace).clauses = cs \cup {[scale |-> sc, ranges |-> rs]}
  BY <1>1, HeldClose
<1> QED BY <1>1, <1>2 DEF Scaled

(* A clause of one span, and a clause of values.                           *)
LEMMA SpanClauseRead ==
  ASSUME NEW s, Numbered(s), NEW i \in 0 .. Len(s) - 6, NEW cs, Scaled(s, i, cs),
         NEW w, s[i + 1] = Word(w), NEW sc, sc = TableScale(w), sc # "none",
         s[i + 2] = OpenBrace, NEW lo \in Values(sc, s[i + 3]), s[i + 4] = To,
         NEW hi \in Values(sc, s[i + 5]), s[i + 6] = CloseBrace
  PROVE  Scaled(s, i + 6, cs \cup {[scale |-> sc, ranges |-> {<<lo, hi>>}]})
<1>1. /\ i \in 0 .. Len(s) - 2 /\ i + 2 \in 0 .. Len(s) - 3 /\ (i + 2) + 1 = i + 3
      /\ (i + 2) + 2 = i + 4 /\ (i + 2) + 3 = i + 5
      /\ i + 5 \in 0 .. Len(s) - 1 /\ (i + 5) + 1 = i + 6
  <2> PICK n \in Nat : n = Len(s)
    BY DEF Numbered
  <2>1. i \in Nat /\ i <= n - 6
    OBVIOUS
  <2>2. i \in 0 .. n - 2 /\ i + 2 \in 0 .. n - 3 /\ i + 5 \in 0 .. n - 1
    BY <2>1
  <2>3. (i + 2) + 1 = i + 3 /\ (i + 2) + 2 = i + 4 /\ (i + 2) + 3 = i + 5 /\ (i + 5) + 1 = i + 6
    BY <2>1
  <2> QED BY <2>2, <2>3
<1>2. Held(Reading(s)[i + 2], sc, {}, cs)
  BY <1>1, OpenRead
<1>3. Held(Reading(s)[i + 5], sc, {} \cup {<<lo, hi>>}, cs)
  BY <1>1, <1>2, SpanRead
<1>4. Held(Reading(s)[i + 5], sc, {<<lo, hi>>}, cs)
  BY <1>3
<1>5. Scaled(s, (i + 5) + 1, cs \cup {[scale |-> sc, ranges |-> {<<lo, hi>>}]})
  BY <1>1, <1>4, CloseRead
<1> QED BY <1>1, <1>5

Singles(vals, n) == {<<vals[j], vals[j]>> : j \in 1 .. n}

LEMMA ValuesClauseRead ==
  ASSUME NEW s, Numbered(s), NEW n \in Nat \ {0}, NEW i \in 0 .. Len(s) - n - 3, NEW cs,
         Scaled(s, i, cs), NEW w, s[i + 1] = Word(w), NEW sc, sc = TableScale(w),
         sc # "none", s[i + 2] = OpenBrace, NEW vals,
         \A j \in 1 .. n : vals[j] \in Values(sc, s[(i + 2) + j]),
         s[i + n + 3] = CloseBrace
  PROVE  Scaled(s, i + n + 3, cs \cup {[scale |-> sc, ranges |-> Singles(vals, n)]})
<1>1. /\ i \in 0 .. Len(s) - 2 /\ i + 2 + n \in 0 .. Len(s) - 1
      /\ (i + 2 + n) + 1 = i + n + 3
  BY DEF Numbered
<1> DEFINE Read(k) == Held(Reading(s)[i + 2 + k], sc, Singles(vals, k), cs)
           S == {k \in Nat : k <= n => Read(k)}
<1>2. 0 \in S
  <2>1. Held(Reading(s)[i + 2], sc, {}, cs)
    BY <1>1, OpenRead
  <2>2. Singles(vals, 0) = {} /\ i + 2 + 0 = i + 2
    BY DEF Singles
  <2> QED BY <2>1, <2>2
<1>3. ASSUME NEW k \in Nat, k \in S PROVE k + 1 \in S
  <2> SUFFICES ASSUME k + 1 <= n PROVE Read(k + 1)
    OBVIOUS
  <2>1. Read(k) /\ k + 1 \in 1 .. n
    BY <1>3
  <2>2. /\ i + 2 + k \in 0 .. Len(s) - 1 /\ (i + 2 + k) + 1 = i + 2 + (k + 1)
        /\ (i + 2) + (k + 1) = (i + 2 + k) + 1
    BY DEF Numbered
  <2> DEFINE v == vals[k + 1]
  <2>3. v \in Values(sc, s[(i + 2 + k) + 1])
    BY <2>1, <2>2
  <2>4. Singles(vals, k + 1) = Singles(vals, k) \cup {<<v, v>>}
    <3>1. 1 .. k + 1 = 1 .. k \cup {k + 1}
      OBVIOUS
    <3> QED BY <3>1, Zenon DEF Singles
  <2> HIDE DEF v
  <2>5. Held(Reading(s)[(i + 2 + k) + 1], sc, Singles(vals, k) \cup {<<v, v>>}, cs)
    BY <2>1, <2>2, <2>3, ValueRead
  <2> QED BY <2>2, <2>4, <2>5
<1> HIDE DEF S
<1>4. Nat \subseteq S
  BY <1>2, <1>3, Induction
<1>5. Held(Reading(s)[i + 2 + n], sc, Singles(vals, n), cs)
  <2>1. n \in S
    BY <1>4
  <2> QED BY <2>1 DEF S
<1>6. Singles(vals, n) # {}
  <2>1. <<vals[1], vals[1]>> \in Singles(vals, n)
    BY DEF Singles
  <2> QED BY <2>1
<1>7. s[(i + 2 + n) + 1] = CloseBrace
  BY <1>1
<1>8. Scaled(s, (i + 2 + n) + 1, cs \cup {[scale |-> sc, ranges |-> Singles(vals, n)]})
  BY <1>1, <1>5, <1>6, <1>7, CloseRead
<1> QED BY <1>1, <1>8

(* What follows does not change what was read.                             *)
LEMMA ReadingPrefix ==
  ASSUME NEW s, NEW t, Len(s) \in Nat, Len(t) \in Nat, Len(s) <= Len(t),
         \A i \in 1 .. Len(s) : t[i] = s[i]
  PROVE  Reading(t)[Len(s)] = Reading(s)[Len(s)]
<1> DEFINE S == {n \in Nat : n <= Len(s) => Reading(t)[n] = Reading(s)[n]}
<1>1. 0 \in S
  BY ReadingSteps
<1>2. ASSUME NEW n \in Nat, n \in S PROVE n + 1 \in S
  <2> SUFFICES ASSUME n + 1 <= Len(s) PROVE Reading(t)[n + 1] = Reading(s)[n + 1]
    OBVIOUS
  <2>1. n \in 0 .. Len(s) - 1 /\ n \in 0 .. Len(t) - 1 /\ n + 1 \in 1 .. Len(s)
    OBVIOUS
  <2>2. Reading(t)[n] = Reading(s)[n] /\ t[n + 1] = s[n + 1]
    BY <1>2, <2>1
  <2>3. /\ Reading(t)[n + 1] = Take(Reading(t)[n], t[n + 1])
        /\ Reading(s)[n + 1] = Take(Reading(s)[n], s[n + 1])
    BY <2>1, ReadingSteps
  <2> QED BY <2>2, <2>3
<1> HIDE DEF S
<1>3. Len(s) \in S
  BY <1>1, <1>2, Induction
<1> QED BY <1>3 DEF S

-----------------------------------------------------------------------------
(* Periods written clause by clause.                                       *)

RecipeTokens ==
  {OpenBrace, CloseBrace, To, Hour(12, "am")} \cup {Number(n) : n \in 0 .. 59}
  \cup {Word(w) : w \in {"md", "wd", "wday", "hr", "min", "sec",
                         "su", "mon", "fri", "sa"}}

LEMMA RecipeTokensArePlain ==
  ASSUME NEW tok \in RecipeTokens
  PROVE  tok.number \in Int /\ tok # Comma
<1>1. ASSUME NEW w PROVE Word(w).number \in Int
  BY DEF Word
<1>2. "," # "{" /\ "," # "}" /\ "," # "-"
  BY Zenon
<1>3. \A w \in {"md", "wd", "wday", "hr", "min", "sec", "su", "mon", "fri", "sa"} :
        w # ","
  OBVIOUS
<1>4. ASSUME NEW n \in Nat
      PROVE  /\ Number(n).number = n /\ Number(n) # Comma
  <2>1. Number(n).number = n
    BY DEF Number
  <2>2. Comma.number = -1
    BY DEF Comma, Word
  <2> QED BY <2>1, <2>2
<1>5. Hour(12, "am").number = 12 /\ Hour(12, "am") # Comma
  <2>1. Hour(12, "am").number = 12
    BY DEF Hour
  <2>2. Comma.number = -1
    BY DEF Comma, Word
  <2> QED BY <2>1, <2>2
<1>6. CASE tok \in {OpenBrace, CloseBrace, To}
  <2>1. PICK sign \in {"{", "}", "-"} : tok = Word(sign)
    BY <1>6, Zenon DEF OpenBrace, CloseBrace, To
  <2>2. sign # ","
    BY <1>2, Zenon
  <2>3. tok # Comma
    BY <2>1, <2>2, WordsDiffer, Zenon DEF Comma
  <2> QED BY <2>1, <2>3, <1>1
<1>7. CASE tok \in {Word(w) : w \in {"md", "wd", "wday", "hr", "min", "sec",
                                     "su", "mon", "fri", "sa"}}
  <2>1. PICK w \in {"md", "wd", "wday", "hr", "min", "sec", "su", "mon", "fri", "sa"} :
          tok = Word(w)
    BY <1>7
  <2>2. tok # Comma
    BY <1>3, <2>1, WordsDiffer, Zenon DEF Comma
  <2> QED BY <2>1, <2>2, <1>1
<1> QED BY <1>4, <1>5, <1>6, <1>7 DEF RecipeTokens

(* s is a sub-period of the clauses cs.                                    *)
Sentence(s, cs) == s \in Seq(RecipeTokens) /\ Scaled(s, Len(s), cs)

LEMMA SentenceIsNumbered ==
  ASSUME NEW s \in Seq(RecipeTokens)
  PROVE  Numbered(s) /\ \A i \in 1 .. Len(s) : s[i] # Comma
BY RecipeTokensArePlain DEF Numbered

LEMMA EmptySentence == Sentence(<<>>, {})
<1>1. <<>> \in Seq(RecipeTokens) /\ Len(<<>>) = 0
  OBVIOUS
<1>2. Numbered(<<>>)
  BY <1>1, SentenceIsNumbered
<1>3. Reading(<<>>)[0] = Start
  BY <1>1, ReadingSteps
<1> QED BY <1>1, <1>3, StartType DEF Scaled, Sentence

(* One more clause: of values, and of a span.                              *)
LEMMA ClauseFollows ==
  ASSUME NEW s, NEW cs, Sentence(s, cs), NEW t \in Seq(RecipeTokens), Len(s) <= Len(t),
         \A i \in 1 .. Len(s) : t[i] = s[i]
  PROVE  Numbered(t) /\ Scaled(t, Len(s), cs)
<1>1. s \in Seq(RecipeTokens) /\ Len(s) \in Nat /\ Len(t) \in Nat
  BY DEF Sentence
<1>2. Reading(t)[Len(s)] = Reading(s)[Len(s)]
  BY <1>1, ReadingPrefix
<1> QED BY <1>2, SentenceIsNumbered DEF Sentence, Scaled

LEMMA ValuesClauseFollows ==
  ASSUME NEW s, NEW cs, Sentence(s, cs), NEW w, Word(w) \in RecipeTokens, NEW sc,
         sc = TableScale(w), sc # "none", NEW toks \in Seq(RecipeTokens), toks # <<>>,
         NEW vals, \A j \in 1 .. Len(toks) : vals[j] \in Values(sc, toks[j])
  PROVE  Sentence(s \o Clause(w, toks),
                  cs \cup {[scale |-> sc, ranges |-> Singles(vals, Len(toks))]})
<1> DEFINE n == Len(toks)
           i == Len(s)
<1>1. s \in Seq(RecipeTokens) /\ i \in Nat /\ n \in Nat \ {0}
  BY DEF Sentence
<1>2. OpenBrace \in RecipeTokens /\ CloseBrace \in RecipeTokens
  BY DEF RecipeTokens
<1>3. /\ Clause(w, toks) \in Seq(RecipeTokens) /\ Len(Clause(w, toks)) = n + 3
      /\ Clause(w, toks)[1] = Word(w) /\ Clause(w, toks)[2] = OpenBrace
      /\ \A j \in 1 .. n : Clause(w, toks)[2 + j] = toks[j]
      /\ Clause(w, toks)[n + 3] = CloseBrace
  BY <1>1, <1>2 DEF Clause
<1> PICK c \in Seq(RecipeTokens) : c = Clause(w, toks)
  BY <1>3
<1> PICK t \in Seq(RecipeTokens) : t = s \o c
  BY <1>1, ConcatProperties
<1>4. /\ Len(t) = i + n + 3 /\ \A j \in 1 .. i : t[j] = s[j]
      /\ \A j \in 1 .. n + 3 : t[i + j] = c[j]
  <2>1. /\ Len(c) = n + 3 /\ Len(t) = i + Len(c)
        /\ \A j \in 1 .. i + Len(c) : t[j] = IF j <= i THEN s[j] ELSE c[j - i]
    BY <1>1, <1>3, ConcatProperties
  <2> HIDE DEF n, i
  <2>2. \A j \in 1 .. n + 3 : i + j \in 1 .. i + Len(c) /\ ~(i + j <= i) /\ (i + j) - i = j
    BY <1>1, <2>1
  <2> QED BY <1>1, <2>1, <2>2
<1>5. /\ t[i + 1] = Word(w) /\ t[i + 2] = OpenBrace /\ t[i + (n + 3)] = CloseBrace
      /\ \A j \in 1 .. n : t[i + (2 + j)] = toks[j]
  BY <1>1, <1>3, <1>4
<1>6. Numbered(t) /\ Scaled(t, i, cs)
  <2>1. Len(s) <= Len(t) /\ \A j \in 1 .. Len(s) : t[j] = s[j]
    BY <1>1, <1>4
  <2>2. Numbered(t) /\ Scaled(t, Len(s), cs)
    BY <2>1, ClauseFollows
  <2> QED BY <2>2
<1>7. /\ i \in 0 .. Len(t) - n - 3 /\ i + n + 3 = Len(t) /\ i + (n + 3) = i + n + 3
      /\ \A j \in 1 .. n : (i + 2) + j = i + (2 + j)
  BY <1>1, <1>4
<1>8. /\ \A j \in 1 .. n : vals[j] \in Values(sc, t[(i + 2) + j])
      /\ t[i + n + 3] = CloseBrace
  BY <1>5, <1>7
<1> HIDE DEF n, i
<1>9. Scaled(t, i + n + 3, cs \cup {[scale |-> sc, ranges |-> Singles(vals, n)]})
  BY <1>1, <1>5, <1>6, <1>7, <1>8, ValuesClauseRead
<1> QED BY <1>7, <1>9 DEF Sentence, n

LEMMA ThreeTokens ==
  ASSUME NEW a \in RecipeTokens, NEW b \in RecipeTokens
  PROVE  <<a, To, b>> \in Seq(RecipeTokens)
<1>1. To \in RecipeTokens
  BY DEF RecipeTokens
<1>2. <<a, To, b>> \in [1 .. 3 -> RecipeTokens]
  BY <1>1
<1> PICK n \in Nat : n = 3
  OBVIOUS
<1>3. <<a, To, b>> \in [1 .. n -> RecipeTokens]
  BY <1>2
<1>4. <<a, To, b>> \in UNION {[1 .. m -> RecipeTokens] : m \in Nat}
  BY <1>3
<1> QED BY <1>4, SeqDef

LEMMA SpanClauseFollows ==
  ASSUME NEW s, NEW cs, Sentence(s, cs), NEW w, Word(w) \in RecipeTokens, NEW sc,
         sc = TableScale(w), sc # "none", NEW a \in RecipeTokens, NEW b \in RecipeTokens,
         NEW lo \in Values(sc, a), NEW hi \in Values(sc, b)
  PROVE  Sentence(s \o Clause(w, <<a, To, b>>),
                  cs \cup {[scale |-> sc, ranges |-> {<<lo, hi>>}]})
<1> DEFINE i == Len(s)
<1>1. s \in Seq(RecipeTokens) /\ i \in Nat
  BY DEF Sentence
<1>2. OpenBrace \in RecipeTokens /\ CloseBrace \in RecipeTokens /\ To \in RecipeTokens
  BY DEF RecipeTokens
<1>3. PICK c \in Seq(RecipeTokens) :
        /\ c = Clause(w, <<a, To, b>>) /\ Len(c) = 6
        /\ c[1] = Word(w) /\ c[2] = OpenBrace /\ c[3] = a /\ c[4] = To /\ c[5] = b
        /\ c[6] = CloseBrace
  <2> PICK toks \in Seq(RecipeTokens) : toks = <<a, To, b>>
    BY ThreeTokens
  <2>1. Len(toks) = 3 /\ toks[1] = a /\ toks[2] = To /\ toks[3] = b
    OBVIOUS
  <2> HIDE DEF i
  <2>2. /\ Clause(w, toks) \in Seq(RecipeTokens) /\ Len(Clause(w, toks)) = Len(toks) + 3
        /\ Clause(w, toks)[1] = Word(w) /\ Clause(w, toks)[2] = OpenBrace
        /\ \A j \in 1 .. Len(toks) : Clause(w, toks)[2 + j] = toks[j]
        /\ Clause(w, toks)[Len(toks) + 3] = CloseBrace
    BY <1>2 DEF Clause
  <2> PICK c \in Seq(RecipeTokens) : c = Clause(w, toks)
    BY <2>2
  <2>3. /\ Len(c) = 6 /\ c[1] = Word(w) /\ c[2] = OpenBrace /\ c[3] = a /\ c[4] = To
        /\ c[5] = b /\ c[6] = CloseBrace
    BY <2>1, <2>2
  <2> QED BY <2>3
<1> PICK t \in Seq(RecipeTokens) : t = s \o c
  BY <1>1, ConcatProperties
<1>4. /\ Len(t) = i + 6 /\ \A j \in 1 .. i : t[j] = s[j]
      /\ \A j \in 1 .. 6 : t[i + j] = c[j]
  <2>1. /\ Len(t) = i + Len(c)
        /\ \A j \in 1 .. i + Len(c) : t[j] = IF j <= i THEN s[j] ELSE c[j - i]
    BY <1>1, ConcatProperties
  <2> HIDE DEF i
  <2>2. \A j \in 1 .. 6 : i + j \in 1 .. i + 6 /\ ~(i + j <= i) /\ (i + j) - i = j
    BY <1>1
  <2>3. Len(t) = i + 6
    BY <1>3, <2>1
  <2>4. ASSUME NEW j \in 1 .. i PROVE t[j] = s[j]
    <3>1. j \in 1 .. i + Len(c) /\ j <= i
      BY <1>1, <1>3
    <3> QED BY <2>1, <3>1
  <2>5. ASSUME NEW j \in 1 .. 6 PROVE t[i + j] = c[j]
    BY <1>3, <2>1, <2>2
  <2> QED BY <2>3, <2>4, <2>5
<1>5. /\ t[i + 1] = Word(w) /\ t[i + 2] = OpenBrace /\ t[i + 3] = a /\ t[i + 4] = To
      /\ t[i + 5] = b /\ t[i + 6] = CloseBrace
  BY <1>1, <1>3, <1>4
<1>6. Numbered(t) /\ Scaled(t, i, cs)
  <2>1. Len(s) <= Len(t) /\ \A j \in 1 .. Len(s) : t[j] = s[j]
    BY <1>1, <1>4
  <2>2. Numbered(t) /\ Scaled(t, Len(s), cs)
    BY <2>1, ClauseFollows
  <2> QED BY <2>2
<1>7. i \in 0 .. Len(t) - 6 /\ i + 6 = Len(t)
  BY <1>1, <1>4
<1> HIDE DEF i
<1>8. Scaled(t, i + 6, cs \cup {[scale |-> sc, ranges |-> {<<lo, hi>>}]})
  BY <1>5, <1>6, <1>7, SpanClauseRead
<1> QED BY <1>3, <1>7, <1>8 DEF Sentence

LEMMA ClauseIsSequence ==
  ASSUME NEW w, Word(w) \in RecipeTokens, NEW toks \in Seq(RecipeTokens)
  PROVE  Clause(w, toks) \in Seq(RecipeTokens)
<1>1. OpenBrace \in RecipeTokens /\ CloseBrace \in RecipeTokens
  BY DEF RecipeTokens
<1> QED BY <1>1 DEF Clause

LEMMA FirstClause ==
  ASSUME NEW w, Word(w) \in RecipeTokens, NEW toks \in Seq(RecipeTokens)
  PROVE  <<>> \o Clause(w, toks) = Clause(w, toks)
BY ClauseIsSequence, ConcatEmptySeq

LEMMA CommaAssociative ==
  ASSUME NEW a \in Seq(RecipeTokens), NEW b \in Seq(RecipeTokens),
         NEW c \in Seq(RecipeTokens)
  PROVE  ((a \o <<Comma>>) \o b) \o c = (a \o <<Comma>>) \o (b \o c)
<1> PICK S : S = RecipeTokens \cup {Comma}
  OBVIOUS
<1>1. a \in Seq(S) /\ b \in Seq(S) /\ c \in Seq(S)
  BY SeqMonotonic
<1>2. <<Comma>> \in Seq(S)
  OBVIOUS
<1>3. a \o <<Comma>> \in Seq(S)
  BY <1>1, <1>2, ConcatProperties
<1> QED BY <1>1, <1>3, ConcatAssociative

(* A clause of one value.                                                  *)
One(sc, v) == [scale |-> sc, ranges |-> {<<v, v>>}]

LEMMA OneToken ==
  ASSUME NEW tok \in RecipeTokens
  PROVE  <<tok>> \in Seq(RecipeTokens) /\ Len(<<tok>>) = 1 /\ <<tok>>[1] = tok
OBVIOUS

LEMMA OneClauseFollows ==
  ASSUME NEW s, NEW cs, Sentence(s, cs), NEW w, Word(w) \in RecipeTokens, NEW sc,
         sc = TableScale(w), sc # "none", NEW tok \in RecipeTokens,
         NEW v \in Values(sc, tok)
  PROVE  Sentence(s \o Clause(w, <<tok>>), cs \cup {One(sc, v)})
<1> PICK toks \in Seq(RecipeTokens) : toks = <<tok>>
  BY OneToken
<1> PICK vals : vals = <<v>>
  OBVIOUS
<1>1. Len(toks) = 1 /\ toks[1] = tok /\ vals[1] = v /\ toks # <<>>
  OBVIOUS
<1>2. \A j \in 1 .. Len(toks) : vals[j] \in Values(sc, toks[j])
  BY <1>1
<1>3. Singles(vals, Len(toks)) = {<<v, v>>}
  <2>1. \A j \in 1 .. Len(toks) : vals[j] = v
    BY <1>1
  <2>2. 1 \in 1 .. Len(toks)
    BY <1>1
  <2> QED BY <2>1, <2>2 DEF Singles
<1>4. Sentence(s \o Clause(w, toks),
               cs \cup {[scale |-> sc, ranges |-> Singles(vals, Len(toks))]})
  BY <1>1, <1>2, ValuesClauseFollows
<1> QED BY <1>3, <1>4 DEF One

(* A sentence is one sub-period; so are the two sides of a comma.          *)
LEMMA SentenceHolds ==
  ASSUME NEW s, NEW cs, Sentence(s, cs)
  PROVE  InPeriod(s) <=> \A c \in cs : ClauseMatches(c)
<1>1. s \in Seq(RecipeTokens) /\ Len(s) \in Nat
  BY DEF Sentence
<1>2. \A i \in 1 .. Len(s) : s[i] # Comma
  BY <1>1, SentenceIsNumbered
<1>3. SubSeq(s, 0 + 1, Len(s) + 1 - 1) = s
  BY <1>1
<1>4. SubPeriods(s) = {s}
  <2> DEFINE ends == {i \in 0 .. Len(s) + 1 : i \in {0, Len(s) + 1} \/ s[i] = Comma}
             cuts == {c \in ends \X ends :
                        c[1] < c[2] /\ \A k \in ends : k <= c[1] \/ k >= c[2]}
  <2>1. ends = {0, Len(s) + 1}
    BY <1>1, <1>2
  <2>2. cuts = {<<0, Len(s) + 1>>}
    BY <1>1, <2>1
  <2>3. SubPeriods(s) = {SubSeq(s, cut[1] + 1, cut[2] - 1) : cut \in cuts}
    BY DEF SubPeriods
  <2> HIDE DEF cuts
  <2>4. \A cut \in cuts : cut[1] = 0 /\ cut[2] = Len(s) + 1
    BY <2>2
  <2>5. \A cut \in cuts : SubSeq(s, cut[1] + 1, cut[2] - 1) = s
    BY <1>3, <2>4
  <2>6. cuts # {}
    BY <2>2
  <2> QED BY <2>3, <2>5, <2>6, Zenon
<1>5. Parse(s) = cs
  BY DEF Sentence, Scaled, Parse
<1>6. s = <<>> => cs = {}
  BY <1>5, EmptySentence DEF Sentence, Scaled, Parse
<1> QED BY <1>4, <1>5, <1>6 DEF InPeriod, EvalSubPeriod

LEMMA CommaHolds ==
  ASSUME NEW a, NEW as, Sentence(a, as), NEW b, NEW bs, Sentence(b, bs)
  PROVE  InPeriod((a \o <<Comma>>) \o b) <=>
           (\A c \in as : ClauseMatches(c)) \/ (\A c \in bs : ClauseMatches(c))
<1> DEFINE S == RecipeTokens \cup {Comma}
           m == Len(a) + 1
           n == Len(a) + Len(b) + 2
<1>1. a \in Seq(RecipeTokens) /\ b \in Seq(RecipeTokens) /\ Len(a) \in Nat /\ Len(b) \in Nat
  BY DEF Sentence
<1>2. a \in Seq(S) /\ b \in Seq(S) /\ <<Comma>> \in Seq(S) /\ Len(<<Comma>>) = 1
      /\ <<Comma>>[1] = Comma
  BY <1>1, SeqMonotonic
<1> HIDE DEF S
<1> PICK d \in Seq(S) : d = a \o <<Comma>>
  BY <1>2, ConcatProperties
<1>3. Len(d) = m /\ \A i \in 1 .. m : d[i] = IF i <= Len(a) THEN a[i] ELSE Comma
  <2>1. /\ Len(d) = Len(a) + 1
        /\ \A i \in 1 .. Len(a) + 1 : d[i] = IF i <= Len(a) THEN a[i]
                                             ELSE <<Comma>>[i - Len(a)]
    BY <1>2, ConcatProperties
  <2>2. \A i \in 1 .. Len(a) + 1 : ~(i <= Len(a)) => i - Len(a) = 1
    BY <1>1
  <2> QED BY <1>2, <2>1, <2>2
<1> PICK e \in Seq(S) : e = d \o b
  BY <1>2, ConcatProperties
<1>4. /\ Len(e) + 1 = n
      /\ \A i \in 1 .. m + Len(b) : e[i] = IF i <= m THEN d[i] ELSE b[i - m]
  BY <1>1, <1>2, <1>3, ConcatProperties
<1>5. /\ \A i \in 1 .. Len(a) : e[i] = a[i]
      /\ e[m] = Comma
      /\ \A i \in 1 .. Len(b) : e[m + i] = b[i]
  <2>1. ASSUME NEW i \in 1 .. Len(a) PROVE e[i] = a[i]
    <3>1. i \in 1 .. m /\ i \in 1 .. m + Len(b) /\ i <= m
      BY <1>1
    <3> QED BY <3>1, <1>3, <1>4
  <2>2. e[m] = Comma
    <3>1. m \in 1 .. m /\ m \in 1 .. m + Len(b) /\ ~(m <= Len(a))
      BY <1>1
    <3> QED BY <3>1, <1>3, <1>4
  <2>3. ASSUME NEW i \in 1 .. Len(b) PROVE e[m + i] = b[i]
    <3>1. m + i \in 1 .. m + Len(b) /\ ~(m + i <= m) /\ (m + i) - m = i
      BY <1>1
    <3> QED BY <3>1, <1>4
  <2> QED BY <2>1, <2>2, <2>3
<1>6. SubSeq(e, 0 + 1, m - 1) = a
  <2>1. \A i \in 1 .. Len(a) : e[i] \in RecipeTokens
    BY <1>1, <1>5
  <2>2. /\ SubSeq(e, 1, Len(a)) \in Seq(RecipeTokens)
        /\ Len(SubSeq(e, 1, Len(a))) = IF 1 <= Len(a) THEN Len(a) - 1 + 1 ELSE 0
        /\ \A i \in 1 .. Len(a) - 1 + 1 : SubSeq(e, 1, Len(a))[i] = e[1 + i - 1]
    BY <1>1, <2>1, SubSeqProperties
  <2>3. /\ Len(SubSeq(e, 1, Len(a))) = Len(a)
        /\ \A i \in 1 .. Len(a) : SubSeq(e, 1, Len(a))[i] = a[i]
    BY <1>1, <1>5, <2>2
  <2>4. SubSeq(e, 1, Len(a)) = a
    BY <1>1, <2>2, <2>3, SeqEqual
  <2>5. 0 + 1 = 1 /\ m - 1 = Len(a)
    BY <1>1
  <2> QED BY <2>4, <2>5
<1>7. SubSeq(e, m + 1, n - 1) = b
  <2>1. \A i \in m + 1 .. m + Len(b) : e[i] \in RecipeTokens
    <3> SUFFICES ASSUME NEW i \in m + 1 .. m + Len(b) PROVE e[i] \in RecipeTokens
      OBVIOUS
    <3>1. i - m \in 1 .. Len(b) /\ i = m + (i - m)
      BY <1>1
    <3>2. b[i - m] \in RecipeTokens
      BY <1>1, <3>1
    <3> QED BY <1>5, <3>1, <3>2
  <2>2. m + 1 \in Int /\ m + Len(b) \in Int /\ m + Len(b) - (m + 1) + 1 = Len(b)
    BY <1>1
  <2> DEFINE u == SubSeq(e, m + 1, m + Len(b))
  <2>3. /\ u \in Seq(RecipeTokens)
        /\ Len(u) = IF m + 1 <= m + Len(b) THEN m + Len(b) - (m + 1) + 1 ELSE 0
        /\ \A i \in 1 .. m + Len(b) - (m + 1) + 1 : u[i] = e[m + 1 + i - 1]
    <3> PICK lo \in Int : lo = m + 1
      BY <2>2
    <3> PICK hi \in Int : hi = m + Len(b)
      BY <2>2
    <3>1. \A i \in lo .. hi : e[i] \in RecipeTokens
      BY <2>1
    <3>2. /\ SubSeq(e, lo, hi) \in Seq(RecipeTokens)
          /\ Len(SubSeq(e, lo, hi)) = IF lo <= hi THEN hi - lo + 1 ELSE 0
          /\ \A i \in 1 .. hi - lo + 1 : SubSeq(e, lo, hi)[i] = e[lo + i - 1]
      BY <3>1, SubSeqProperties
    <3> QED BY <3>2
  <2> HIDE DEF u
  <2>4. Len(u) = Len(b)
    BY <1>1, <2>3
  <2>5. ASSUME NEW i \in 1 .. Len(b) PROVE u[i] = b[i]
    <3>1. m + 1 + i - 1 = m + i /\ i \in 1 .. m + Len(b) - (m + 1) + 1
      BY <1>1
    <3> QED BY <1>5, <2>3, <3>1
  <2>6. u = b
    BY <1>1, <2>3, <2>4, <2>5, SeqEqual
  <2>7. n - 1 = m + Len(b)
    BY <1>1
  <2> QED BY <2>6, <2>7 DEF u
<1>8. SubPeriods(e) = {a, b}
  <2> DEFINE ends == {i \in 0 .. Len(e) + 1 : i \in {0, Len(e) + 1} \/ e[i] = Comma}
             cuts == {c \in ends \X ends :
                        c[1] < c[2] /\ \A k \in ends : k <= c[1] \/ k >= c[2]}
  <2>1. \A i \in 1 .. Len(e) : e[i] = Comma <=> i = m
    <3> SUFFICES ASSUME NEW i \in 1 .. Len(e), e[i] = Comma PROVE i = m
      BY <1>5
    <3>1. CASE i \in 1 .. Len(a)
      BY <3>1, <1>1, <1>5, SentenceIsNumbered
    <3>2. CASE i \in m + 1 .. m + Len(b)
      <4>1. i - m \in 1 .. Len(b) /\ i = m + (i - m)
        BY <1>1, <3>2
      <4>2. e[i] = b[i - m] /\ b[i - m] # Comma
        BY <1>1, <1>5, <4>1, SentenceIsNumbered
      <4> QED BY <4>2
    <3> QED BY <1>1, <1>4, <3>1, <3>2
  <2>2. ends = {0, m, n}
    <3>1. Len(e) + 1 = n /\ 0 < m /\ m < n /\ m \in Nat /\ n \in Nat
      BY <1>1, <1>4
    <3> HIDE DEF m, n
    <3>2. Len(e) \in Nat
      OBVIOUS
    <3> QED BY <2>1, <3>1, <3>2
  <2>3. cuts = {<<0, m>>, <<m, n>>}
    <3>1. 0 < m /\ m < n /\ m \in Nat /\ n \in Nat
      BY <1>1
    <3> HIDE DEF m, n, ends
    <3> QED BY <2>2, <3>1
  <2>4. SubPeriods(e) = {SubSeq(e, cut[1] + 1, cut[2] - 1) : cut \in cuts}
    BY DEF SubPeriods
  <2> HIDE DEF cuts, m, n
  <2>5. \A cut \in cuts : \/ cut[1] = 0 /\ cut[2] = m
                          \/ cut[1] = m /\ cut[2] = n
    BY <2>3
  <2>6. \A cut \in cuts : SubSeq(e, cut[1] + 1, cut[2] - 1) \in {a, b}
    BY <1>6, <1>7, <2>5
  <2>7. \E cut \in cuts : a = SubSeq(e, cut[1] + 1, cut[2] - 1)
    <3>1. <<0, m>> \in cuts /\ <<0, m>>[1] = 0 /\ <<0, m>>[2] = m
      BY <2>3
    <3> QED BY <1>6, <3>1
  <2>8. \E cut \in cuts : b = SubSeq(e, cut[1] + 1, cut[2] - 1)
    <3>1. <<m, n>> \in cuts /\ <<m, n>>[1] = m /\ <<m, n>>[2] = n
      BY <2>3
    <3> QED BY <1>7, <3>1
  <2> QED BY <2>4, <2>6, <2>7, <2>8, Zenon
<1>9. Parse(a) = as /\ Parse(b) = bs
  BY DEF Sentence, Scaled, Parse
<1>10. e # <<>>
  BY <1>1, <1>4
<1> QED BY <1>8, <1>9, <1>10 DEF InPeriod, EvalSubPeriod

-----------------------------------------------------------------------------
(* The recipes and the very shy job, read.                                 *)

LEMMA NumberValue ==
  ASSUME NEW sc, NEW n \in Nat
  PROVE  n \in Values(sc, Number(n))
<1>1. Number(n).number = n /\ Number(n).word = Number(0).word
  BY DEF Number
<1>2. Number(n).word = ""
  BY Zenon DEF Number
<1>3. IsNumber(Number(n)) /\ n \in {Number(n).number}
  BY <1>1 DEF IsNumber
<1> QED BY <1>1, <1>2, <1>3, Zenon DEF Values

LEMMA NameValues ==
  /\ 1 \in Values("wday", Word("su")) /\ 2 \in Values("wday", Word("mon"))
  /\ 6 \in Values("wday", Word("fri")) /\ 7 \in Values("wday", Word("sa"))
<1>1. ASSUME NEW n \in 1 .. 7, NEW w \in Weekdays[n] PROVE n \in Values("wday", Word(w))
  <2>1. n \in 1 .. 12 /\ Word(w) \in {Word(x) : x \in Weekdays[n]}
    OBVIOUS
  <2> QED BY <2>1, Zenon DEF Values
<1>2. /\ "su" \in Weekdays[1] /\ "mon" \in Weekdays[2] /\ "fri" \in Weekdays[6]
      /\ "sa" \in Weekdays[7]
  BY DEF Weekdays
<1> QED BY <1>1, <1>2

LEMMA MidnightValue == 0 \in Values("hour", Hour(12, "am"))
<1>1. /\ Hour(12, "am").number = 12 /\ Hour(12, "am").word = "am" /\ Am(12) = 0
  BY DEF Hour, Am
<1>2. IsNumber(Hour(12, "am")) /\ 0 \in {Am(Hour(12, "am").number)}
  BY <1>1 DEF IsNumber
<1> QED BY <1>1, <1>2, Zenon DEF Values

LEMMA RecipeWords ==
  /\ \A w \in {"md", "wd", "wday", "hr", "min", "sec"} : Word(w) \in RecipeTokens
  /\ \A n \in 0 .. 59 : Number(n) \in RecipeTokens
  /\ \A w \in {"su", "mon", "fri", "sa"} : Word(w) \in RecipeTokens
  /\ Hour(12, "am") \in RecipeTokens
BY DEF RecipeTokens

LEMMA RecipeScales ==
  /\ TableScale("md") = "mday" /\ TableScale("wd") = "wday"
  /\ TableScale("wday") = "wday" /\ TableScale("hr") = "hour"
  /\ TableScale("min") = "minute" /\ TableScale("sec") = "second"
BY DEF TableScale

(* Clauses of one number, for the minutes, the hours and the seconds.      *)
LEMMA NumberClauses ==
  ASSUME NEW s, NEW cs, Sentence(s, cs), NEW n \in 0 .. 59
  PROVE  /\ Sentence(s \o Clause("hr", <<Number(n)>>), cs \cup {One("hour", n)})
         /\ Sentence(s \o Clause("min", <<Number(n)>>), cs \cup {One("minute", n)})
         /\ Sentence(s \o Clause("sec", <<Number(n)>>), cs \cup {One("second", n)})
         /\ Sentence(s \o Clause("md", <<Number(n)>>), cs \cup {One("mday", n)})
<1>1. /\ \A sc : n \in Values(sc, Number(n))
      /\ Number(n) \in RecipeTokens
  BY NumberValue, RecipeWords
<1>2. \A w \in {"md", "hr", "min", "sec"} :
        /\ Word(w) \in RecipeTokens /\ TableScale(w) # "none"
        /\ Sentence(s \o Clause(w, <<Number(n)>>), cs \cup {One(TableScale(w), n)})
  <2> TAKE w \in {"md", "hr", "min", "sec"}
  <2>1. Word(w) \in RecipeTokens /\ TableScale(w) # "none"
    BY RecipeWords, RecipeScales
  <2> QED BY <1>1, <2>1, OneClauseFollows
<1> QED BY <1>2, RecipeScales

LEMMA NameClause ==
  ASSUME NEW w \in {"su", "sa"}, NEW v \in Values("wday", Word(w))
  PROVE  Sentence(Clause("wd", <<Word(w)>>), {One("wday", v)})
<1>1. Word("wd") \in RecipeTokens /\ Word(w) \in RecipeTokens /\ TableScale("wd") = "wday"
  BY RecipeWords, RecipeScales
<1>2. Sentence(<<>> \o Clause("wd", <<Word(w)>>), {} \cup {One("wday", v)})
  BY <1>1, EmptySentence, OneClauseFollows
<1>3. <<Word(w)>> \in Seq(RecipeTokens)
  BY <1>1, OneToken
<1>4. <<>> \o Clause("wd", <<Word(w)>>) = Clause("wd", <<Word(w)>>)
  BY <1>1, <1>3, FirstClause
<1> QED BY <1>2, <1>4

LEMMA SundaysRead ==
  Sentence(Sundays.period, {One("wday", 1), One("hour", 0), One("minute", 0)})
<1> PICK a, as : a = Clause("wd", <<Word("su")>>) /\ as = {One("wday", 1)}
  OBVIOUS
<1>1. Sentence(a, as)
  BY NameValues, NameClause
<1> PICK b, bs : b = a \o Clause("hr", <<Hour(12, "am")>>) /\ bs = as \cup {One("hour", 0)}
  OBVIOUS
<1>2. Sentence(b, bs)
  BY <1>1, MidnightValue, RecipeWords, RecipeScales, OneClauseFollows
<1> PICK n \in 0 .. 59 : n = 0
  OBVIOUS
<1>3. Sentence(b \o Clause("min", <<Number(n)>>), bs \cup {One("minute", n)})
  BY <1>2, NumberClauses
<1>4. Sundays.period = b \o Clause("min", <<Number(n)>>)
  BY DEF Sundays, Recipe
<1>5. bs \cup {One("minute", n)} = {One("wday", 1), One("hour", 0), One("minute", 0)}
  OBVIOUS
<1> QED BY <1>3, <1>4, <1>5

(* A time of day, to the second.                                           *)
LEMMA TimeFollows ==
  ASSUME NEW s, NEW cs, Sentence(s, cs), NEW h \in 0 .. 59, NEW m \in 0 .. 59
  PROVE  Sentence(((s \o Clause("hr", <<Number(h)>>)) \o Clause("min", <<Number(m)>>))
                    \o Clause("sec", <<Number(0)>>),
                  cs \cup {One("hour", h), One("minute", m), One("second", 0)})
<1> PICK a, as : a = s \o Clause("hr", <<Number(h)>>) /\ as = cs \cup {One("hour", h)}
  OBVIOUS
<1>1. Sentence(a, as)
  BY NumberClauses
<1> PICK b, bs : b = a \o Clause("min", <<Number(m)>>) /\ bs = as \cup {One("minute", m)}
  OBVIOUS
<1>2. Sentence(b, bs)
  BY <1>1, NumberClauses
<1> PICK n \in 0 .. 59 : n = 0
  OBVIOUS
<1>3. Sentence(b \o Clause("sec", <<Number(n)>>), bs \cup {One("second", n)})
  BY <1>2, NumberClauses
<1>4. bs \cup {One("second", n)} = cs \cup {One("hour", h), One("minute", m), One("second", 0)}
  OBVIOUS
<1> QED BY <1>3, <1>4

LEMMA FirstOfMonthRead ==
  Sentence(FirstOfMonth.period,
           {One("mday", 1), One("hour", 14), One("minute", 15), One("second", 0)})
<1> PICK a, as : a = Clause("md", <<Number(1)>>) /\ as = {One("mday", 1)}
  OBVIOUS
<1> PICK n \in 0 .. 59 : n = 1
  OBVIOUS
<1>1. Sentence(<<>> \o Clause("md", <<Number(n)>>), {} \cup {One("mday", n)})
  BY EmptySentence, NumberClauses
<1>2. Word("md") \in RecipeTokens /\ <<Number(n)>> \in Seq(RecipeTokens)
  BY RecipeWords, OneToken
<1>3. <<>> \o Clause("md", <<Number(n)>>) = a /\ {} \cup {One("mday", n)} = as
  BY <1>2, FirstClause
<1>4. Sentence(a, as)
  BY <1>1, <1>3
<1> PICK h \in 0 .. 59, m \in 0 .. 59 : h = 14 /\ m = 15
  OBVIOUS
<1>5. Sentence(((a \o Clause("hr", <<Number(h)>>)) \o Clause("min", <<Number(m)>>))
                 \o Clause("sec", <<Number(0)>>),
               as \cup {One("hour", h), One("minute", m), One("second", 0)})
  BY <1>4, TimeFollows
<1>6. FirstOfMonth.period =
        ((a \o Clause("hr", <<Number(h)>>)) \o Clause("min", <<Number(m)>>))
          \o Clause("sec", <<Number(0)>>)
  BY DEF FirstOfMonth, Recipe
<1>7. as \cup {One("hour", h), One("minute", m), One("second", 0)} =
        {One("mday", 1), One("hour", 14), One("minute", 15), One("second", 0)}
  OBVIOUS
<1> QED BY <1>5, <1>6, <1>7

Span(sc, lo, hi) == [scale |-> sc, ranges |-> {<<lo, hi>>}]

LEMMA WorkDaysRead ==
  Sentence(WorkDays.period,
           {Span("wday", 2, 6), One("hour", 22), One("minute", 0), One("second", 0)})
<1> PICK toks : toks = <<Word("mon"), To, Word("fri")>>
  OBVIOUS
<1> PICK a, as : a = Clause("wd", toks) /\ as = {Span("wday", 2, 6)}
  OBVIOUS
<1> PICK mon \in RecipeTokens, fri \in RecipeTokens : mon = Word("mon") /\ fri = Word("fri")
  BY RecipeWords
<1>1. /\ Word("wd") \in RecipeTokens /\ TableScale("wd") = "wday"
      /\ 2 \in Values("wday", mon) /\ 6 \in Values("wday", fri)
  BY RecipeWords, RecipeScales, NameValues
<1>2. Sentence(<<>> \o Clause("wd", toks),
               {} \cup {[scale |-> "wday", ranges |-> {<<2, 6>>}]})
  BY <1>1, EmptySentence, SpanClauseFollows
<1>3. toks \in Seq(RecipeTokens)
  BY ThreeTokens
<1>4. <<>> \o Clause("wd", toks) = a /\ {} \cup {[scale |-> "wday", ranges |-> {<<2, 6>>}]} = as
  BY <1>1, <1>3, FirstClause DEF Span
<1>5. Sentence(a, as)
  BY <1>2, <1>4
<1> PICK h \in 0 .. 59, m \in 0 .. 59 : h = 22 /\ m = 0
  OBVIOUS
<1>6. Sentence(((a \o Clause("hr", <<Number(h)>>)) \o Clause("min", <<Number(m)>>))
                 \o Clause("sec", <<Number(0)>>),
               as \cup {One("hour", h), One("minute", m), One("second", 0)})
  BY <1>5, TimeFollows
<1>7. WorkDays.period =
        ((a \o Clause("hr", <<Number(h)>>)) \o Clause("min", <<Number(m)>>))
          \o Clause("sec", <<Number(0)>>)
  BY DEF WorkDays, Recipe
<1>8. as \cup {One("hour", h), One("minute", m), One("second", 0)} =
        {Span("wday", 2, 6), One("hour", 22), One("minute", 0), One("second", 0)}
  OBVIOUS
<1> QED BY <1>6, <1>7, <1>8

LEMMA SaturdaysRead ==
  Sentence(Saturdays.period,
           {One("wday", 7), One("hour", 8), One("minute", 0), One("second", 0)})
<1> PICK a, as : a = Clause("wd", <<Word("sa")>>) /\ as = {One("wday", 7)}
  OBVIOUS
<1>1. Sentence(a, as)
  BY NameValues, NameClause
<1> PICK h \in 0 .. 59, m \in 0 .. 59 : h = 8 /\ m = 0
  OBVIOUS
<1>2. Sentence(((a \o Clause("hr", <<Number(h)>>)) \o Clause("min", <<Number(m)>>))
                 \o Clause("sec", <<Number(0)>>),
               as \cup {One("hour", h), One("minute", m), One("second", 0)})
  BY <1>1, TimeFollows
<1>3. Saturdays.period =
        ((a \o Clause("hr", <<Number(h)>>)) \o Clause("min", <<Number(m)>>))
          \o Clause("sec", <<Number(0)>>)
  BY DEF Saturdays, Recipe
<1>4. as \cup {One("hour", h), One("minute", m), One("second", 0)} =
        {One("wday", 7), One("hour", 8), One("minute", 0), One("second", 0)}
  OBVIOUS
<1> QED BY <1>2, <1>3, <1>4

(* Half of the very shy job's period: days of the week and minutes.        *)
LEMMA HalfRead ==
  ASSUME NEW toks \in Seq(RecipeTokens), toks # <<>>, NEW vals,
         \A j \in 1 .. Len(toks) : vals[j] \in Values("wday", toks[j]),
         NEW lo \in 0 .. 59, NEW hi \in 0 .. 59
  PROVE  Sentence(Clause("wday", toks) \o Clause("min", <<Number(lo), To, Number(hi)>>),
                  {[scale |-> "wday", ranges |-> Singles(vals, Len(toks))],
                   Span("minute", lo, hi)})
<1> PICK a, as : /\ a = Clause("wday", toks)
                 /\ as = {[scale |-> "wday", ranges |-> Singles(vals, Len(toks))]}
  OBVIOUS
<1>1. /\ Word("wday") \in RecipeTokens /\ TableScale("wday") = "wday"
      /\ Word("min") \in RecipeTokens /\ TableScale("min") = "minute"
  BY RecipeWords, RecipeScales
<1>2. Sentence(<<>> \o Clause("wday", toks),
               {} \cup {[scale |-> "wday", ranges |-> Singles(vals, Len(toks))]})
  BY <1>1, EmptySentence, ValuesClauseFollows
<1>3. Sentence(a, as)
  BY <1>1, <1>2, FirstClause
<1> PICK x \in RecipeTokens, y \in RecipeTokens : x = Number(lo) /\ y = Number(hi)
  BY RecipeWords
<1>4. lo \in Values("minute", x) /\ hi \in Values("minute", y)
  BY NumberValue
<1>5. Sentence(a \o Clause("min", <<x, To, y>>),
               as \cup {[scale |-> "minute", ranges |-> {<<lo, hi>>}]})
  BY <1>1, <1>3, <1>4, SpanClauseFollows
<1> QED BY <1>5 DEF Span

Odd == <<1, 3, 5, 7>>
Even == <<2, 4, 6>>

LEMMA ShyRead ==
  \E a, b :
    /\ Shy = (a \o <<Comma>>) \o b
    /\ Sentence(a, {[scale |-> "wday", ranges |-> Singles(Odd, 4)], Span("minute", 0, 29)})
    /\ Sentence(b, {[scale |-> "wday", ranges |-> Singles(Even, 3)], Span("minute", 30, 59)})
<1>1. \A n \in 0 .. 59 : Number(n) \in RecipeTokens /\ n \in Values("wday", Number(n))
  BY RecipeWords, NumberValue
<1>2. PICK odd : odd = <<Number(1), Number(3), Number(5), Number(7)>>
  OBVIOUS
<1>3. PICK even : even = <<Number(2), Number(4), Number(6)>>
  OBVIOUS
<1>4. /\ odd \in Seq(RecipeTokens) /\ Len(odd) = 4 /\ odd # <<>>
      /\ \A j \in 1 .. 4 : Odd[j] \in Values("wday", odd[j])
  <2>1. odd \in [1 .. 4 -> RecipeTokens]
    BY <1>1, <1>2
  <2> PICK n \in Nat : n = 4
    OBVIOUS
  <2>2. odd \in UNION {[1 .. m -> RecipeTokens] : m \in Nat}
    BY <2>1
  <2>3. odd \in Seq(RecipeTokens)
    BY <2>2, SeqDef
  <2>4. Len(odd) = 4 /\ odd # <<>>
    BY <1>2
  <2>5. ASSUME NEW j \in 1 .. 4 PROVE Odd[j] \in 0 .. 59 /\ odd[j] = Number(Odd[j])
    BY <1>2 DEF Odd
  <2> QED BY <1>1, <2>3, <2>4, <2>5
<1>5. /\ even \in Seq(RecipeTokens) /\ Len(even) = 3 /\ even # <<>>
      /\ \A j \in 1 .. 3 : Even[j] \in Values("wday", even[j])
  <2>1. even \in [1 .. 3 -> RecipeTokens]
    BY <1>1, <1>3
  <2> PICK n \in Nat : n = 3
    OBVIOUS
  <2>2. even \in UNION {[1 .. m -> RecipeTokens] : m \in Nat}
    BY <2>1
  <2>3. even \in Seq(RecipeTokens)
    BY <2>2, SeqDef
  <2>4. Len(even) = 3 /\ even # <<>>
    BY <1>3
  <2>5. ASSUME NEW j \in 1 .. 3 PROVE Even[j] \in 0 .. 59 /\ even[j] = Number(Even[j])
    BY <1>3 DEF Even
  <2> QED BY <1>1, <2>3, <2>4, <2>5
<1>6. PICK ca, cb, cc, cd :
        /\ ca = Clause("wday", odd) /\ cb = Clause("min", <<Number(0), To, Number(29)>>)
        /\ cc = Clause("wday", even) /\ cd = Clause("min", <<Number(30), To, Number(59)>>)
  OBVIOUS
<1>7. Sentence(ca \o cb,
               {[scale |-> "wday", ranges |-> Singles(Odd, 4)], Span("minute", 0, 29)})
  <2> PICK lo \in 0 .. 59, hi \in 0 .. 59 : lo = 0 /\ hi = 29
    OBVIOUS
  <2>1. Sentence(Clause("wday", odd) \o Clause("min", <<Number(lo), To, Number(hi)>>),
                 {[scale |-> "wday", ranges |-> Singles(Odd, Len(odd))],
                  Span("minute", lo, hi)})
    BY <1>4, HalfRead
  <2> QED BY <1>4, <1>6, <2>1
<1>8. Sentence(cc \o cd,
               {[scale |-> "wday", ranges |-> Singles(Even, 3)], Span("minute", 30, 59)})
  <2> PICK lo \in 0 .. 59, hi \in 0 .. 59 : lo = 30 /\ hi = 59
    OBVIOUS
  <2>1. Sentence(Clause("wday", even) \o Clause("min", <<Number(lo), To, Number(hi)>>),
                 {[scale |-> "wday", ranges |-> Singles(Even, Len(even))],
                  Span("minute", lo, hi)})
    BY <1>5, HalfRead
  <2> QED BY <1>5, <1>6, <2>1
<1>9. Shy = (((ca \o cb) \o <<Comma>>) \o cc) \o cd
  BY <1>2, <1>3, <1>6 DEF Shy
<1>10. cc \in Seq(RecipeTokens) /\ cd \in Seq(RecipeTokens)
  <2>1. Word("wday") \in RecipeTokens /\ Word("min") \in RecipeTokens
    BY RecipeWords
  <2>2. Number(30) \in RecipeTokens /\ Number(59) \in RecipeTokens
    BY <1>1
  <2>3. <<Number(30), To, Number(59)>> \in Seq(RecipeTokens)
    BY <2>2, ThreeTokens
  <2> QED BY <1>5, <1>6, <2>1, <2>3, ClauseIsSequence
<1>11. ca \o cb \in Seq(RecipeTokens)
  BY <1>7 DEF Sentence
<1>12. (((ca \o cb) \o <<Comma>>) \o cc) \o cd = ((ca \o cb) \o <<Comma>>) \o (cc \o cd)
  BY <1>10, <1>11, CommaAssociative
<1> QED BY <1>7, <1>8, <1>9, <1>12

-----------------------------------------------------------------------------
(* The calendar.                                                           *)

LEMMA DaysAndSeconds ==
  /\ Days \subseteq Nat /\ Days # {} /\ Seconds \subseteq Nat /\ Seconds # {}
  /\ \A d \in Days : \E y \in Years : DaysBefore(y) <= d /\ d < DaysBefore(y + 1)
<1>1. Seconds \subseteq Nat /\ Seconds # {}
  BY SecondsAssumption
<1>2. /\ Days \subseteq Nat /\ Days # {}
      /\ \A d \in Days : \E y \in Years : DaysBefore(y) <= d /\ d < DaysBefore(y + 1)
  BY DaysAssumption, Zenon
<1> QED BY <1>1, <1>2, Zenon

(* Every day is of a year, a month and a day of the month.                 *)
LEMMA LeapYears ==
  ASSUME NEW y \in Nat
  PROVE  Leap(y) \in {0, 1}
BY DEF Leap, LeapsUpTo

LEMMA YearLengths ==
  ASSUME NEW y \in Nat
  PROVE  DaysBefore(y) \in Int /\ DaysBefore(y + 1) = DaysBefore(y) + 365 + Leap(y)
<1>1. LeapsUpTo(1969) \in Int /\ LeapsUpTo(y) \in Int /\ LeapsUpTo(y - 1) \in Int
  BY DEF LeapsUpTo
<1>2. y + 1 - 1 = y
  OBVIOUS
<1> QED BY <1>1, <1>2 DEF DaysBefore, Leap

LEMMA DayOfYear ==
  ASSUME NEW d \in Days
  PROVE  Year(d) \in Nat /\ Ordinal(d) \in 1 .. 365 + Leap(Year(d))
<1>1. Year(d) \in Years /\ DaysBefore(Year(d)) <= d /\ d < DaysBefore(Year(d) + 1)
  BY DaysAndSeconds, Zenon DEF Year
<1>2. Year(d) \in Nat
  BY <1>1, YearsAssumption
<1> PICK y \in Nat : y = Year(d)
  BY <1>2
<1>3. d \in Nat
  BY DaysAndSeconds, Zenon
<1>4. Leap(y) \in Int
  BY LeapYears
<1>5. DaysBefore(y) \in Int /\ DaysBefore(y + 1) = DaysBefore(y) + 365 + Leap(y)
  BY YearLengths
<1> QED BY <1>1, <1>3, <1>4, <1>5 DEF Ordinal

LEMMA MonthLengths ==
  ASSUME NEW y \in Nat
  PROVE  /\ BeforeMonth(y, 1) = 0
         /\ \A m \in 1 .. 12 : BeforeMonth(y, m) \in Int
         /\ \A m \in 1 .. 11 : BeforeMonth(y, m + 1) - BeforeMonth(y, m) \in 28 .. 31
         /\ BeforeMonth(y, 12) = 334 + Leap(y)
<1>1. Leap(y) \in {0, 1}
  BY LeapYears
<1> QED BY <1>1 DEF BeforeMonth, Before

LEMMA DayOfMonth ==
  ASSUME NEW d \in Days
  PROVE  MonthDay(d) \in 1 .. 31
<1> PICK y \in Nat, o \in Int : y = Year(d) /\ o = Ordinal(d) /\ o \in 1 .. 365 + Leap(y)
  BY DayOfYear, LeapYears
<1>1. Leap(y) \in {0, 1}
  BY LeapYears
<1> DEFINE In(m) == BeforeMonth(y, m) < o /\ (m = 12 \/ BeforeMonth(y, m + 1) >= o)
<1>2. \E m \in 1 .. 12 : In(m)
  <2> SUFFICES ASSUME \A m \in 1 .. 12 : ~In(m) PROVE FALSE
    OBVIOUS
  <2>1. BeforeMonth(y, 1) < o /\ \A m \in 1 .. 12 : BeforeMonth(y, m) \in Int
    BY MonthLengths
  <2>2. \A m \in 1 .. 11 : BeforeMonth(y, m) < o => BeforeMonth(y, m + 1) < o
    BY <2>1
  <2>3. \A m \in 1 .. 11 : m + 1 \in 1 .. 12
    OBVIOUS
  <2>4. /\ BeforeMonth(y, 2) < o /\ BeforeMonth(y, 3) < o /\ BeforeMonth(y, 4) < o
        /\ BeforeMonth(y, 5) < o /\ BeforeMonth(y, 6) < o /\ BeforeMonth(y, 7) < o
        /\ BeforeMonth(y, 8) < o /\ BeforeMonth(y, 9) < o /\ BeforeMonth(y, 10) < o
        /\ BeforeMonth(y, 11) < o /\ BeforeMonth(y, 12) < o
    BY <2>1, <2>2
  <2> QED BY <2>4
<1>3. Month(d) \in 1 .. 12 /\ In(Month(d))
  BY <1>2 DEF Month
<1> PICK m \in 1 .. 12 : m = Month(d)
  BY <1>3
<1>4. MonthDay(d) = o - BeforeMonth(y, m)
  BY DEF MonthDay
<1>5. BeforeMonth(y, m) < o /\ (m = 12 \/ BeforeMonth(y, m + 1) >= o)
  BY <1>3
<1>6. CASE m = 12
  <2>1. BeforeMonth(y, m) = 334 + Leap(y)
    BY <1>6, MonthLengths
  <2> QED BY <1>1, <1>4, <1>5, <2>1
<1>7. CASE m \in 1 .. 11
  <2>1. /\ BeforeMonth(y, m) \in Int /\ BeforeMonth(y, m + 1) \in Int
        /\ BeforeMonth(y, m + 1) - BeforeMonth(y, m) \in 28 .. 31
    <3>1. m + 1 \in 1 .. 12
      BY <1>7
    <3> QED BY <1>7, <3>1, MonthLengths
  <2> QED BY <1>4, <1>5, <1>7, <2>1
<1> QED BY <1>6, <1>7

-----------------------------------------------------------------------------
(* The evaluation of the recipes.                                          *)

(* It is one of the days and seconds looked at.                            *)
Clock == day \in Days /\ second \in Seconds

LEMMA ClockAlways == Spec => []Clock
<1>1. Init => Clock
  <2>1. ASSUME NEW T \in SUBSET Nat, T # {} PROVE Min(T) \in T
    <3>1. \E x \in T : \A y \in T : x <= y
      BY <2>1, LeastElement
    <3> QED BY <3>1 DEF Min
  <2>2. Days \in SUBSET Nat /\ Days # {} /\ Seconds \in SUBSET Nat /\ Seconds # {}
    BY DaysAndSeconds, Zenon
  <2>3. Min(Days) \in Days /\ Min(Seconds) \in Seconds
    BY <2>1, <2>2
  <2> QED BY <2>3 DEF Init, Clock
<1>2. Clock /\ [Next]_vars => Clock'
  BY DEF Clock, Next, Write, Pass, vars
<1> QED BY <1>1, <1>2, PTL DEF Spec

(* What the scales show.                                                   *)
LEMMA ScalesShow ==
  ASSUME Clock
  PROVE  /\ ScaleValue("wday") = DaysFromSunday(day) + 1 /\ DaysFromSunday(day) \in 0 .. 6
         /\ ScaleValue("mday") = MonthDay(day) /\ MonthDay(day) \in 1 .. 31
         /\ ScaleValue("hour") = second \div 3600 /\ second \div 3600 \in Int
         /\ ScaleValue("minute") = (second \div 60) % 60 /\ (second \div 60) % 60 \in 0 .. 59
         /\ ScaleValue("second") = second % 60 /\ second % 60 \in Int
<1>1. day \in Nat /\ second \in Nat
  BY DaysAndSeconds, Zenon DEF Clock
<1>2. /\ ScaleValue("wday") = WeekDay(day) /\ ScaleValue("mday") = MonthDay(day)
      /\ ScaleValue("hour") = second \div 3600 /\ ScaleValue("minute") = (second \div 60) % 60
      /\ ScaleValue("second") = second % 60
  BY DEF ScaleValue
<1>3. DaysFromSunday(day) \in 0 .. 6
  BY <1>1 DEF DaysFromSunday
<1>4. MonthDay(day) \in 1 .. 31
  BY DayOfMonth DEF Clock
<1>5. second \div 3600 \in Int /\ second \div 60 \in Int /\ second % 60 \in Int
  BY <1>1
<1>6. (second \div 60) % 60 \in 0 .. 59
  BY <1>5
<1> QED BY <1>2, <1>3, <1>4, <1>5, <1>6 DEF WeekDay

LEMMA ClausesMatch ==
  ASSUME NEW sc, ScaleValue(sc) \in Int, NEW lo \in Int, NEW hi \in Int
  PROVE  /\ ClauseMatches(One(sc, lo)) <=> ScaleValue(sc) = lo
         /\ ClauseMatches(Span(sc, lo, hi)) <=> ScaleValue(sc) \in lo .. hi
<1> PICK x \in Int : x = ScaleValue(sc)
  OBVIOUS
<1>1. /\ One(sc, lo).scale = sc /\ One(sc, lo).ranges = {<<lo, lo>>}
      /\ Span(sc, lo, hi).scale = sc /\ Span(sc, lo, hi).ranges = {<<lo, hi>>}
  BY DEF One, Span
<1>2. \A c : ClauseMatches(c) <=>
        \E r \in c.ranges : r[1] <= ScaleValue(c.scale) /\ ScaleValue(c.scale) <= r[2]
  BY Zenon DEF ClauseMatches
<1>3. ClauseMatches(One(sc, lo)) <=> lo <= x /\ x <= lo
  <2>1. ClauseMatches(One(sc, lo)) <=>
          \E r \in One(sc, lo).ranges :
            r[1] <= ScaleValue(One(sc, lo).scale) /\ ScaleValue(One(sc, lo).scale) <= r[2]
    BY <1>2, Zenon
  <2>2. ClauseMatches(One(sc, lo)) <=> \E r \in {<<lo, lo>>} : r[1] <= x /\ x <= r[2]
    BY <1>1, <2>1
  <2> QED BY <2>2
<1>4. ClauseMatches(Span(sc, lo, hi)) <=> lo <= x /\ x <= hi
  <2>1. ClauseMatches(Span(sc, lo, hi)) <=>
          \E r \in Span(sc, lo, hi).ranges :
            /\ r[1] <= ScaleValue(Span(sc, lo, hi).scale)
            /\ ScaleValue(Span(sc, lo, hi).scale) <= r[2]
    BY <1>2, Zenon
  <2>2. ClauseMatches(Span(sc, lo, hi)) <=> \E r \in {<<lo, hi>>} : r[1] <= x /\ x <= r[2]
    BY <1>1, <2>1
  <2> QED BY <2>2
<1> QED BY <1>3, <1>4

LEMMA ClausesHold ==
  ASSUME Clock, NEW v \in Int, NEW w \in Int
  PROVE  /\ ClauseMatches(One("wday", v)) <=> DaysFromSunday(day) + 1 = v
         /\ ClauseMatches(Span("wday", v, w)) <=> DaysFromSunday(day) + 1 \in v .. w
         /\ ClauseMatches(One("mday", v)) <=> MonthDay(day) = v
         /\ ClauseMatches(One("hour", v)) <=> second \div 3600 = v
         /\ ClauseMatches(One("minute", v)) <=> (second \div 60) % 60 = v
         /\ ClauseMatches(Span("minute", v, w)) <=> (second \div 60) % 60 \in v .. w
         /\ ClauseMatches(One("second", v)) <=> second % 60 = v
<1>1. /\ ScaleValue("wday") \in Int /\ ScaleValue("mday") \in Int
      /\ ScaleValue("hour") \in Int /\ ScaleValue("minute") \in Int
      /\ ScaleValue("second") \in Int
  BY ScalesShow
<1>2. /\ ClauseMatches(One("wday", v)) <=> ScaleValue("wday") = v
      /\ ClauseMatches(Span("wday", v, w)) <=> ScaleValue("wday") \in v .. w
  BY <1>1, ClausesMatch
<1>3. /\ ClauseMatches(One("minute", v)) <=> ScaleValue("minute") = v
      /\ ClauseMatches(Span("minute", v, w)) <=> ScaleValue("minute") \in v .. w
  BY <1>1, ClausesMatch
<1>4. /\ ClauseMatches(One("mday", v)) <=> ScaleValue("mday") = v
      /\ ClauseMatches(One("hour", v)) <=> ScaleValue("hour") = v
      /\ ClauseMatches(One("second", v)) <=> ScaleValue("second") = v
  BY <1>1, ClausesMatch
<1>5. /\ ScaleValue("wday") = DaysFromSunday(day) + 1 /\ ScaleValue("mday") = MonthDay(day)
      /\ ScaleValue("hour") = second \div 3600 /\ ScaleValue("second") = second % 60
      /\ ScaleValue("minute") = (second \div 60) % 60
  BY ScalesShow
<1> QED BY <1>2, <1>3, <1>4, <1>5

(* At the start of a minute a recipe's period holds exactly when its       *)
(* crontab line is due.                                                    *)
LEMMA SundaysAgree ==
  ASSUME Clock, second % 60 = 0
  PROVE  InPeriod(Sundays.period) <=> Due(Sundays)
<1>1. InPeriod(Sundays.period) <=>
        /\ ClauseMatches(One("wday", 1)) /\ ClauseMatches(One("hour", 0))
        /\ ClauseMatches(One("minute", 0))
  BY SundaysRead, SentenceHolds
<1>2. /\ ClauseMatches(One("wday", 1)) <=> DaysFromSunday(day) + 1 = 1
      /\ ClauseMatches(One("hour", 0)) <=> second \div 3600 = 0
      /\ ClauseMatches(One("minute", 0)) <=> (second \div 60) % 60 = 0
  BY ClausesHold
<1>3. /\ Sundays.minutes = {0} /\ Sundays.hours = {0} /\ Sundays.mdays = 1 .. 31
      /\ Sundays.wdays = {0}
  BY DEF Sundays, Recipe
<1>4. DaysFromSunday(day) + 1 = 1 <=> DaysFromSunday(day) \in {0}
  BY ScalesShow
<1> QED BY <1>1, <1>2, <1>3, <1>4, ScalesShow DEF Due

LEMMA FirstOfMonthAgrees ==
  ASSUME Clock, second % 60 = 0
  PROVE  InPeriod(FirstOfMonth.period) <=> Due(FirstOfMonth)
<1>1. InPeriod(FirstOfMonth.period) <=>
        /\ ClauseMatches(One("mday", 1)) /\ ClauseMatches(One("hour", 14))
        /\ ClauseMatches(One("minute", 15)) /\ ClauseMatches(One("second", 0))
  BY FirstOfMonthRead, SentenceHolds
<1>2. /\ ClauseMatches(One("mday", 1)) <=> MonthDay(day) = 1
      /\ ClauseMatches(One("hour", 14)) <=> second \div 3600 = 14
      /\ ClauseMatches(One("minute", 15)) <=> (second \div 60) % 60 = 15
      /\ ClauseMatches(One("second", 0)) <=> second % 60 = 0
  BY ClausesHold
<1>3. /\ FirstOfMonth.minutes = {15} /\ FirstOfMonth.hours = {14}
      /\ FirstOfMonth.mdays = {1} /\ FirstOfMonth.wdays = 0 .. 6
  BY DEF FirstOfMonth, Recipe
<1> QED BY <1>1, <1>2, <1>3, ScalesShow DEF Due

LEMMA WorkDaysAgree ==
  ASSUME Clock, second % 60 = 0
  PROVE  InPeriod(WorkDays.period) <=> Due(WorkDays)
<1>1. InPeriod(WorkDays.period) <=>
        /\ ClauseMatches(Span("wday", 2, 6)) /\ ClauseMatches(One("hour", 22))
        /\ ClauseMatches(One("minute", 0)) /\ ClauseMatches(One("second", 0))
  BY WorkDaysRead, SentenceHolds
<1>2. /\ ClauseMatches(Span("wday", 2, 6)) <=> DaysFromSunday(day) + 1 \in 2 .. 6
      /\ ClauseMatches(One("hour", 22)) <=> second \div 3600 = 22
      /\ ClauseMatches(One("minute", 0)) <=> (second \div 60) % 60 = 0
      /\ ClauseMatches(One("second", 0)) <=> second % 60 = 0
  BY ClausesHold
<1>3. /\ WorkDays.minutes = {0} /\ WorkDays.hours = {22}
      /\ WorkDays.mdays = 1 .. 31 /\ WorkDays.wdays = 1 .. 5
  BY DEF WorkDays, Recipe
<1>4. DaysFromSunday(day) + 1 \in 2 .. 6 <=> DaysFromSunday(day) \in 1 .. 5
  BY ScalesShow
<1> QED BY <1>1, <1>2, <1>3, <1>4, ScalesShow DEF Due

LEMMA SaturdaysAgree ==
  ASSUME Clock, second % 60 = 0
  PROVE  InPeriod(Saturdays.period) <=> Due(Saturdays)
<1>1. InPeriod(Saturdays.period) <=>
        /\ ClauseMatches(One("wday", 7)) /\ ClauseMatches(One("hour", 8))
        /\ ClauseMatches(One("minute", 0)) /\ ClauseMatches(One("second", 0))
  BY SaturdaysRead, SentenceHolds
<1>2. /\ ClauseMatches(One("wday", 7)) <=> DaysFromSunday(day) + 1 = 7
      /\ ClauseMatches(One("hour", 8)) <=> second \div 3600 = 8
      /\ ClauseMatches(One("minute", 0)) <=> (second \div 60) % 60 = 0
      /\ ClauseMatches(One("second", 0)) <=> second % 60 = 0
  BY ClausesHold
<1>3. /\ Saturdays.minutes = {0} /\ Saturdays.hours = {8}
      /\ Saturdays.mdays = 1 .. 31 /\ Saturdays.wdays = {6}
  BY DEF Saturdays, Recipe
<1>4. DaysFromSunday(day) + 1 = 7 <=> DaysFromSunday(day) \in {6}
  BY ScalesShow
<1> QED BY <1>1, <1>2, <1>3, <1>4, ScalesShow DEF Due

(* The recipes of the README and of the example configuration hold, at the *)
(* start of every minute of any day, exactly when the crontab lines beside *)
(* them are due.                                                           *)
THEOREM RecipesAreCrontabLines == Spec => []RecipesAgreeWithCron
<1>1. Clock => RecipesAgreeWithCron
  <2> SUFFICES ASSUME Clock, second % 60 = 0, NEW r \in Recipes
               PROVE  InPeriod(r.period) = Due(r)
    BY DEF RecipesAgreeWithCron
  <2>1. r \in {Sundays, FirstOfMonth, WorkDays, Saturdays}
    BY DEF Recipes
  <2>2. InPeriod(r.period) <=> Due(r)
    BY <2>1, SundaysAgree, FirstOfMonthAgrees, WorkDaysAgree, SaturdaysAgree
  <2>3. InPeriod(r.period) \in BOOLEAN /\ Due(r) \in BOOLEAN
    BY Zenon DEF InPeriod, Due
  <2> QED BY <2>2, <2>3
<1> QED BY <1>1, ClockAlways, PTL

(* The example's very-shy-job has its turn in one half of every hour and   *)
(* in that half only: the first on four days of the week, the second on    *)
(* the other three.                                                        *)
THEOREM ShyJobHasItsTurn == Spec => []ShyJobAlternates
<1>1. Clock => ShyJobAlternates
  <2> SUFFICES ASSUME Clock PROVE ShyJobAlternates
    OBVIOUS
  <2> DEFINE On(vals, n) == [scale |-> "wday", ranges |-> Singles(vals, n)]
  <2>1. InPeriod(Shy) <=>
          \/ ClauseMatches(On(Odd, 4)) /\ ClauseMatches(Span("minute", 0, 29))
          \/ ClauseMatches(On(Even, 3)) /\ ClauseMatches(Span("minute", 30, 59))
    BY ShyRead, CommaHolds
  <2> PICK w \in 0 .. 6 : w = DaysFromSunday(day)
    BY ScalesShow
  <2> PICK m \in 0 .. 59 : m = (second \div 60) % 60
    BY ScalesShow
  <2>2. /\ ClauseMatches(Span("minute", 0, 29)) <=> m < 30
        /\ ClauseMatches(Span("minute", 30, 59)) <=> ~(m < 30)
    BY ClausesHold
  <2>3. ASSUME NEW vals, NEW n \in Nat
        PROVE  ClauseMatches(On(vals, n)) <=>
                 \E j \in 1 .. n : vals[j] <= w + 1 /\ w + 1 <= vals[j]
    <3>1. On(vals, n).scale = "wday" /\ On(vals, n).ranges = Singles(vals, n)
      OBVIOUS
    <3>2. ScaleValue("wday") = w + 1
      BY ScalesShow
    <3>3. (\E r \in Singles(vals, n) : r[1] <= w + 1 /\ w + 1 <= r[2]) <=>
            \E j \in 1 .. n : vals[j] <= w + 1 /\ w + 1 <= vals[j]
      <4>1. \A r : r \in Singles(vals, n) <=> \E j \in 1 .. n : r = <<vals[j], vals[j]>>
        BY DEF Singles
      <4>2. ASSUME NEW r \in Singles(vals, n), r[1] <= w + 1, w + 1 <= r[2]
            PROVE  \E j \in 1 .. n : vals[j] <= w + 1 /\ w + 1 <= vals[j]
        <5> PICK j \in 1 .. n : r = <<vals[j], vals[j]>>
          BY <4>1
        <5>1. r[1] = vals[j] /\ r[2] = vals[j]
          OBVIOUS
        <5> QED BY <4>2, <5>1
      <4>3. ASSUME NEW j \in 1 .. n, vals[j] <= w + 1, w + 1 <= vals[j]
            PROVE  \E r \in Singles(vals, n) : r[1] <= w + 1 /\ w + 1 <= r[2]
        <5> PICK r \in Singles(vals, n) : r = <<vals[j], vals[j]>>
          BY <4>1
        <5>1. r[1] = vals[j] /\ r[2] = vals[j]
          OBVIOUS
        <5> QED BY <4>3, <5>1
      <4> QED BY <4>2, <4>3
    <3> HIDE DEF On
    <3> QED BY <3>1, <3>2, <3>3, Zenon DEF ClauseMatches
  <2> HIDE DEF On
  <2>4. ClauseMatches(On(Odd, 4)) <=> w \in {0, 2, 4, 6}
    BY <2>3 DEF Odd
  <2>5. ClauseMatches(On(Even, 3)) <=> w \in {1, 3, 5}
    BY <2>3 DEF Even
  <2>6. InPeriod(Shy) <=> (m < 30 <=> w \in {0, 2, 4, 6})
    BY <2>1, <2>2, <2>4, <2>5
  <2> QED BY <2>6 DEF ShyJobAlternates, FirstHalf, InPeriod
<1> QED BY <1>1, ClockAlways, PTL
=============================================================================
