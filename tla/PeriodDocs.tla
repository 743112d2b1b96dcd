----------------------------- MODULE PeriodDocs -----------------------------
(***************************************************************************)
(* What is written about periods: the grammar and the table of values of   *)
(* the README, its crontab comparisons, the comments of the example        *)
(* configuration and of period.rs. period.rs is held against it.           *)
(***************************************************************************)
EXTENDS Period

(* The table of scales: value of a token, none if it has none.             *)
TableScale(w) ==
  CASE w \in {"year", "yr"} -> "year" [] w \in {"month", "mo"} -> "month"
    [] w \in {"week", "wk"} -> "week" [] w \in {"yday", "yd"} -> "yday"
    [] w \in {"mday", "md"} -> "mday" [] w \in {"wday", "wd"} -> "wday"
    [] w \in {"hour", "hr"} -> "hour" [] w \in {"minute", "min"} -> "minute"
    [] w \in {"second", "sec"} -> "second" [] OTHER -> "none"

TableNumbers(scale) ==
  CASE scale = "year" -> 0 .. 9999 [] scale = "month" -> 1 .. 12
    [] scale = "week" -> 1 .. 6 [] scale = "yday" -> 1 .. 365
    [] scale = "mday" -> 1 .. 31 [] scale = "wday" -> 1 .. 7
    [] scale = "hour" -> 0 .. 23 [] OTHER -> 0 .. 59

TableDays == <<"su", "mo", "tu", "we", "th", "fr", "sa">>
TableHours == [n \in 0 .. 23 |->
  IF n = 0 THEN Hour(12, "am") ELSE IF n < 12 THEN Hour(n, "am")
  ELSE IF n = 12 THEN Hour(12, "pm") ELSE Hour(n - 12, "pm")]

TableValues(scale, tok) ==
  {n \in TableNumbers(scale) :
     \/ tok = Number(n)
     \/ scale = "month" /\ tok = Word(Months[n])
     \/ scale = "wday" /\ tok = Word(TableDays[n])
     \/ scale = "hour" /\ tok = TableHours[n]
     \/ scale = "hour" /\ n = 12 /\ tok = Hour(12, "noon")}

(* The grammar of the comment at the head of period.rs: the meanings of    *)
(* s[a + 1 .. b] as a range, as ranges, as a clause and as a sub-period.   *)
RangeMeanings(scale, s, a, b) ==
  CASE b = a + 1 -> {<<v, v>> : v \in TableValues(scale, s[b])}
    [] b = a + 3 /\ s[a + 2] = To
         -> TableValues(scale, s[a + 1]) \X TableValues(scale, s[b])
    [] OTHER -> {}

(* One or more of something from position a on, up to each position: one   *)
(* after none or after one or more.                                        *)
AndOne(before, meanings) == {xs \cup {x} : xs \in before, x \in meanings}
OneOrMore(meanings, a, n) ==
  LET upTo[b \in a .. n] ==
        IF b = a THEN {{}}
        ELSE UNION {AndOne(upTo[c], meanings[<<c, b>>]) : c \in a .. b - 1}
  IN upTo

RangesMeanings(scale, s, a) ==
  OneOrMore([cut \in (a .. Len(s)) \X (a .. Len(s)) |->
               RangeMeanings(scale, s, cut[1], cut[2])], a, Len(s))

LooksLikeClause(s, a, b) ==
  /\ b - a > 3
  /\ ~IsNumber(s[a + 1]) /\ TableScale(s[a + 1].word) # "none"
  /\ s[a + 2] = OpenBrace
  /\ s[b] = CloseBrace

ClauseMeanings(s, a, b) ==
  LET scale == TableScale(s[a + 1].word)
  IN IF LooksLikeClause(s, a, b)
     THEN {[scale |-> scale, ranges |-> rs] :
             rs \in RangesMeanings(scale, s, a + 2)[b - 1]}
     ELSE {}

SubPeriodMeanings(s) ==
  OneOrMore([cut \in (0 .. Len(s)) \X (0 .. Len(s)) |->
               ClauseMeanings(s, cut[1], cut[2])], 0, Len(s))

Meanings(s) == SubPeriodMeanings(s)[Len(s)] \ {{}}

(* Every value that is read is one of the table, or of neither.            *)
InTable(s) ==
  LET reading == Reading(s)
  IN \A i \in 1 .. Len(s) :
       reading[i - 1].expects \in {"range", "dash", "high"} =>
         Values(reading[i - 1].scale, s[i]) = TableValues(reading[i - 1].scale, s[i])

(* The parser takes exactly the sentences of the documented grammar and    *)
(* gives each its one meaning, whatever an unfinished or misplaced piece   *)
(* precedes or follows (for the values of the table; it takes others too). *)
ParserMeetsGrammar == InTable(expr) => Meanings(expr) = {Parse(expr)} \ {{}}

(* What stands between two commas or ends, wherever the commas are.        *)
IsPart(e, a, b) ==
  /\ a = 1 \/ e[a - 1] = Comma
  /\ b = Len(e) \/ e[b + 1] = Comma
  /\ \A i \in a .. b : e[i] # Comma
Between(e) ==
  {SubSeq(e, cut[1], cut[2]) : cut \in
     {p \in (1 .. Len(e) + 1) \X (0 .. Len(e)) :
        p[1] <= p[2] + 1 /\ IsPart(e, p[1], p[2])}}

(* The comments of period.rs: an expression holds if a part of it does; a  *)
(* part that is a sentence holds if all its clauses do, "parse failure --  *)
(* be lenient, treat as match" any other.                                  *)
Holds(part) == \A meaning \in Meanings(part) : \A c \in meaning : ClauseMatches(c)

(* A typing error makes a period hold whatever the time, also one in a     *)
(* single part among sentences that do not hold, or a comma in braces; and *)
(* no sentence is taken for an error or an error for a sentence.           *)
ErrorsMatch ==
  (expr # <<>> /\ \A part \in Between(expr) : InTable(part)) =>
    InPeriod(expr) = \E part \in Between(expr) : Holds(part)

-----------------------------------------------------------------------------
(* Recipes.                                                                *)

Clause(scale, toks) == <<Word(scale), OpenBrace>> \o toks \o <<CloseBrace>>

(* Periods of the README and of the example configuration, each with the   *)
(* crontab line it stands for; in a crontab Sunday is 0.                   *)
Recipe(period, minutes, hours, mdays, wdays) ==
  [period |-> period, minutes |-> minutes, hours |-> hours, mdays |-> mdays,
   wdays |-> wdays]
Sundays == Recipe(
  Clause("wd", <<Word("su")>>) \o Clause("hr", <<Hour(12, "am")>>)
    \o Clause("min", <<Number(0)>>),
  {0}, {0}, 1 .. 31, {0})
FirstOfMonth == Recipe(
  Clause("md", <<Number(1)>>) \o Clause("hr", <<Number(14)>>)
    \o Clause("min", <<Number(15)>>) \o Clause("sec", <<Number(0)>>),
  {15}, {14}, {1}, 0 .. 6)
WorkDays == Recipe(
  Clause("wd", <<Word("mon"), To, Word("fri")>>) \o Clause("hr", <<Number(22)>>)
    \o Clause("min", <<Number(0)>>) \o Clause("sec", <<Number(0)>>),
  {0}, {22}, 1 .. 31, 1 .. 5)
Saturdays == Recipe(
  Clause("wd", <<Word("sa")>>) \o Clause("hr", <<Number(8)>>)
    \o Clause("min", <<Number(0)>>) \o Clause("sec", <<Number(0)>>),
  {0}, {8}, 1 .. 31, {6})
Recipes == {Sundays, FirstOfMonth, WorkDays, Saturdays}

Due(r) == /\ (second \div 60) % 60 \in r.minutes
          /\ second \div 3600 \in r.hours
          /\ MonthDay(day) \in r.mdays
          /\ DaysFromSunday(day) \in r.wdays

(* At the start of a minute a recipe's period holds exactly when its       *)
(* crontab line is due: hours of twelve, Sunday as the first day of the    *)
(* week and days of the month over several years.                          *)
RecipesAgreeWithCron ==
  second % 60 = 0 => \A r \in Recipes : InPeriod(r.period) = Due(r)

(* The example's very-shy-job runs in the first half of an hour on four    *)
(* days and in the second half on the other three: at every instant it     *)
(* has a turn exactly once in the hour.                                    *)
Shy == Clause("wday", <<Number(1), Number(3), Number(5), Number(7)>>)
         \o Clause("min", <<Number(0), To, Number(29)>>)
         \o <<Comma>>
         \o Clause("wday", <<Number(2), Number(4), Number(6)>>)
         \o Clause("min", <<Number(30), To, Number(59)>>)
FirstHalf == (second \div 60) % 60 < 30
ShyJobAlternates ==
  InPeriod(Shy) = (FirstHalf = (DaysFromSunday(day) \in {0, 2, 4, 6}))
=============================================================================
