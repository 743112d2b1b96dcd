------------------------------- MODULE Period -------------------------------
(***************************************************************************)
(* Periods (src/period.rs): parser and evaluation. An expression is a      *)
(* sequence of tokens: a word (a run of letters), a sign, or a number,     *)
(* with am, pm or noon if it has one of them (3am). Other letters right    *)
(* after a number are left for the next value, as if there were a blank    *)
(* between, so that 3su is written as the tokens 3 and su.                 *)
(***************************************************************************)
EXTENDS Calendar, FiniteSetsExt

CONSTANTS
  Chunks,     \* pieces of expressions: sequences of tokens
  MaxChunks,  \* bound on the pieces an expression is written of
  Days,       \* days looked at
  Seconds     \* seconds of those days looked at

(* Every day looked at is of one of the years.                             *)
ASSUME DaysAssumption ==
  /\ Days \subseteq Nat /\ Days # {}
  /\ \A d \in Days : \E y \in Years : DaysBefore(y) <= d /\ d < DaysBefore(y + 1)

ASSUME SecondsAssumption ==
  Seconds \subseteq Nat /\ Seconds # {} /\ \A s \in Seconds : s < 24 * 3600

VARIABLES
  expr,       \* the expression
  pieces,     \* history: pieces it is written of
  day,        \* now: days since the epoch, local time
  second      \* and seconds of the day

vars == <<expr, pieces, day, second>>

Word(w) == [word |-> w, number |-> -1]
Number(n) == [word |-> "", number |-> n]
Hour(n, suffix) == [word |-> suffix, number |-> n]
IsNumber(tok) == tok.number >= 0

(* No number is written with letters that are not a part of it.            *)
Token == {tok \in [word : STRING, number : Nat \cup {-1}] :
            IsNumber(tok) => tok.word \in {"", "am", "pm"} \/ tok = Hour(12, "noon")}

ASSUME ChunksAssumption == Chunks \subseteq Seq(Token)

OpenBrace == Word("{")
CloseBrace == Word("}")
To == Word("-")
Comma == Word(",")

-----------------------------------------------------------------------------
(* The parser.                                                             *)

(* parse_scale(): the scales of a word, one or none.                       *)
Candidates == {
  <<"second", "second">>, <<"minute", "minute">>, <<"month", "month">>,
  <<"mday", "mday">>, <<"wday", "wday">>, <<"hour", "hour">>, <<"year", "year">>,
  <<"week", "week">>, <<"yday", "yday">>, <<"sec", "second">>, <<"min", "minute">>,
  <<"mo", "month">>, <<"md", "mday">>, <<"wd", "wday">>, <<"hr", "hour">>,
  <<"yr", "year">>, <<"wk", "week">>, <<"yd", "yday">>}
Scales(w) == {c[2] : c \in {k \in Candidates : k[1] = w}}

Months == <<"jan", "feb", "mar", "apr", "may", "jun", "jul", "aug", "sep",
            "oct", "nov", "dec">>
Weekdays == <<{"su", "sun"}, {"mo", "mon"}, {"tu", "tue"}, {"we", "wed"},
              {"th", "thu"}, {"fr", "fri"}, {"sa", "sat"}>>

(* parse_value(): the values of a token, none if it has none. In another   *)
(* scale than hours the number of 3am is read and am, which has no value   *)
(* in any scale, ends the parse at the next one: the token has none.       *)
(* Faulty variant: midnight is hour 12.                                    *)
AmAsWritten(n) == n
Am(n) == IF n = 12 THEN 0 ELSE n
Pm(n) == IF n = 12 THEN 12 ELSE n + 12
Values(scale, tok) ==
  {n \in {tok.number, Am(tok.number), Pm(tok.number)} \cup 1 .. 12 :
     \/ IsNumber(tok) /\ tok.word = "" /\ n = tok.number
     \/ IsNumber(tok) /\ scale = "hour" /\ tok.word = "am" /\ n = Am(tok.number)
     \/ IsNumber(tok) /\ scale = "hour" /\ tok.word = "pm" /\ n = Pm(tok.number)
     \/ scale = "hour" /\ tok = Hour(12, "noon") /\ n = 12
     \/ scale = "month" /\ n \in 1 .. 12 /\ tok = Word(Months[n])
     \/ scale = "wday" /\ n \in 1 .. 7 /\ tok \in {Word(w) : w \in Weekdays[n]}}

(* What parse_sub_period() expects next, and what it has so far.           *)
Start == [expects |-> "scale", scale |-> "none", ranges |-> {}, lo |-> 0,
          clauses |-> {}]
Fail(p) == [p EXCEPT !.expects = "nothing"]

AddRange(p, lo, hi) == [p EXCEPT !.ranges = @ \cup {<<lo, hi>>},
                                 !.expects = "range"]

(* Faulty variant: a clause without ranges is taken.                       *)
CloseAny(p) ==
  [p EXCEPT !.expects = "scale", !.ranges = {},
            !.clauses = @ \cup {[scale |-> p.scale, ranges |-> p.ranges]}]
Close(p) ==
  IF p.ranges = {} THEN Fail(p)
  ELSE [p EXCEPT !.expects = "scale", !.ranges = {},
                 !.clauses = @ \cup {[scale |-> p.scale, ranges |-> p.ranges]}]

Low(p, tok) ==
  IF Values(p.scale, tok) = {} THEN Fail(p)
  ELSE [p EXCEPT !.expects = "dash",
                 !.lo = CHOOSE v \in Values(p.scale, tok) : TRUE]

(* One token.                                                              *)
Take(p, tok) ==
  CASE p.expects = "scale" /\ Scales(tok.word) # {} /\ ~IsNumber(tok)
         -> [p EXCEPT !.expects = "brace", !.scale = CHOOSE sc \in Scales(tok.word) : TRUE]
    [] p.expects = "brace" /\ tok = OpenBrace -> [p EXCEPT !.expects = "range"]
    [] p.expects = "range" /\ tok = CloseBrace -> Close(p)
    [] p.expects = "range" /\ tok # CloseBrace -> Low(p, tok)
    [] p.expects = "dash" /\ tok = To -> [p EXCEPT !.expects = "high"]
    [] p.expects = "dash" /\ tok = CloseBrace -> Close(AddRange(p, p.lo, p.lo))
    [] p.expects = "dash" /\ tok \notin {To, CloseBrace}
         -> Low(AddRange(p, p.lo, p.lo), tok)
    [] p.expects = "high" /\ Values(p.scale, tok) # {}
         -> AddRange(p, p.lo, CHOOSE v \in Values(p.scale, tok) : TRUE)
    [] OTHER -> Fail(p)

(* parse_sub_period(): what it has after each token and what it returns,   *)
(* the set of the clauses, empty for a parse failure.                      *)
Reading(sub) ==
  LET after[i \in 0 .. Len(sub)] ==
        IF i = 0 THEN Start ELSE Take(after[i - 1], sub[i])
  IN after

Parse(sub) ==
  LET p == Reading(sub)[Len(sub)]
  IN IF p.expects = "scale" THEN p.clauses ELSE {}

-----------------------------------------------------------------------------
(* The evaluation.                                                         *)

(* scale_value(). Faulty variant: the days of the week from Monday.        *)
WeekDayFromMonday(d) == DaysFromMonday(d) + 1
WeekDay(d) == DaysFromSunday(d) + 1

ScaleValue(scale) ==
  CASE scale = "year" -> Year(day)
    [] scale = "month" -> Month(day)
    [] scale = "week" -> IsoWeek(day)
    [] scale = "yday" -> Ordinal(day)
    [] scale = "mday" -> MonthDay(day)
    [] scale = "wday" -> WeekDay(day)
    [] scale = "hour" -> second \div 3600
    [] scale = "minute" -> (second \div 60) % 60
    [] scale = "second" -> second % 60

ClauseMatches(c) ==
  \E r \in c.ranges : r[1] <= ScaleValue(c.scale) /\ ScaleValue(c.scale) <= r[2]

(* A sub-period that cannot be parsed matches. Faulty variant: it does not. *)
EvalStrictly(sub) == Parse(sub) # {} /\ \A c \in Parse(sub) : ClauseMatches(c)
EvalSubPeriod(sub) == \A c \in Parse(sub) : ClauseMatches(c)

(* split(','): the sub-periods, commas in braces included.                 *)
SubPeriods(e) ==
  LET ends == {i \in 0 .. Len(e) + 1 :
                 i \in {0, Len(e) + 1} \/ e[i] = Comma}
  IN {SubSeq(e, cut[1] + 1, cut[2] - 1) : cut \in
        {c \in ends \X ends :
           c[1] < c[2] /\ \A k \in ends : k <= c[1] \/ k >= c[2]}}

(* Faulty variant: sub-periods AND'd.                                      *)
InAllSubPeriods(e) == e = <<>> \/ \A sub \in SubPeriods(e) : EvalSubPeriod(sub)
InPeriod(e) == e = <<>> \/ \E sub \in SubPeriods(e) : EvalSubPeriod(sub)

-----------------------------------------------------------------------------
(* Time passes, or at the first instant an expression is written piece by  *)
(* piece: the parser does not look at the clock.                           *)

Init ==
  /\ expr = <<>> /\ pieces = 0
  /\ day = Min(Days)
  /\ second = Min(Seconds)

Write(chunk) ==
  /\ pieces < MaxChunks /\ day = Min(Days) /\ second = Min(Seconds)
  /\ expr' = expr \o chunk
  /\ pieces' = pieces + 1
  /\ UNCHANGED <<day, second>>

Pass ==
  /\ pieces = 0
  /\ \/ day' = day /\ second' \in {t \in Seconds : t > second}
     \/ day' = day + 1 /\ day' \in Days /\ second' \in Seconds
  /\ UNCHANGED <<expr, pieces>>

Next == (\E chunk \in Chunks : Write(chunk)) \/ Pass

Spec == Init /\ [][Next]_vars
=============================================================================
