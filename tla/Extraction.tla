---- MODULE Extraction ----
(***************************************************************************)
(* Reading the pictures of a supplier bill with AI providers and judging   *)
(* what they read (app/extract.py, app/validate.py).  Money is whole       *)
(* paise.  A reply is what one provider makes of one picture: how each of  *)
(* up to three tries ends, the lines read and the total written there.     *)
(***************************************************************************)
EXTENDS Integers, Sequences, SequencesExt, FiniteSetsExt

CONSTANTS Groups   \* providers by priority: sequence of sequences of names

Nothing == [ok |-> FALSE, lines |-> {}, total |-> 0, flawed |-> FALSE]

\* what is written on the page or, for a line, how it was read
Line(pic, k, l, page) == [pic |-> pic, k |-> k, page |-> page, price |-> l.price,
                          qty |-> l.qty, sure |-> l.sure]
LinesOf(pic, reply, page) == {Line(pic, k, reply.lines[k], page) : k \in DOMAIN reply.lines}

(***************************************************************************)
(* One page in a request of its own: tried again after a pause; a refusal  *)
(* for the rate counts against the page at the third try, any other error  *)
(* from the second on, and a later success does not take it back.          *)
(***************************************************************************)
Read(reply) == \E k \in DOMAIN reply.tries : reply.tries[k] = "ok"
Complaint(reply) ==
    \E k \in DOMAIN reply.tries :
        /\ \A j \in 1 .. k : reply.tries[j] # "ok"
        /\ \/ reply.tries[k] = "busy" /\ k = 3
           \/ reply.tries[k] = "error" /\ k >= 2

AtOnce(reply) == reply.tries[1] = "ok"

Value(lines) == MapThenSumSet(LAMBDA l : l.price * l.qty, lines)
FarOff(lines, total) ==
    total > 0 /\ lines # {} /\ (Value(lines) > 3 * total \/ 100 * Value(lines) < 33 * total)

\* several pages, one request each; the first total found is the bill's
Chunked(pics, nos, replies) ==
    LET read == {i \in DOMAIN pics : Read(replies[pics[i]])}
        lines == UNION {LinesOf(pics[i], replies[pics[i]], nos[i]) : i \in read}
        totals == {i \in read : replies[pics[i]].total > 0}
        total == IF totals = {} THEN 0 ELSE replies[pics[Min(totals)]].total
        complaint == \E i \in DOMAIN pics : Complaint(replies[pics[i]])
    IN  IF complaint /\ lines = {} THEN Nothing
        ELSE [ok |-> TRUE, lines |-> lines, total |-> total,
              flawed |-> complaint \/ FarOff(lines, total)]

\* the pages one provider is handed; a single one is asked for once
Share(pics, nos, replies) ==
    IF Len(pics) > 1 THEN Chunked(pics, nos, replies)
    ELSE IF ~AtOnce(replies[pics[1]]) THEN Nothing
    ELSE [ok |-> TRUE, flawed |-> FALSE, total |-> replies[pics[1]].total,
          lines |-> LinesOf(pics[1], replies[pics[1]], nos[1])]

(***************************************************************************)
(* A group of one provider, or a bill of one page, goes to the group's     *)
(* first provider; else the pages are dealt out in turn and the answers    *)
(* joined: the largest total, and a flaw for each provider that failed.    *)
(***************************************************************************)
Dealt(pics, n, i) == [m \in 1 .. (Len(pics) - i) \div n + 1 |-> i + (m - 1) * n]

Joined(shares) ==
    LET good == {s \in shares : s.ok}
        lines == UNION {s.lines : s \in good}
        total == Max({s.total : s \in good} \cup {0})
    IN  IF good = {} THEN Nothing
        ELSE [ok |-> TRUE, lines |-> lines, total |-> total,
              flawed |-> good # shares \/ FarOff(lines, total)]

AskGroup(group, pics, replies) ==
    IF Len(group) = 1 \/ Len(pics) <= 1
    THEN Share(pics, [i \in DOMAIN pics |-> i], replies[group[1]])
    ELSE Joined({LET nos == Dealt(pics, Len(group), i)
                 IN  Share([k \in DOMAIN nos |-> pics[nos[k]]], nos, replies[group[i]]) :
                     i \in {j \in DOMAIN group : j <= Len(pics)}})

\* the first group that reads anything has the last word
Extract(pics, replies) ==
    LET good == {g \in DOMAIN Groups : pics # <<>> /\ AskGroup(Groups[g], pics, replies).ok}
    IN  IF good = {} THEN Nothing ELSE AskGroup(Groups[Min(good)], pics, replies)

(***************************************************************************)
(* validate: the unit that meets the written total, a correction when the  *)
(* prices read are line totals, and a flag for everything that looks odd.  *)
(***************************************************************************)
Pieces(qty, unit) == IF unit = "dozen" THEN 12 * qty ELSE qty
Sum(lines, unit) == MapThenSumSet(LAMBDA l : l.price * Pieces(l.qty, unit), lines)
Prices(lines) == MapThenSumSet(LAMBDA l : l.price, lines)
Gap(a, b) == IF a > b THEN a - b ELSE b - a
Meets(sum, total) == Gap(sum, total) <= 100 \/ 100 * Gap(sum, total) <= total

ChooseUnit(lines, total) ==
    IF total > 0 /\ ~Meets(Sum(lines, "pcs"), total) /\ Meets(Sum(lines, "dozen"), total)
    THEN "dozen" ELSE "pcs"

\* the first figures were line totals, not unit prices
LineTotals(lines, unit, total) ==
    /\ total > 0 /\ lines # {} /\ Sum(lines, unit) > 3 * total
    /\ 10 * Prices(lines) >= 8 * total /\ 10 * Prices(lines) <= 12 * total
Corrected(l, unit) ==
    LET n == Pieces(l.qty, unit)
    IN  IF n > 0 THEN [l EXCEPT !.price = (2 * @ + n) \div (2 * n)] ELSE l

Outlier(lines, unit, l) ==
    10 * Sum(lines, unit) < l.price * Pieces(l.qty, unit) * Cardinality(lines)

Judge(ex) ==
    LET unit == ChooseUnit(ex.lines, ex.total)
        wrong == LineTotals(ex.lines, unit, ex.total)
        lines == IF wrong THEN {Corrected(l, unit) : l \in ex.lines} ELSE ex.lines
        sum == Sum(lines, unit)
        odd == \/ ex.flawed \/ wrong
               \/ ex.total = 0 \/ ~Meets(sum, ex.total)
               \/ \E l \in lines : \/ ~l.sure \/ l.price = 0 \/ l.qty = 0
                                   \/ l.price > 10000000 \/ l.qty > 1000
                                   \/ Outlier(lines, unit, l)
    IN  [lines |-> {[pic |-> l.pic, k |-> l.k, page |-> l.page,
                     pieces |-> Pieces(l.qty, unit)] : l \in lines},
         status |-> IF odd THEN "review" ELSE "confirmed"]

\* what a job stores for its pictures: nothing at all when reading failed
Verdict(pics, replies) ==
    LET ex == Extract(pics, replies)
    IN  IF ex.ok THEN Judge(ex) ELSE [lines |-> {}, status |-> "review"]

====
