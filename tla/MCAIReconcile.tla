----------------------------- MODULE MCAIReconcile -----------------------------
(* Estimates and answers for model checking AIReconcile: two chunks, a raw *)
(* document and a file without findings; answers that claim too much, that *)
(* repeat each other across chunks and that use unknown words.             *)
EXTENDS AIReconcile

F(title, row, category, severity, words) ==
    [title |-> title, row |-> row, category |-> category, severity |-> severity, words |-> words]

Stored   == F("stored", 0, "other", "Info", {"file"})
Mismatch == F("mismatch", 2, "arithmetic", "High", {"sum", "differs"})
NoUnit   == F("no unit", 2, "data_quality", "Medium", {"unit"})
Double   == F("double", 3, "duplicate", "Medium", {"rows", "alike"})

OneRow   == F("wrong sum", 2, "arithmetic", "Low", {"sum", "checked"})
Worse    == F("wrong sum", 2, "arithmetic", "High", {"sum", "differs"})
SomeRow  == F("total", 0, "arithmetic", "Medium", {"sum", "differs"})
Odd      == F("remark", 3, "other", "critical", {"norm"})
General  == F("remark", 0, "other", "High", {"file", "scan"})

Estimate(items, total, score, pdf, keys, findings) ==
    [items |-> items, total |-> total, score |-> score, pdf |-> pdf, keys |-> keys, findings |-> findings]

Sheet == Estimate(3, 50, 52, FALSE, {"sand", "brick"}, <<Stored, Mismatch, NoUnit, Double>>)
Small == Estimate(1, 20, 90, FALSE, {"sand"}, <<NoUnit>>)
Pdf   == Estimate(0, 0, 100, TRUE, {}, <<Stored>>)
Bare  == Estimate(0, 0, 100, FALSE, {}, <<>>)

AllBatches == {<<Sheet>>, <<Sheet, Pdf>>, <<Pdf, Small>>, <<Bare, Small>>}

Answer(rows, risk, total, findings) ==
    [rows |-> rows, risk |-> risk, total |-> total, findings |-> findings]

(* Every pair of findings, and answers that stand out.                     *)
SomeAnswers ==
    {Answer(1, "Medium", 20, said) :
        said \in UNION {[1..n -> {OneRow, Worse, SomeRow, Odd, General}] : n \in 0..2}} \cup
    {Answer(2, "Low", 40, <<>>), Answer(1, "Medium", 0, <<OneRow>>),
     Answer(9, "High", 50, <<Worse, Odd>>), Answer(0, "serious", 0, <<General>>),
     Answer(1, "Low", 20, <<SomeRow, Worse>>), Answer(2, "Unknown", 50, <<Odd, SomeRow>>),
     Answer(1, "Low", 30, <<General, OneRow, Worse>>), Answer(3, "High", 10, <<Odd, Odd>>),
     Answer(-1, "Low", -20, <<[OneRow EXCEPT !.row = -2]>>)}

AllProviders == {"rules", "openai", "gemini", "anthropic"}

Block(kind, said) == [kind |-> kind, said |-> said]

(* An answer as the text and as the tool call it may come in, and replies  *)
(* that only some of the readers understand, or none.                      *)
SomeReplies ==
    {[status |-> 200, body |-> <<Block("text", a), Block("tool", a)>>] : a \in SomeAnswers} \cup
    {[status |-> 200, body |-> body] : body \in
        {<<>>, <<Block("other", garbled), Block("text", Answer(1, "High", 10, <<Worse>>))>>,
         <<Block("text", garbled), Block("tool", Answer(1, "Low", 10, <<Odd>>))>>}} \cup
    {[status |-> status, body |-> <<>>] : status \in {0, 401, 429, 503}}

=============================================================================
