------------------------------ MODULE AIReconcile ------------------------------
(***************************************************************************)
(* The AI's part of a batch: every estimate is cut into chunks, each chunk *)
(* is put to the provider, again if the provider is busy, the answers are  *)
(* merged, and what the AI found is reconciled with what the backend       *)
(* found.  A chunk that fails makes its whole file fall back to the        *)
(* backend's own analysis.  At the end the reports of the files are summed *)
(* up for the batch.                                                       *)
(*                                                                         *)
(* What the provider replies is chosen freely from Replies: an HTTP status *)
(* (0: no response) and the blocks of its body, each with an answer that   *)
(* may claim more rows than it was given, repeat itself and use words the  *)
(* code does not know.  A finding has a row (0: none), a category, a       *)
(* title, a severity, and the set of words of its title and detail.        *)
(***************************************************************************)
EXTENDS Integers, FiniteSets, Sequences, FiniteSetsExt, SequencesExt, Ranking

CONSTANTS Batches,        (* sequences of estimates                            *)
          Providers,      (* what AI_PROVIDER may be                           *)
          Replies,        (* what a provider may reply to a call               *)
          garbled,        (* a block that is not the JSON that was asked for   *)
          MaxAttempts,    (* AI_HTTP_MAX_ATTEMPTS                              *)
          RowsPerChunk,   (* AI_ROWS_PER_CHUNK                                 *)
          MaxRawRows,     (* 1000000: rows a raw document may have             *)
          MaxFindings     (* 100: findings kept of an answer                   *)

Severities == {"Info", "Low", "Medium", "High"}
Risks      == {"", "Unknown", "Low", "Medium", "High"}

IsList(s) == s \in Seq(ToSet(s))

(* What is said of a row, by whomever.                                     *)
IsFinding(f) ==
    f = [row |-> f.row, severity |-> f.severity, category |-> f.category,
         title |-> f.title, words |-> f.words]

ASSUME ReconcileAssumption ==
    /\ {RowsPerChunk, MaxFindings, MaxAttempts, MaxRawRows} \subseteq Nat \ {0}
    /\ Providers \subseteq {"rules", "openai", "gemini", "anthropic"}
    /\ \A b \in Batches : IsList(b) /\ \A e \in ToSet(b) :
        /\ e.items \in Nat /\ e.total \in Nat /\ e.score \in 0..100
        /\ e.pdf \in BOOLEAN      \* its source is a PDF, which has no rows
        /\ IsList(e.findings)
        /\ \A f \in ToSet(e.findings) :
             IsFinding(f) /\ f.row \in Nat /\ f.severity \in Severities
    /\ \A reply \in Replies :
        /\ reply.status \in Nat /\ IsList(reply.body)
        /\ \A block \in ToSet(reply.body) : block.said # garbled =>
            /\ block.said.rows \in Int /\ block.said.total \in Int
            /\ IsList(block.said.findings)
            /\ \A f \in ToSet(block.said.findings) : IsFinding(f) /\ f.row \in Int

VARIABLES
    batch,      \* the estimates
    provider,   \* who analyses them
    attempt,    \* of the call at hand
    parts,      \* the answers for the file at hand
    analyses,   \* what the AI made of the files before it
    reports,    \* reconciled so far
    summary     \* the report of the batch

vars == <<batch, provider, attempt, parts, analyses, reports, summary>>

-----------------------------------------------------------------------------
(* Ranks                                                                   *)

riskLevelRank(r) == CASE r = "High" -> 4 [] r = "Medium" -> 3 [] r = "Low" -> 2
                      [] r = "Unknown" -> 1 [] OTHER -> 0

normalizeSeverity(s) == IF s \in Severities THEN s ELSE "Info"
severityRank(s) == CASE s = "High" -> 4 [] s = "Medium" -> 3 [] s = "Low" -> 2 [] OTHER -> 1

normalizeRiskLevel(r) == IF r \in Risks \ {""} THEN r ELSE "Unknown"

LastRiskLevel(a, b) == b   \* a mutant
higherRiskLevel(a, b) == IF riskLevelRank(b) > riskLevelRank(a) THEN b ELSE a

maxSeverity(a, b) == IF severityRank(b) > severityRank(a) THEN b ELSE a

riskFromProviderFindings(list) ==
    LET severities == {list[k].severity : k \in DOMAIN list}
    IN  IF "High" \in severities THEN "High"
        ELSE IF "Medium" \in severities THEN "Medium" ELSE "Low"

(* A sort that keeps the order of equals.                                  *)
SortStably(list, Before(_, _)) ==
    LET order == Ranked(DOMAIN list,
                    LAMBDA i, j : \/ Before(list[i], list[j])
                                  \/ ~Before(list[j], list[i]) /\ i < j)
    IN  [k \in DOMAIN list |-> list[order[k]]]

ByRow(f, g) == \/ f.row < g.row
               \/ f.row = g.row /\ severityRank(f.severity) > severityRank(g.severity)
BySeverity(f, g) == \/ severityRank(f.severity) > severityRank(g.severity)
                    \/ severityRank(f.severity) = severityRank(g.severity) /\ f.row < g.row

-----------------------------------------------------------------------------
(* Asking the provider                                                     *)

shouldUseRawDocument(e) == e.pdf

(* Only these two are sent a PDF as it is.                                 *)
SentRaw(e) == shouldUseRawDocument(e) /\ provider \in {"openai", "gemini"}

(* An estimate without rows is one chunk.                                  *)
Chunks(e) ==
    IF e.items = 0 \/ SentRaw(e) THEN 1
    ELSE (e.items + RowsPerChunk - 1) \div RowsPerChunk

retryableAIStatus(status) == status \in {0, 408, 429} \/ status >= 500

(* Where each provider's reader finds an answer in a body: it takes the    *)
(* first of the blocks.                                                    *)
extractOpenAIOutputText(body) == {k \in DOMAIN body : body[k].kind = "text"}
geminiText(body)              == {k \in DOMAIN body : k = 1 /\ body[k].kind = "text"}
anthropicToolCall(body)       == {k \in DOMAIN body : body[k].kind = "tool"}

Blocks(body) ==
    CASE provider = "openai"    -> extractOpenAIOutputText(body)
      [] provider = "gemini"    -> geminiText(body)
      [] provider = "anthropic" -> anthropicToolCall(body)

Said(reply) == reply.body[Min(Blocks(reply.body))].said

(* A raw document with too many rows is not believed.                      *)
Decodable(e, said) ==
    said # garbled /\ (SentRaw(e) => said.rows <= MaxRawRows)

Readable(e, reply) ==
    /\ reply.status \in 200..299
    /\ Blocks(reply.body) # {}
    /\ Decodable(e, Said(reply))

AtLeast0(n) == Max({0, n})

(* The rows of an answer about parsed rows are held to those of the file.  *)
decodeAIFileAnalysis(e, answer) ==
    LET kept == SubSeq(answer.findings, 1, Min({Len(answer.findings), MaxFindings}))
        Read(f) == [f EXCEPT !.severity = normalizeSeverity(@), !.row = AtLeast0(@)]
    IN  [risk     |-> normalizeRiskLevel(answer.risk),
         rows     |-> AtLeast0(IF SentRaw(e) THEN answer.rows ELSE Min({answer.rows, e.items})),
         total    |-> AtLeast0(answer.total),
         findings |-> [k \in DOMAIN kept |-> Read(kept[k])]]

rawFileAnalysis(a) ==
    [mode |-> "raw_pdf", risk |-> a.risk, rows |-> a.rows, total |-> a.total,
     findings |-> a.findings]

(* Findings of one row, category and title are one: the first stays.       *)
normalizedAIFindingKey(f) == <<f.row, f.category, f.title>>

FirstOfEach(list) ==
    Ascending({k \in DOMAIN list : \A j \in 1..(k - 1) :
                  normalizedAIFindingKey(list[j]) # normalizedAIFindingKey(list[k])})

mergeAIFileAnalyses(e, answers) ==
    LET all    == FlattenSeq([k \in DOMAIN answers |-> answers[k].findings])
        unique == FirstOfEach(all)
        Rows(k)  == answers[k].rows
        Total(k) == answers[k].total
    IN  [mode     |-> "normalized_chunks",
         risk     |-> FoldLeft(LAMBDA r, part : higherRiskLevel(r, part.risk), "Low", answers),
         rows     |-> Min({e.items, MapThenSumSet(Rows, DOMAIN answers)}),
         total    |-> MapThenSumSet(Total, DOMAIN answers),
         findings |-> SortStably([k \in DOMAIN unique |-> all[unique[k]]], ByRow)]

(* The risk level of the backend's own summary.                            *)
buildAISummary(e) ==
    LET Of(severity) == {k \in DOMAIN e.findings : e.findings[k].severity = severity}
    IN  IF e.items = 0 THEN "Unknown"
        ELSE IF Of("High") # {} \/ e.score < 70 THEN "High"
        ELSE IF Cardinality(Of("Medium")) > 1 \/ e.score < 85 THEN "Medium" ELSE "Low"

(* What the backend knows already, in the form of an analysis.             *)
rulesFileAnalysis(e) ==
    [mode     |-> "backend_rules",
     risk     |-> buildAISummary(e),
     rows     |-> e.items,
     total    |-> e.total,
     findings |-> [k \in DOMAIN e.findings |-> [e.findings[k] EXCEPT !.row = 0]]]

isIndependentAIAnalysis(a) == a.mode \notin {"", "backend_rules", "backend_fallback"}

-----------------------------------------------------------------------------
(* Reconciling a file                                                      *)

tokenOverlap(f, g) ==
    /\ f.words # {} /\ g.words # {}
    /\ 100 * Cardinality(f.words \cap g.words) >= 35 * Cardinality(f.words \cup g.words)

sameRow(f, g) == f.row > 0 /\ f.row = g.row

MatchScore(f, g) ==
    IF ~sameRow(f, g) /\ ~tokenOverlap(f, g) THEN 0
    ELSE (IF sameRow(f, g) THEN 6 ELSE 0)
           + (IF f.category = g.category THEN 3 ELSE 0)
           + (IF tokenOverlap(f, g) THEN 4 ELSE 0)

UsedAgain(ai, used) == DOMAIN ai   \* a mutant
Unused(ai, used) == DOMAIN ai \ used

(* The first of the unused findings with the highest score, 0 if none is   *)
(* good enough.                                                            *)
bestAIMatch(f, ai, used) ==
    LET good == {i \in Unused(ai, used) : /\ MatchScore(f, ai[i]) >= 6
                     /\ \A j \in Unused(ai, used) : MatchScore(f, ai[j]) <= MatchScore(f, ai[i])}
    IN  IF good = {} THEN 0 ELSE Min(good)

(* The backend's findings take their matches one after the other.          *)
Matches(backend, ai) ==
    FoldLeft(LAMBDA taken, f : Append(taken, bestAIMatch(f, ai, ToSet(taken))), <<>>, backend)

chooseRow(a, b) == IF a > 0 THEN a ELSE b

Unified(backend, ai) ==
    LET match == Matches(backend, ai)
        alone == Ascending({i \in DOMAIN ai : i \notin ToSet(match)})
        Both(k) ==
            IF match[k] = 0
              THEN [row |-> backend[k].row, severity |-> backend[k].severity, ours |-> k, theirs |-> 0]
              ELSE [row      |-> chooseRow(backend[k].row, ai[match[k]].row),
                    severity |-> maxSeverity(backend[k].severity, ai[match[k]].severity),
                    ours     |-> k, theirs |-> match[k]]
        Theirs(i) == [row |-> ai[i].row, severity |-> ai[i].severity, ours |-> 0, theirs |-> i]
    IN  [k \in DOMAIN backend |-> Both(k)] \o [k \in DOMAIN alone |-> Theirs(alone[k])]

sortUnifiedFindings(list) == SortStably(list, BySeverity)

Confirmed(list) == {k \in DOMAIN list : list[k].ours > 0 /\ list[k].theirs > 0}

(* Rounded to the nearest whole.                                           *)
Rounded(n, d) == (2 * n + d) \div (2 * d)

Uncovered(score, rows, of) == score   \* a mutant
Covered(score, rows, of) == IF of = 0 \/ rows >= of THEN score ELSE Rounded(score * rows, of)

AgreementScore(e, a, list) ==
    Covered(IF list = <<>> THEN 100 ELSE Rounded(100 * Cardinality(Confirmed(list)), Len(list)),
            a.rows, e.items)

reconcileFile(e, a) ==
    LET list  == sortUnifiedFindings(Unified(e.findings, a.findings))
        alone == sortUnifiedFindings(Unified(e.findings, <<>>))
        risk  == riskFromProviderFindings(e.findings)
    IN  IF isIndependentAIAnalysis(a)
          THEN [aiRisk |-> normalizeRiskLevel(a.risk), risk |-> higherRiskLevel(risk, a.risk),
                agreement |-> AgreementScore(e, a, list), findings |-> list,
                total |-> e.total, aiTotal |-> a.total]
          ELSE [aiRisk |-> "Unknown", risk |-> risk, agreement |-> 0, findings |-> alone,
                total |-> e.total, aiTotal |-> 0]

-----------------------------------------------------------------------------
(* The batch                                                               *)

preferredReportTotal(r) == IF r.total > 0 THEN r.total ELSE r.aiTotal

crossFileDuplicateCount(e, f) == Cardinality(e.keys \cap f.keys)

compareBatchReports(list) ==
    LET pairs == {p \in (DOMAIN list) \X (DOMAIN list) : p[1] < p[2]}
        Total(i) == preferredReportTotal(list[i])
    IN  {[type |-> "total_delta", pair |-> p, delta |-> Total(p[2]) - Total(p[1])] :
            p \in {p \in pairs : Total(p[1]) > 0 \/ Total(p[2]) > 0}}
        \cup
        {[type |-> "shared_positions", pair |-> p,
          delta |-> crossFileDuplicateCount(batch[p[1]], batch[p[2]])] :
            p \in {p \in pairs : /\ batch[p[1]].items > 0 /\ batch[p[2]].items > 0
                                 /\ batch[p[1]].keys \cap batch[p[2]].keys # {}}}

reconcileBatch ==
    LET Total(k) == preferredReportTotal(reports[k])
    IN  [risk  |-> FoldLeft(LAMBDA r, report : higherRiskLevel(r, report.risk), "", reports),
         total |-> MapThenSumSet(Total, DOMAIN reports),
         cross |-> compareBatchReports(reports)]

-----------------------------------------------------------------------------
NoSummary == [risk |-> "", total |-> 0, cross |-> {}]

Init ==
    /\ batch \in Batches /\ provider \in Providers
    /\ attempt = 1
    /\ parts = <<>> /\ analyses = <<>> /\ reports = <<>>
    /\ summary = NoSummary

Asking == Len(analyses) < Len(batch)
File   == batch[Len(analyses) + 1]

(* A file is done, and the next one, if any, begins with its first call.   *)
FileIsDone(analysis) ==
    /\ analyses' = Append(analyses, analysis)
    /\ parts' = <<>> /\ attempt' = 1
    /\ UNCHANGED <<batch, provider, reports, summary>>

AnalyzeByRules ==
    /\ Asking /\ provider = "rules"
    /\ FileIsDone(rulesFileAnalysis(File))

(* doAIJSONRequest waits and calls again.                                  *)
RetryCall ==
    /\ Asking /\ provider # "rules"
    /\ attempt < MaxAttempts /\ Len(parts) < Chunks(File)
    /\ \E reply \in Replies : retryableAIStatus(reply.status)
    /\ attempt' = attempt + 1
    /\ UNCHANGED <<batch, provider, parts, analyses, reports, summary>>

Heard(reply) == Append(parts, decodeAIFileAnalysis(File, Said(reply)))

AnalyzeChunk ==
    /\ Asking /\ provider # "rules"
    /\ ~SentRaw(File) /\ Len(parts) < Chunks(File)
    /\ \E reply \in Replies : Readable(File, reply) /\ parts' = Heard(reply)
    /\ attempt' = 1
    /\ UNCHANGED <<batch, provider, analyses, reports, summary>>

(* The last answer is forgotten (a mutant).                                *)
MergeAllButLast ==
    /\ Asking /\ provider # "rules"
    /\ ~SentRaw(File) /\ Len(parts) = Chunks(File)
    /\ FileIsDone(mergeAIFileAnalyses(File, Front(parts)))

(* The answers to all chunks complete the file.                            *)
MergeChunks ==
    /\ Asking /\ provider # "rules"
    /\ ~SentRaw(File) /\ Len(parts) = Chunks(File)
    /\ FileIsDone(mergeAIFileAnalyses(File, parts))

(* The answer to a raw document is taken as it is.                         *)
AnalyzeRawPDF ==
    /\ Asking /\ SentRaw(File)
    /\ \E reply \in Replies :
        Readable(File, reply) /\ FileIsDone(rawFileAnalysis(Heard(reply)[1]))

(* An unreadable reply, a status that is not retried or the last attempt's,*)
(* a body cut off, a PDF that cannot be read, the context cancelled.       *)
ChunkFails ==
    /\ Asking /\ provider # "rules" /\ Len(parts) < Chunks(File)
    /\ FileIsDone([rulesFileAnalysis(File) EXCEPT !.mode = "backend_fallback"])

ReconcileNext ==
    /\ ~Asking /\ Len(reports) < Len(batch)
    /\ LET k == Len(reports) + 1
       IN  reports' = Append(reports, reconcileFile(batch[k], analyses[k]))
    /\ UNCHANGED <<batch, provider, attempt, parts, analyses, summary>>

SumUp ==
    /\ Len(reports) = Len(batch) /\ summary = NoSummary
    /\ summary' = reconcileBatch
    /\ UNCHANGED <<batch, provider, attempt, parts, analyses, reports>>

Next ==
    \/ AnalyzeByRules \/ RetryCall \/ AnalyzeChunk \/ MergeChunks
    \/ AnalyzeRawPDF \/ ChunkFails
    \/ ReconcileNext \/ SumUp

Spec == Init /\ [][Next]_vars

-----------------------------------------------------------------------------
(* Properties                                                              *)

(* mergeAIFileAnalyses: what a provider said of a part of a file, the last *)
(* or the only one included, is still there when the parts are put         *)
(* together: each of its findings, once, as it was said first, its risk,   *)
(* and no more rows than the file has.                                     *)
HeardIsKept ==
    [][(parts # <<>> /\ parts' = <<>>) =>
         LET a == Last(analyses')
         IN  isIndependentAIAnalysis(a) =>
               /\ a.rows <= File.items
               /\ \A i, j \in DOMAIN a.findings :
                    i # j => normalizedAIFindingKey(a.findings[i])
                              # normalizedAIFindingKey(a.findings[j])
               /\ \A k \in DOMAIN parts :
                    /\ riskLevelRank(a.risk) >= riskLevelRank(parts[k].risk)
                    /\ \A f \in ToSet(parts[k].findings) :
                         \/ f \in ToSet(a.findings)
                         \/ \E h \in 1..k : \E g \in ToSet(parts[h].findings) :
                              /\ normalizedAIFindingKey(g) = normalizedAIFindingKey(f)
                              /\ g \in ToSet(a.findings)]_vars

(* reconcileFile and bestAIMatch: every finding of the backend and of an   *)
(* independent AI is in the report of its file exactly once, never milder  *)
(* than it was; two findings are confirmed by each other only if they are  *)
(* about one row or share their words; and the report is sorted.  Of an    *)
(* analysis the backend made itself, nothing is.                           *)
EachFindingOnce ==
    \A k \in DOMAIN reports :
        LET list == reports[k].findings
            ours == batch[k].findings
            ai   == IF isIndependentAIAnalysis(analyses[k]) THEN analyses[k].findings ELSE <<>>
            Milder(f, g) == severityRank(f.severity) < severityRank(g.severity)
        IN  /\ \A b \in DOMAIN ours : Cardinality({i \in DOMAIN list : list[i].ours = b}) = 1
            /\ \A a \in DOMAIN ai : Cardinality({i \in DOMAIN list : list[i].theirs = a}) = 1
            /\ \A i \in DOMAIN list :
                LET b == list[i].ours
                    a == list[i].theirs
                IN  /\ b \in 0..Len(ours) /\ a \in 0..Len(ai)
                    /\ b > 0 => ~Milder(list[i], ours[b])
                    /\ a > 0 => ~Milder(list[i], ai[a])
                    /\ (a > 0 /\ b > 0) =>
                         sameRow(ours[b], ai[a]) \/ tokenOverlap(ours[b], ai[a])
                    /\ i > 1 => ~Milder(list[i - 1], list[i])

(* higherRiskLevel, in a file and over the batch: the final risk of a file *)
(* is no lower than any finding of the backend, nor than the level an      *)
(* independent AI stated, and the overall risk than that of any file.      *)
RiskCovers ==
    /\ \A k \in DOMAIN reports :
        LET Rank == riskLevelRank(reports[k].risk)
        IN  /\ \A f \in ToSet(batch[k].findings) :
                 f.severity \in {"Medium", "High"} => Rank >= severityRank(f.severity)
            /\ isIndependentAIAnalysis(analyses[k]) => Rank >= riskLevelRank(analyses[k].risk)
    /\ summary # NoSummary =>
        \A k \in DOMAIN reports :
            riskLevelRank(summary.risk) >= riskLevelRank(reports[k].risk)

(* The agreement score counts what both found, of all that was found, and  *)
(* no more than the share of the rows the AI says it has read; a fallback  *)
(* agrees with nothing.                                                    *)
AgreementIsEarned ==
    \A k \in DOMAIN reports :
        LET r == reports[k]
            a == analyses[k]
            e == batch[k]
        IN  /\ r.agreement \in 0..100
            /\ ~isIndependentAIAnalysis(a) => r.agreement = 0 /\ Confirmed(r.findings) = {}
            /\ r.findings # <<>> =>
                 (r.agreement - 1) * Len(r.findings) < 100 * Cardinality(Confirmed(r.findings))
            /\ e.items > 0 => (r.agreement - 1) * e.items < 100 * a.rows

=============================================================================
