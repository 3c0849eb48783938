---------------------------- MODULE RequestShapes ----------------------------
(* What happens to the texts of one request between the wire and the model   *)
(* and back: limits and batches, token accounting, the pinned layout of a    *)
(* provider that compiles per shape, the runs of the embedding library, the  *)
(* retry of a rejected run, and the order the answer is in                   *)
(* (src/src/handlers.rs, inference.rs, tokens.rs, state.rs; vendored:        *)
(* bgem3_dual/mod.rs, reranking/impl.rs, common.rs).  The engines are free   *)
(* here: who gets one, and when, is EmbedEngine's and WedgeGate's subject.   *)
(*                                                                           *)
(* A text is the number of its tokens, or Refused when the tokenizer will    *)
(* not encode it; a layout is a sequence of positions in the request's texts *)
(* with Ruler between them; a row says which text it is of and how many      *)
(* tokens of it the model saw.  A score is a number of its text's own.  The  *)
(* specification's own names say Shapes, so that AnswersProofs can speak of  *)
(* it beside HealthProbe.                                                    *)
EXTENDS Integers, Sequences, FiniteSets

CONSTANTS
    Tokens,         \* token counts of the texts callers send
    Refused,        \* a text the tokenizer refuses
    MaxTexts,       \* bound: texts in one request
    Lengths,        \* max_length values of requests, 0 when absent
    Batches,        \* max_batch values of requests, 0 when absent
    ConfigLength,   \* EMBED_MAX_LENGTH
    ConfigBatch,    \* MAX_BATCH
    RerankLength,   \* RERANK_MAX_LENGTH
    MaxTokenize,    \* TOKENIZE_MAX_TEXTS
    MaxBad          \* bound: mis-shaped runs of a session after it is built

ASSUME RequestShapesAssumption ==
    /\ Tokens \subseteq Nat /\ Refused \notin Nat
    /\ MaxTexts \in Nat
    /\ Lengths \subseteq Nat /\ Batches \subseteq Nat
    /\ ConfigLength \in Nat /\ ConfigBatch \in Nat /\ RerankLength \in Nat \ {0}
    /\ MaxTokenize \in Nat /\ MaxBad \in Nat

Ruler == 0
SettleAttempts == 3
ModelLength == 8192
RulerTokens == 4 * ModelLength

Routes == {"embed", "rerank", "tokenize"}
Sessions == {"embed", "rerank"}
Unmeasured == << >>
NoPass == [layout |-> << >>, positions |-> << >>, pin |-> FALSE, cap |-> 0, batch |-> 0]

VARIABLES
    migraphx,   \* the provider is the one that compiles per shape
    setting,    \* PIN_INPUT_SHAPE
    counter,    \* a tokenizer to count with was loaded at startup
    resident,   \* the cap of the resident embedding session, 0 for none
    loaded,     \* the reranker is loaded
    bad,        \* per engine: mis-shaped runs its session may still do
    progress,   \* where the request stands
    req,        \* the request: route, texts, kind, max_length, max_batch, known name
    pass,       \* what is handed to the library: layout, positions, cap, batch
    usage,      \* counts, per text, and the cap they are judged by; Unmeasured
    attempt,    \* the run of the whole layout under way
    rows,       \* what the runs of this attempt have returned so far
    strayed,    \* history: runs of this request that came back mis-shaped
    answer

settings == <<migraphx, setting, counter>>
sessions == <<resident, loaded, bad>>
work == <<pass, usage, attempt, rows, strayed>>
shapesVars == <<settings, sessions, progress, req, work, answer>>

Progress == {"idle", "checked", "laid out", "running", "returned", "answered"}
NoAnswer == [status |-> "none"]

Texts == UNION { [1 .. n -> Tokens \cup {Refused}] : n \in 0 .. MaxTexts }

EmbedRequest ==
    [route : {"embed"}, texts : Texts, kind : {"doc", "query"},
     length : Lengths, batch : Batches, known : {TRUE}]

RerankRequest ==
    [route : {"rerank"}, texts : Texts, kind : {"doc"},
     length : {0}, batch : Batches, known : {TRUE}]

TokenizeRequest ==
    [route : {"tokenize"}, texts : Texts, kind : {"doc"},
     length : {0}, batch : {0}, known : BOOLEAN]

Requests == EmbedRequest \cup RerankRequest \cup TokenizeRequest

Smaller(a, b) == IF a < b THEN a ELSE b
Larger(a, b) == IF a > b THEN a ELSE b

ShapesInit ==
    /\ migraphx \in BOOLEAN /\ setting \in {"auto", "on", "off"} /\ counter \in BOOLEAN
    /\ resident = 0 /\ loaded = FALSE
    /\ bad = [e \in Sessions |-> 0]
    /\ progress = "idle"
    /\ req = [route |-> "embed", texts |-> << >>, kind |-> "doc",
              length |-> 0, batch |-> 0, known |-> TRUE]
    /\ pass = NoPass /\ usage = Unmeasured
    /\ attempt = 0 /\ rows = << >>
    /\ strayed = 0
    /\ answer = NoAnswer

-----------------------------------------------------------------------------
(* Limits::resolve, positive_or and rerank_batch. *)
PositiveOr(value, fallback) == IF value = 0 THEN fallback ELSE value

Clamped(length) == Larger(16, Smaller(length, ModelLength))

Batch(r) == Larger(1, PositiveOr(r.batch, ConfigBatch))

(* cap_for: a query runs at the resident cap, anything else states its own. *)
CapFor(r) == IF r.kind = "query" /\ resident # 0 THEN resident
             ELSE Clamped(PositiveOr(r.length, ConfigLength))

(* should_pin_shape: the setting decides, and auto means the provider. *)
ShouldPin == IF setting = "auto" THEN migraphx ELSE setting = "on"

-----------------------------------------------------------------------------
(* A handler gets a request.  An empty one is answered at once, an unknown   *)
(* tokenizer name and a batch past the cap are refused.                      *)
Respond(a) == progress' = "answered" /\ answer' = a

Arrive(r) ==
    /\ progress = "idle"
    /\ req' = r
    /\ IF r.route # "tokenize" /\ r.texts = << >>
         THEN Respond([status |-> "empty"])
         ELSE progress' = "checked" /\ answer' = NoAnswer
    /\ UNCHANGED <<settings, sessions, work>>

RefuseTokenize ==
    /\ progress = "checked" /\ req.route = "tokenize"
    /\ ~req.known \/ Len(req.texts) > MaxTokenize
    /\ Respond([status |-> "bad request"])
    /\ UNCHANGED <<settings, sessions, req, work>>

(* count_tokens and usage_from_counts: one text that cannot be counted makes *)
(* the whole request unmeasured.                                             *)
Counts(texts, cap) ==
    IF ~counter \/ \E i \in DOMAIN texts : texts[i] = Refused
      THEN Unmeasured
      ELSE [counts |-> texts,
            truncated |-> [i \in DOMAIN texts |-> texts[i] > cap],
            cap |-> cap]

Tokenize ==
    /\ progress = "checked" /\ req.route = "tokenize"
    /\ req.known /\ Len(req.texts) <= MaxTokenize
    /\ Respond([status |-> "counted", usage |-> Counts(req.texts, ModelLength)])
    /\ UNCHANGED <<settings, sessions, req, work>>

-----------------------------------------------------------------------------
(* Mutant of Pinned: the rulers trail their chunks, the positions do not. *)
PinnedBehind(n, batch) ==
    LET per == batch - 1
        i(k) == ((k - 1) \div batch) * per + ((k - 1) % batch) + 1
    IN  [k \in 1 .. ((n + per - 1) \div per) * batch |->
            IF k % batch # 0 /\ i(k) <= n THEN i(k) ELSE Ruler]

(* pin_shape: chunks of batch rows, each led by a ruler, the last one filled *)
(* with rulers, and where each text went.                                    *)
Pinned(n, batch) ==
    LET per == batch - 1
        i(k) == ((k - 1) \div batch) * per + ((k - 1) % batch)
    IN  [k \in 1 .. ((n + per - 1) \div per) * batch |->
            IF (k - 1) % batch # 0 /\ i(k) <= n THEN i(k) ELSE Ruler]

PositionsOf(n, batch) ==
    [i \in 1 .. n |-> ((i - 1) \div (batch - 1)) * batch + ((i - 1) % (batch - 1)) + 2]

(* The layout of n texts: pinned when there is room for a ruler. *)
Layout(n, batch, cap) ==
    LET pin == ShouldPin /\ batch >= 2
    IN  [layout |-> IF pin THEN Pinned(n, batch) ELSE [k \in 1 .. n |-> k],
         positions |-> IF pin THEN PositionsOf(n, batch) ELSE [k \in 1 .. n |-> k],
         pin |-> pin, cap |-> cap, batch |-> batch]

(* Mutant of UsageOf: judged by the cap the request states. *)
UsageOfRequested(r) == Counts(r.texts, Clamped(PositiveOr(r.length, ConfigLength)))

UsageOf(r) == Counts(r.texts, CapFor(r))

(* embed_blocking: the cap is settled, the caller's texts are counted, and   *)
(* only then laid out.                                                       *)
PrepareEmbed ==
    /\ progress = "checked" /\ req.route = "embed"
    /\ usage' = UsageOf(req)
    /\ pass' = Layout(Len(req.texts), Batch(req), CapFor(req))
    /\ progress' = "laid out"
    /\ UNCHANGED <<settings, sessions, req, attempt, rows, strayed, answer>>

(* rerank_blocking and score_documents. *)
PrepareRerank ==
    /\ progress = "checked" /\ req.route = "rerank"
    /\ pass' = Layout(Len(req.texts), Batch(req), RerankLength)
    /\ progress' = "laid out"
    /\ UNCHANGED <<settings, sessions, req, usage, attempt, rows, strayed, answer>>

(* The session the pass runs on: resident, or built now.  A session just     *)
(* built for MIGraphX may return mis-shaped runs at first; the canary has    *)
(* run the embedding session by then and used some of them up.               *)
Fresh(e) == \E n \in 0 .. (IF migraphx THEN MaxBad ELSE 0) : bad' = [bad EXCEPT ![e] = n]

Engage ==
    /\ progress = "laid out"
    /\ IF req.route = "embed"
         THEN /\ resident' = pass.cap
              /\ IF resident = pass.cap THEN UNCHANGED bad ELSE Fresh("embed")
              /\ UNCHANGED loaded
         ELSE /\ loaded' = TRUE
              /\ IF loaded THEN UNCHANGED bad ELSE Fresh("rerank")
              /\ UNCHANGED resident
    /\ attempt' = 1
    /\ progress' = "running"
    /\ UNCHANGED <<settings, req, pass, usage, rows, strayed, answer>>

-----------------------------------------------------------------------------
TokensOf(k) == IF k = Ruler THEN RulerTokens ELSE req.texts[k]
Row(k) == [text |-> k, seen |-> Smaller(TokensOf(k), pass.cap)]
(* The chunk the library comes to next: texts.chunks(batch_size). *)
NextChunk(at) == SubSeq(pass.layout, at, Smaller(at + pass.batch - 1, Len(pass.layout)))

Encodes(chunk) == { k \in DOMAIN chunk : chunk[k] # Ruler /\ req.texts[chunk[k]] = Refused } = {}

(* How far the runs have come: the rows a mis-shaped reranker run left out   *)
(* are not made up for.                                                      *)
Reached == Len(rows) + strayed

Runs(chunk) == /\ progress = "running"
               /\ Reached < Len(pass.layout)
               /\ chunk = NextChunk(Reached + 1)

(* embed_batch and the loop body of rerank: one run, one row per input. *)
RunChunk ==
    \E chunk \in {NextChunk(Reached + 1)} :
      /\ Runs(chunk) /\ Encodes(chunk)
      /\ rows' = rows \o [k \in DOMAIN chunk |-> Row(chunk[k])]
      /\ UNCHANGED <<settings, sessions, progress, req, pass, usage, attempt, strayed, answer>>

(* A run of the reranker returns fewer rows than it was given, and they are  *)
(* appended as they are.                                                     *)
RerankRunShort ==
    \E chunk \in {NextChunk(Reached + 1)} : \E n \in 0 .. Len(chunk) - 1 :
      /\ Runs(chunk) /\ Encodes(chunk)
      /\ req.route = "rerank" /\ bad["rerank"] > 0
      /\ bad' = [bad EXCEPT !["rerank"] = @ - 1]
      /\ rows' = rows \o [k \in 1 .. n |-> Row(chunk[k])]
      /\ strayed' = strayed + Len(chunk) - n
      /\ UNCHANGED <<settings, resident, loaded, progress, req, pass, usage, attempt, answer>>

Fails == Respond([status |-> "error"])

(* Mutant of MayRetry: one run fewer. *)
MayRetryOnce == ShouldPin /\ attempt < SettleAttempts - 1

(* embed_settling: the same test that pins retries, three runs in all. *)
MayRetry == ShouldPin /\ attempt < SettleAttempts

(* The library rejects the whole attempt; it is run again from the start, or *)
(* the request fails.                                                        *)
Rejected == /\ rows' = << >>
            /\ IF MayRetry
                 THEN attempt' = attempt + 1 /\ UNCHANGED <<progress, answer>>
                 ELSE UNCHANGED attempt /\ Fails

(* A run of the embedding session does not cover its input: the guards on    *)
(* the dense and the sparse tensor reject it.                                *)
EmbedRunShort ==
    \E chunk \in {NextChunk(Reached + 1)} :
      /\ Runs(chunk) /\ Encodes(chunk)
      /\ req.route = "embed" /\ bad["embed"] > 0
      /\ bad' = [bad EXCEPT !["embed"] = @ - 1]
      /\ Rejected
      /\ UNCHANGED <<settings, resident, loaded, req, pass, usage, strayed>>

(* The library's own tokenizer refuses a text of the chunk. *)
EncodeFails ==
    \E chunk \in {NextChunk(Reached + 1)} :
      /\ Runs(chunk) /\ ~Encodes(chunk)
      /\ IF req.route = "embed" THEN Rejected
                                ELSE Fails /\ UNCHANGED <<rows, attempt>>
      /\ UNCHANGED <<settings, sessions, req, pass, usage, strayed>>

Returned ==
    /\ progress = "running" /\ Reached >= Len(pass.layout)
    /\ progress' = "returned"
    /\ UNCHANGED <<settings, sessions, req, work, answer>>

-----------------------------------------------------------------------------
(* unpin_rows: the rows of the caller's texts, in the caller's order; an     *)
(* error when the layout has rows the session did not give back.             *)
Unpinned(full) == [i \in DOMAIN pass.positions |-> full[pass.positions[i]]]
Covers(full) == \A i \in DOMAIN pass.positions : pass.positions[i] <= Len(full)

AnswerEmbed ==
    /\ progress = "returned" /\ req.route = "embed"
    /\ IF Covers(rows) THEN Respond([status |-> "ok", rows |-> Unpinned(rows), usage |-> usage])
                       ELSE Fails
    /\ UNCHANGED <<settings, sessions, req, work>>

(* What the model thinks of a text; no two texts of the model alike. *)
Score(row) == ((row.seen * 7) % 11) + 1

Before(a, b) == a.score > b.score \/ (a.score = b.score /\ a.index < b.index)

(* rerank: every score with the index it was computed at, best first. *)
Ranked == LET results == { [index |-> i, score |-> Score(rows[i])] : i \in DOMAIN rows }
              place(x) == Cardinality({ y \in results : Before(y, x) }) + 1
          IN  [p \in DOMAIN rows |-> CHOOSE x \in results : place(x) = p]

(* Mutant of Aligned: the scores in the order the library returns them. *)
AlignedAsRanked(ranked) ==
    [i \in DOMAIN pass.layout |-> IF i <= Len(ranked) THEN ranked[i].score ELSE 0]

(* aligned_scores: back in the order of the documents, 0 where there is none.*)
Aligned(ranked) ==
    [i \in DOMAIN pass.layout |->
        IF \E p \in DOMAIN ranked : ranked[p].index = i
          THEN (CHOOSE x \in { ranked[p] : p \in DOMAIN ranked } : x.index = i).score
          ELSE 0]

AnswerRerank ==
    /\ progress = "returned" /\ req.route = "rerank"
    /\ Respond([status |-> "ok", scores |-> Unpinned(Aligned(Ranked))])
    /\ UNCHANGED <<settings, sessions, req, work>>

(* The response has left; the engines stay as they are. *)
Done == /\ progress = "answered"
        /\ progress' = "idle"
        /\ req' = [route |-> "embed", texts |-> << >>, kind |-> "doc",
                   length |-> 0, batch |-> 0, known |-> TRUE]
        /\ pass' = NoPass /\ usage' = Unmeasured
        /\ attempt' = 0 /\ rows' = << >> /\ strayed' = 0
        /\ answer' = NoAnswer
        /\ UNCHANGED <<settings, sessions>>

Serve == \/ RefuseTokenize \/ Tokenize
         \/ PrepareEmbed \/ PrepareRerank \/ Engage
         \/ RunChunk \/ RerankRunShort \/ EmbedRunShort \/ EncodeFails \/ Returned
         \/ AnswerEmbed \/ AnswerRerank \/ Done

ShapesNext == (\E r \in Requests : Arrive(r)) \/ Serve

ShapesSpec == ShapesInit /\ [][ShapesNext]_shapesVars

-----------------------------------------------------------------------------
ShapesTypeOK ==
    /\ migraphx \in BOOLEAN /\ setting \in {"auto", "on", "off"} /\ counter \in BOOLEAN
    /\ resident \in {0} \cup 16 .. ModelLength
    /\ loaded \in BOOLEAN
    /\ bad \in [Sessions -> 0 .. MaxBad]
    /\ progress \in Progress
    /\ req.route \in Routes
    /\ attempt \in 0 .. SettleAttempts
    /\ Len(rows) <= Len(pass.layout)
    /\ answer.status \in {"none", "empty", "bad request", "counted", "error", "ok"}

(* An embedding request that is answered has one row per text, each of that  *)
(* very text, through pinning, batches, mis-shaped first runs and retries: a *)
(* row of a ruler or of a neighbour is a vector of something the caller did  *)
(* not send (inference.rs, pin_shape, unpin_rows and embed_settling;         *)
(* bgem3_dual, embed_batch).                                                 *)
EveryTextItsOwnRow ==
    answer.status = "ok" /\ req.route = "embed"
      => /\ Len(answer.rows) = Len(req.texts)
         /\ \A i \in DOMAIN req.texts : answer.rows[i].text = i

(* The accounting of an answer tells of each text what the model really saw  *)
(* of it: truncated exactly when its row is of a prefix, at the cap the pass *)
(* ran at, and nothing at all when a text could not be counted (tokens.rs,   *)
(* count_tokens and usage_from_counts; inference.rs, cap_for and             *)
(* embed_blocking).                                                          *)
AccountingIsTrue ==
    answer.status = "ok" /\ req.route = "embed" /\ answer.usage # Unmeasured
      => \A i \in DOMAIN req.texts :
            answer.usage.truncated[i] <=> answer.rows[i].seen < req.texts[i]

(* A request whose texts can be encoded survives the bad runs of a fresh     *)
(* session, as long as they are fewer than the runs embed_settling allows    *)
(* (inference.rs, embed_settling, SETTLE_ATTEMPTS).                          *)
FirstRunsAreAbsorbed ==
    answer.status = "error" /\ req.route = "embed" /\ ShouldPin
      => \E i \in DOMAIN req.texts : req.texts[i] = Refused

(* Scores come back in the order of the documents and not of the scores,     *)
(* when the reranker's runs returned a row for every input (reranking/       *)
(* impl.rs, rerank; inference.rs, aligned_scores and score_documents).       *)
EveryDocumentItsScore ==
    answer.status = "ok" /\ req.route = "rerank" /\ strayed = 0
      => \A i \in DOMAIN req.texts :
            answer.scores[i] = Score([text |-> i, seen |-> Smaller(req.texts[i], pass.cap)])

(* What the comment on unpin_rows says of a pass that gave back fewer rows   *)
(* than the layout expects: an error, never a result that is out of line.    *)
NoScoreIsMisaligned ==
    answer.status = "ok" /\ req.route = "rerank"
      => \A i \in DOMAIN req.texts :
            answer.scores[i] = Score([text |-> i, seen |-> Smaller(req.texts[i], pass.cap)])

-----------------------------------------------------------------------------
(* The inductive invariant: what is handed to the library is the layout of   *)
(* the texts, and what came back is of it, row by row.                       *)
RequestTyped ==
    /\ migraphx \in BOOLEAN /\ setting \in {"auto", "on", "off"} /\ counter \in BOOLEAN
    /\ resident \in {0} \cup 16 .. ModelLength
    /\ loaded \in BOOLEAN
    /\ bad \in [Sessions -> 0 .. MaxBad]
    /\ progress \in Progress
    /\ req.route \in Routes /\ req.texts \in Texts
    /\ req.length \in Nat /\ req.batch \in Nat
    /\ attempt \in 0 .. SettleAttempts
    /\ pass.layout \in Seq(Nat) /\ pass.cap \in Nat
    /\ strayed \in Nat
    /\ rows \in Seq([text : Nat, seen : Nat])

Handed == progress \in {"laid out", "running", "returned"}

PassIsLayout ==
    Handed => /\ req.route \in {"embed", "rerank"}
              /\ pass = Layout(Len(req.texts), Batch(req), pass.cap)
              /\ req.route = "embed" => /\ pass.cap \in 16 .. ModelLength
                                        /\ usage = Counts(req.texts, pass.cap)

RowsFollow ==
    /\ progress \in {"idle", "checked", "laid out"} => rows = << >> /\ strayed = 0
    /\ req.route # "rerank" => strayed = 0
    /\ Reached <= Len(pass.layout)
    /\ Handed /\ strayed = 0 => \A k \in DOMAIN rows : /\ rows[k] = Row(pass.layout[k])
                                                       /\ TokensOf(pass.layout[k]) \in Nat
    /\ progress = "returned" => Reached = Len(pass.layout)

(* Every retry was paid for by a bad run of the session, or a text is at fault.*)
RetriesArePaid ==
    progress = "running" /\ req.route = "embed" /\ ShouldPin
      => \/ attempt + bad["embed"] <= MaxBad + 1
         \/ \E i \in DOMAIN req.texts : req.texts[i] = Refused

AnswerTells ==
    /\ answer.status # "none" => progress = "answered"
    /\ answer.status \in {"none", "empty", "bad request", "counted", "error", "ok"}
    /\ answer.status = "ok" /\ req.route = "embed" =>
         /\ Len(answer.rows) = Len(req.texts)
         /\ \A i \in DOMAIN req.texts : answer.rows[i] = Row(i) /\ req.texts[i] \in Nat
         /\ answer.usage = Counts(req.texts, pass.cap)
    /\ answer.status = "ok" /\ req.route = "rerank" /\ strayed = 0 =>
         \A i \in DOMAIN req.texts : answer.scores[i] = Score(Row(i))

ShapesIInv == RequestTyped /\ PassIsLayout /\ RowsFollow /\ RetriesArePaid /\ AnswerTells

=============================================================================
