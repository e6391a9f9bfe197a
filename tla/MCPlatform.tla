----------------------------- MODULE MCPlatform -----------------------------
(***************************************************************************)
(* Instances of the platform's components for TLC.  They do not share      *)
(* state, so they are checked side by side: `part' names the one that      *)
(* moves, the others keep one initial state.                               *)
(***************************************************************************)
EXTENDS BackupRestore, ChatUsage, LLMSettings, WorkerHealth, RequestGate, Retrieval,
        ToolServer, AnswerPipeline, DocumentChunking, PublicKnowledge, AdapterTraining

VARIABLE part

-----------------------------------------------------------------------------
(* Constants of the backups, the chat usage and the settings.              *)

MCSources == {<<"postgresql", "chroma_local">>}

MCRoute == [q1 |-> "agent_task", q2 |-> "agent_task", q3 |-> "agent_chat"]
MCSpent == [q1 |-> [input |-> 1, output |-> 2, tools |-> 0],
            q2 |-> [input |-> 2, output |-> 1, tools |-> 1],
            q3 |-> [input |-> 1, output |-> 1, tools |-> 2]]
MCDailyLimit == [free |-> 1, pro |-> 2]

MCProviders == <<"deepseek", "gemini">>

-----------------------------------------------------------------------------
(* Constants of the retrieval.                                             *)

StoredChunk(id, doc, text, tenant, company, dist, bm25) ==
    [id |-> id, doc |-> doc, text |-> text, tenant |-> tenant, company |-> company,
     dist |-> dist, bm25 |-> bm25, sourced |-> id # 2]
MCChunks ==
    {StoredChunk(1, "a", 1, 1, "x", 1, 0), StoredChunk(2, "a", 2, 1, "x", 2, 1),
     StoredChunk(3, "b", 3, 1, "y", 5, 2), StoredChunk(4, "b", 3, 1, "y", 6, 2),
     StoredChunk(5, "p", 5, 0, "y", 3, 3), StoredChunk(6, "q", 6, 2, "y", 4, 4)}

AnyContext ==
    [tenant |-> 1, public |-> FALSE, docs |-> {}, company |-> "any", topk |-> 1,
     enriched |-> FALSE, valid |-> FALSE]
MCContexts ==
    [tenant : {0, 1}, public : BOOLEAN, docs : {{}, {"b"}}, company : {"any", "y"},
     topk : {1, 2}, enriched : BOOLEAN, valid : {TRUE}] \cup {AnyContext}

-----------------------------------------------------------------------------
(* Constants of the tool server: JSON values and messages.                 *)

Json(type, size, word) == [type |-> type, size |-> size, word |-> word, items |-> <<>>]
JsonArray(items) == [type |-> "array", size |-> Len(items), word |-> "", items |-> items]
NoArgs == [p \in {} |-> Json("null", 0, "")]
Message(method, id) ==
    [kind |-> "message", jsonrpc |-> TRUE, id |-> id, method |-> method, valid |-> TRUE,
     name |-> "", argsType |-> "object", args |-> NoArgs]
NoMessage(kind) == [Message("", FALSE) EXCEPT !.kind = kind]
CallTool(id, name, args) ==
    [Message("tools/call", id) EXCEPT !.name = name, !.args = args]
Query(word) == [query |-> Json("string", 1, word)]
Ratio(d) ==
    [operation |-> Json("string", 5, "ratio"), numerator |-> Json("integer", 1, ""),
     denominator |-> Json("integer", d, "")]
Growth(word) ==
    [operation |-> Json("string", 5, "cagr"), starting_value |-> Json("number", 1, ""),
     ending_value |-> Json("number", 1, word), periods |-> Json("number", 1, "")]
MCLines ==
    {NoMessage("blank"), NoMessage("garbage"), NoMessage("array"),
     [Message("ping", TRUE) EXCEPT !.jsonrpc = FALSE], Message("ping", TRUE),
     Message("initialize", TRUE), Message("initialize", FALSE),
     [Message("initialize", TRUE) EXCEPT !.valid = FALSE],
     Message("notifications/initialized", FALSE),
     Message("notifications/initialized", TRUE),
     Message("tools/list", TRUE), Message("resources/list", TRUE),
     Message("tools/call", TRUE),
     [CallTool(TRUE, "retrieval", NoArgs) EXCEPT !.argsType = "array"],
     [CallTool(TRUE, "retrieval", NoArgs) EXCEPT !.argsType = "null"],
     CallTool(TRUE, "retrieval", Query("text")),
     CallTool(FALSE, "retrieval", Query("text")),
     CallTool(TRUE, "retrieval", Query("blank") @@ [top_k |-> Json("integer", 2, ""),
        document_ids |-> JsonArray(<<Json("string", 1, "text")>>)]),
     CallTool(TRUE, "retrieval", Query("text") @@ [tenant_id |-> Json("integer", 2, "")]),
     CallTool(TRUE, "financial_metrics", Ratio(1)),
     CallTool(TRUE, "financial_metrics", Growth("huge")),
     CallTool(TRUE, "financial_metrics", Ratio(0))}
Metric(params) == [tool |-> "financial_metrics", params |-> params]
MCSteps ==
    {Metric(Growth(word)) : word \in {"nan", "infinite", "huge"}} \cup
    {Metric([operation |-> Json("string", 5, "sum")]),
     Metric([operation |-> Json("string", 5, "growth_rate"),
             current |-> Json("number", 1, ""), previous |-> Json("number", -1, "")]),
     [tool |-> "python", params |-> NoArgs]}

-----------------------------------------------------------------------------
(* Constants of the answers.                                               *)

Question(task, companies) ==
    [task |-> task, companies |-> companies, years |-> 0, metric |-> FALSE]
MCAnswerQuestions ==
    {Question("chat", 0), Question("ocr", 0), Question("document_qa", 1),
     Question("research", 0), Question("comparison", 2),
     [Question("document_qa", 0) EXCEPT !.metric = TRUE]}
MCRegistered == <<"deepseek", "gemini", "openai">>
MCUserSettings ==
    {[configs |-> {}, default |-> "gemini"],
     [configs |-> {"gemini", "openai"}, default |-> "openai"]}
MCMentions == {{}, {"connection"}, {"permission", "500"}}

-----------------------------------------------------------------------------
(* Constants of the chunking: blocks of a page and the counts OCR text is  *)
(* judged by.                                                              *)

Counts(visible, alnum, bad, words, singles, useful) ==
    [visible |-> visible, alnum |-> alnum, bad |-> bad, badRun |-> bad,
     dominant |-> visible \div 8, tokens |-> words, singles |-> singles,
     useful |-> useful, cjk |-> 0]
Clear == Counts(60, 55, 0, 11, 1, 54)
Spotty == Counts(120, 110, 0, 20, 7, 103)
Garbled == Counts(20, 12, 3, 4, 1, 11)
Block(id, sentences, look, prose, counts) ==
    [id |-> id, sentences |-> sentences, look |-> look, prose |-> prose, counts |-> counts]
Blocks ==
    {Block(1, <<1>>, "plain", FALSE, Clear), Block(2, <<3>>, "plain", TRUE, Clear),
     Block(3, <<10>>, "plain", TRUE, Clear), Block(4, <<3, 5, 4>>, "plain", TRUE, Clear),
     Block(5, <<2>>, "title", FALSE, Clear), Block(6, <<5>>, "upper", FALSE, Clear)}
Seen(id, counts) == Block(id, <<4>>, "plain", TRUE, counts)
OcrReadings ==
    {<<>>, <<Seen(7, Spotty)>>, <<Seen(7, Spotty), Seen(8, Spotty)>>,
     <<Seen(9, Garbled), Seen(7, Clear)>>}
Page(native, ocr, ocrFails) == [native |-> native, ocr |-> ocr, ocrFails |-> ocrFails]
PageBlocks(n) == UNION {[1 .. k -> Blocks] : k \in 0 .. n}
MCDocuments ==
    {<<Page(s, <<>>, FALSE)>> : s \in PageBlocks(3)}
        \cup {<<Page(s, <<>>, FALSE), Page(t, <<>>, FALSE)>> : s, t \in PageBlocks(2)}
        \cup {<<Page(s, o, f), Page(<<Seen(2, Clear)>>, <<>>, FALSE)>> :
                    s \in PageBlocks(1), o \in OcrReadings, f \in BOOLEAN}

\* The settings are of the kind the theorem about the chunks is about.
ASSUME ChunkSettings == SensibleSizes

-----------------------------------------------------------------------------
(* Constants of the training.                                              *)

Record(id, split, roles) ==
    [id |-> id, split |-> split, roles |-> roles, texts |-> {"plain"}, values |-> {"scalar"}]
Talk == <<"user", "assistant">>
TrainCorpus(v, r1, r2) == [version |-> v, id |-> TRUE, records |-> <<r1, r2>>]
Validation == Record("r2", "validation", Talk)
MCCorpora ==
    {TrainCorpus("good", Record("r1", "absent", <<"system">> \o Talk), Validation),
     TrainCorpus("unsplit", Record("r1", "absent", Talk), Record("r2", "train", Talk)),
     TrainCorpus("untrained", Record("r1", "test", Talk), Validation),
     TrainCorpus("misshapen", Record("r1", "train", Talk \o <<"user">>), Validation),
     TrainCorpus("unsafe", [Record("r1", "train", Talk) EXCEPT !.texts = {"email"}],
                 Validation),
     TrainCorpus("repeated", Record("r2", "train", Talk), Validation)}
TrainConfig(backend, min, rank) ==
    [named |-> TRUE, modules |-> 4, rank |-> rank, alpha |-> 32, dropout |-> 5, rate |-> 1,
     epochs |-> 1, batch |-> 1, accumulate |-> 8, sequence |-> 1024, backend |-> backend,
     four_bit |-> FALSE, min |-> min]
MCTrainConfigs ==
    {TrainConfig("transformers", 0, 16), TrainConfig("transformers", 1, 16),
     TrainConfig("trl", 0, 16), TrainConfig("transformers", 0, 257),
     [TrainConfig("transformers", 0, 16) EXCEPT !.four_bit = TRUE]}
MCLosses == {NoLoss, 1, 2}

-----------------------------------------------------------------------------
(* One part moves.                                                         *)

operations == <<backupVars, healthVars, gateVars>>
accounts == <<chatVars, setVars>>
knowledge == <<retrVars, chunkVars, knowVars>>
answers == <<toolVars, answerVars>>

Parts == {"backup", "chat", "settings", "health", "gate", "retrieval", "tools",
          "answers", "chunking", "knowledge", "training"}

PlatformInit ==
    /\ part \in Parts
    /\ BackupInit /\ SettingsInit /\ HealthInit /\ GateInit /\ AnswerInit
    /\ ChatInit /\ ToolInit /\ TrainingInit /\ KnowledgeInit
    /\ part # "chat" => plan = "none" /\ limited = FALSE
    /\ ~limited => plan = "none"  \* the plan is not looked at
    /\ part # "tools" => allowed = {}
    /\ part # "training" => corpus = NoCorpus
    /\ part # "knowledge" => shipped = <<>>
    /\ part # "chunking" => pdf = <<Page(<<>>, <<>>, FALSE)>>
    /\ ChunkInit
    /\ part # "retrieval" => stored = {} /\ ctx = AnyContext
    /\ RetrievalInit

Backups == part = "backup" /\ BackupNext
           /\ UNCHANGED <<part, healthVars, gateVars, accounts, knowledge, answers, trainVars>>
Health == part = "health" /\ HealthNext
          /\ UNCHANGED <<part, backupVars, gateVars, accounts, knowledge, answers, trainVars>>
Gates == part = "gate" /\ GateNext
         /\ UNCHANGED <<part, backupVars, healthVars, accounts, knowledge, answers, trainVars>>
Chats == part = "chat" /\ ChatNext
         \* Nor is the day; and the day passes for one plan only, the free one.
         /\ (~limited \/ plan = "pro" => chatDay' = 0)
         /\ UNCHANGED <<part, operations, setVars, knowledge, answers, trainVars>>
Settings == part = "settings" /\ SettingsNext
            /\ UNCHANGED <<part, operations, chatVars, knowledge, answers, trainVars>>
Retrievals == part = "retrieval" /\ RetrievalNext
              /\ UNCHANGED <<part, operations, accounts, chunkVars, knowVars, answers, trainVars>>
Chunking == part = "chunking" /\ ChunkNext
            /\ UNCHANGED <<part, operations, accounts, retrVars, knowVars, answers, trainVars>>
Knowledge == part = "knowledge" /\ KnowledgeNext
             /\ UNCHANGED <<part, operations, accounts, retrVars, chunkVars, answers, trainVars>>
Tools == part = "tools" /\ ToolNext
         /\ UNCHANGED <<part, operations, accounts, knowledge, answerVars, trainVars>>
Answers == part = "answers" /\ AnswerNext
           /\ UNCHANGED <<part, operations, accounts, knowledge, toolVars, trainVars>>
Training == part = "training" /\ TrainingNext
            /\ UNCHANGED <<part, operations, accounts, knowledge, answers>>

PlatformNext ==
    \/ Backups \/ Health \/ Gates \/ Chats \/ Settings \/ Retrievals \/ Chunking
    \/ Knowledge \/ Tools \/ Answers \/ Training

platformVars == <<part, operations, accounts, knowledge, answers, trainVars>>
PlatformSpec == PlatformInit /\ [][PlatformNext]_platformVars

\* Type invariant of the components.
PlatformTypeOK ==
    /\ part = "backup" => BackupTypeOK
    /\ part = "health" => HealthTypeOK
    /\ part = "gate" => GateTypeOK
    /\ part = "chat" => ChatTypeOK
    /\ part = "settings" => SettingsTypeOK
    /\ part = "retrieval" => RetrievalTypeOK
    /\ part = "chunking" => ChunkTypeOK
    /\ part = "knowledge" => KnowledgeTypeOK
    /\ part = "tools" => ToolTypeOK
    /\ part = "answers" => AnswerTypeOK
    /\ part = "training" => TrainingTypeOK
=============================================================================
