--------------------------- MODULE AdapterTraining ---------------------------
(***************************************************************************)
(* LoRA fine-tuning: the corpus contract, the dry run, the confirmed run,   *)
(* the evaluation gate, and the evidence written beside the adapter.  Runs  *)
(* follow each other on one output directory; the corpus file may be edited *)
(* and a run may fail or die at any step.                                   *)
(* Losses are integers, in the units metrics are rounded to; NoLoss is a    *)
(* loss that was not produced or is not finite.                             *)
(***************************************************************************)
EXTENDS Integers, Sequences, FiniteSets

CONSTANTS
    Corpora,        \* what the corpus file can hold
    TrainConfigs,   \* configurations a caller passes
    Installed,      \* optional packages that can be found
    Losses,         \* validation losses, NoLoss among them
    MaxRuns,        \* bound on the runs
    MaxEdits        \* bound on edits of the corpus file

NoLoss == -1

ASSUME TrainingAssumption ==
    /\ MaxRuns \in Nat /\ MaxEdits \in Nat /\ Losses \subseteq Nat \cup {NoLoss}
    /\ \A c \in TrainConfigs : c.min \in Int
    /\ \A c \in Corpora : Len(c.records) \in Nat

VARIABLES
    corpus,     \* the corpus file
    runNo,      \* number of the current, or last, run
    trn,        \* the run: where it is and what it knows
    adapter,    \* run that wrote to the adapter's files last, 0 when none did
    tokenizer,  \* likewise for the tokenizer
    evidence,   \* adapter_manifest.json, NoEvidence when absent
    card,       \* run that wrote MODEL_CARD.md, 0 when absent
    measured,   \* losses each run measured (for the property)
    edits

trainVars == <<corpus, runNo, trn, adapter, tokenizer, evidence, card, measured, edits>>

NoCorpus == [version |-> "missing", id |-> FALSE, records |-> <<>>]
NoEvidence == [run |-> 0]
Off == [at |-> "off"]

TrainingTypeOK ==
    /\ corpus \in Corpora \cup {NoCorpus} /\ runNo \in 0 .. MaxRuns /\ edits \in 0 .. MaxEdits
    /\ trn.at \in {"off", "inspect", "load", "import", "rows", "baseline", "train", "final", "save",
                   "savetok", "gate", "manifest", "card", "dry", "refused", "raised", "completed"}
    /\ adapter \in 0 .. runNo /\ tokenizer \in 0 .. runNo /\ card \in 0 .. runNo
    /\ evidence.run \in 0 .. runNo

TrainingInit ==
    /\ corpus \in Corpora \cup {NoCorpus} /\ runNo = 0 /\ trn = Off
    /\ adapter = 0 /\ tokenizer = 0 /\ evidence = NoEvidence /\ card = 0
    /\ measured = <<>> /\ edits = 0

(***************************************************************************)
(* The corpus contract.  A record is [id, split, roles, texts, values]:     *)
(* split is "absent" when metadata has none; texts are what its messages    *)
(* and metadata hold, values the kinds of its metadata values.              *)
(***************************************************************************)

\* _validate_conversation_shape: an optional system message, then user and
\* assistant in turn, the assistant last.
ConversationShape(roles) ==
    LET from == IF roles[1] = "system" THEN 2 ELSE 1
        turns == SubSeq(roles, from, Len(roles))
    IN  /\ Len(turns) >= 2
        /\ \A i \in 1 .. Len(turns) : turns[i] = IF i % 2 = 1 THEN "user" ELSE "assistant"
        /\ turns[Len(turns)] = "assistant"

\* _scan_sensitive_text
Sensitive == {"private key", "access key", "token", "credential", "authorization",
              "email", "government id", "phone", "card"}
ScanSensitive(texts) == texts \cap Sensitive = {}

\* _validate_metadata: scalars, and lists of short strings.
MetadataValid(values) == values \subseteq {"scalar", "short text", "short strings"}

\* _parse_record: a message is neither blank nor too long.
RecordValid(r) ==
    /\ r.id # "" /\ MetadataValid(r.values)
    /\ r.texts \cap {"blank", "too long"} = {} /\ ScanSensitive(r.texts)
    /\ r.split \in {"absent", "train", "validation", "test"}
    /\ Len(r.roles) \in 2 .. 32 /\ ConversationShape(r.roles)

\* load_supervised_dataset, parse_supervised_dataset.  The schema version, the
\* maximum of records and the scan of description, licence and top-level metadata
\* refuse more corpora, in the same way.
CorpusValid(c) ==
    /\ c # NoCorpus /\ c.id
    /\ c.records # <<>> /\ \A i \in 1 .. Len(c.records) : RecordValid(c.records[i])
    /\ \A i, j \in 1 .. Len(c.records) : c.records[i].id = c.records[j].id => i = j

\* SupervisedDataset.split: only records that name the split.
SplitOf(c, name) == {i \in 1 .. Len(c.records) : c.records[i].split = name}

\* _dataset_rows: a record that names no split is trained on.
TrainRows(c) == SplitOf(c, "train") \cup SplitOf(c, "absent")

(***************************************************************************)
(* A run                                                                   *)
(***************************************************************************)

\* LoRAConfig.__post_init__: dropout in hundredths.
Ranks == 1 .. 256
Dropouts == 0 .. 99
SequenceLengths == 64 .. 32768
ConfigValid(c) ==
    /\ c.named /\ c.modules > 0 /\ c.rank \in Ranks /\ c.alpha > 0
    /\ c.dropout \in Dropouts /\ c.rate > 0 /\ c.epochs > 0 /\ c.batch >= 1 /\ c.accumulate >= 1
    /\ c.sequence \in SequenceLengths /\ c.backend \in {"transformers", "trl"} /\ c.min >= 0

RequiredPackages(c) ==
    {"torch", "transformers", "datasets", "peft", "accelerate"}
        \cup (IF c.backend = "trl" THEN {"trl"} ELSE {})
        \cup (IF c.four_bit THEN {"bitsandbytes"} ELSE {})

Ready(c) == RequiredPackages(c) \subseteq Installed

Goes(at) == trn' = [trn EXCEPT !.at = at]

\* A configuration that cannot be built never starts a run.
BeginTraining(c, dry, confirm) ==
    /\ trn = Off /\ runNo < MaxRuns /\ ConfigValid(c)
    /\ runNo' = runNo + 1 /\ measured' = Append(measured, <<NoLoss, NoLoss>>)
    /\ trn' = [at |-> "inspect", config |-> c, dry |-> dry, confirm |-> confirm,
               data |-> NoCorpus, gain |-> 0]
    /\ UNCHANGED <<corpus, adapter, tokenizer, evidence, card, edits>>

\* inspect_training_readiness, then the refusals of run_lora_training.
Inspect ==
    /\ trn.at = "inspect"
    /\ Goes(IF ~CorpusValid(corpus) THEN "raised"
            ELSE IF trn.dry THEN "dry"
            ELSE IF ~trn.confirm \/ ~Ready(trn.config) THEN "refused" ELSE "load")
    /\ UNCHANGED <<corpus, runNo, adapter, tokenizer, evidence, card, measured, edits>>

\* The corpus is read a second time; a validation split must be named.
LoadCorpus ==
    /\ trn.at = "load"
    /\ trn' = [trn EXCEPT !.data = corpus,
                 !.at = IF ~CorpusValid(corpus) THEN "raised"
                        ELSE IF SplitOf(corpus, "validation") = {} THEN "refused" ELSE "import"]
    /\ UNCHANGED <<corpus, runNo, adapter, tokenizer, evidence, card, measured, edits>>

\* _load_training_dependencies: a package that is found may not import.
ImportPackages ==
    /\ trn.at = "import" /\ (Goes("rows") \/ Goes("raised"))
    /\ UNCHANGED <<corpus, runNo, adapter, tokenizer, evidence, card, measured, edits>>

\* _dataset_rows, tokenizer, base model and trainer of the two backends.
BuildTrainer(backend) ==
    /\ trn.at = "rows" /\ trn.config.backend = backend
    /\ IF TrainRows(trn.data) = {} THEN Goes("refused") ELSE Goes("baseline") \/ Goes("raised")
    /\ UNCHANGED <<corpus, runNo, adapter, tokenizer, evidence, card, measured, edits>>
RunTransformersTraining == BuildTrainer("transformers")
RunTrlTraining == BuildTrainer("trl")

\* _evaluate_validation_loss: a loss that is missing or not finite is refused.
Evaluate(from, next, slot) ==
    /\ trn.at = from
    /\ \E loss \in Losses :
        /\ measured' = [measured EXCEPT ![runNo][slot] = loss]
        /\ Goes(IF loss = NoLoss THEN "refused" ELSE next)
    /\ UNCHANGED <<corpus, runNo, adapter, tokenizer, evidence, card, edits>>

Train ==
    /\ trn.at = "train" /\ (Goes("final") \/ Goes("raised"))
    /\ UNCHANGED <<corpus, runNo, adapter, tokenizer, evidence, card, measured, edits>>

\* save_model, then save_pretrained: before the gate has decided anything.  Each
\* overwrites several files; one that fails or dies may already have begun to.
SaveModel ==
    /\ trn.at = "save"
    /\ \/ Goes("savetok") /\ adapter' = runNo
       \/ Goes("raised") /\ adapter' \in {adapter, runNo}
    /\ UNCHANGED <<corpus, runNo, tokenizer, evidence, card, measured, edits>>
SaveTokenizer ==
    /\ trn.at = "savetok"
    /\ \/ Goes("gate") /\ tokenizer' = runNo
       \/ Goes("raised") /\ tokenizer' \in {tokenizer, runNo}
    /\ UNCHANGED <<corpus, runNo, adapter, evidence, card, measured, edits>>

\* Mutant: the improvement is the distance between the losses.
ImprovementUnsigned(baseline, final) ==
    IF baseline >= final THEN baseline - final ELSE final - baseline
Improvement(baseline, final) == baseline - final

\* _enforce_evaluation_gate: a refused adapter stays where it was saved.
Gate ==
    /\ trn.at = "gate"
    /\ LET gain == Improvement(measured[runNo][1], measured[runNo][2])
       IN  trn' = [trn EXCEPT !.gain = gain,
                     !.at = IF gain < trn.config.min THEN "refused" ELSE "manifest"]
    /\ UNCHANGED <<corpus, runNo, adapter, tokenizer, evidence, card, measured, edits>>

\* _write_adapter_evidence: the digest is that of the file as it is now.
WriteEvidence ==
    /\ trn.at = "manifest"
    /\ \/ /\ corpus # NoCorpus /\ Goes("card")
          /\ evidence' = [run |-> runNo, digest |-> corpus.version, gain |-> trn.gain,
                          min |-> trn.config.min, records |-> Len(trn.data.records),
                          validation |-> Cardinality(SplitOf(trn.data, "validation"))]
       \/ Goes("raised") /\ UNCHANGED evidence
    /\ UNCHANGED <<corpus, runNo, adapter, tokenizer, card, measured, edits>>

WriteCard ==
    /\ trn.at = "card"
    /\ \/ Goes("completed") /\ card' = runNo
       \/ Goes("raised") /\ UNCHANGED card
    /\ UNCHANGED <<corpus, runNo, adapter, tokenizer, evidence, measured, edits>>

\* The caller has its result or its error, or the process died.
TrainingEnds ==
    /\ trn # Off /\ trn' = Off
    /\ UNCHANGED <<corpus, runNo, adapter, tokenizer, evidence, card, measured, edits>>

EditCorpus ==
    /\ edits < MaxEdits /\ edits' = edits + 1
    /\ corpus' \in (Corpora \cup {NoCorpus}) \ {corpus}
    /\ UNCHANGED <<runNo, trn, adapter, tokenizer, evidence, card, measured>>

TrainingNext ==
    \/ \E c \in TrainConfigs, dry, confirm \in BOOLEAN : BeginTraining(c, dry, confirm)
    \/ Inspect \/ LoadCorpus \/ ImportPackages
    \/ RunTransformersTraining \/ RunTrlTraining
    \/ Evaluate("baseline", "train", 1) \/ Train \/ Evaluate("final", "save", 2)
    \/ SaveModel \/ SaveTokenizer \/ Gate \/ WriteEvidence \/ WriteCard
    \/ TrainingEnds \/ EditCorpus

TrainingSpec == TrainingInit /\ [][TrainingNext]_trainVars

(***************************************************************************)
(* Properties                                                              *)
(***************************************************************************)

\* A manifest that declares an adapter eligible for promotion was earned: the
\* run it names measured two finite validation losses on at least one named
\* validation record, and the second is lower by what the configuration
\* asks.  The adapter it vouches for is the one in the directory, with its
\* tokenizer and, once the run is reported complete, its model card, unless
\* a later run, be it refused or broken off, has written to them: the manifest
\* is no protection against that.
PromotionEarned ==
    evidence.run # 0 =>
        LET loss == measured[evidence.run]
        IN  /\ loss[1] # NoLoss /\ loss[2] # NoLoss /\ loss[2] + evidence.min <= loss[1]
            /\ evidence.min >= 0 /\ evidence.validation \in 1 .. evidence.records - 1
            /\ evidence.run <= adapter /\ evidence.run <= tokenizer /\ card <= evidence.run
            /\ trn.at = "completed" => /\ evidence.run = runNo /\ card = runNo
                                       /\ adapter = runNo /\ tokenizer = runNo
=============================================================================
