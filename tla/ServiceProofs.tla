--------------------------- MODULE ServiceProofs ---------------------------
(***************************************************************************)
(* Proofs about services beside the agent: adapter training, for any       *)
(* corpora, configurations and losses; the public knowledge base, for any  *)
(* number of refreshers and any documents; the LLM settings, for any       *)
(* number of servers and requests; and the bills of chats, for any number  *)
(* of requests, retries, kills and faults.                                 *)
(***************************************************************************)
EXTENDS AdapterTraining, PublicKnowledge, LLMSettings, ChatUsage, FiniteSetTheorems,
        WellFoundedInduction, TLAPS

-----------------------------------------------------------------------------
(* Adapter training.  The invariant says what a run has done when it is at *)
(* a stage, so that the evidence it writes is about its own losses.        *)

\* The stages in order, as sets of the stages from one on.
Done == {"completed"}
FromCard == {"card"} \cup Done
FromManifest == {"manifest"} \cup FromCard
FromGate == {"gate"} \cup FromManifest
FromSavetok == {"savetok"} \cup FromGate
FromSave == {"save"} \cup FromSavetok
FromTrain == {"train", "final"} \cup FromSave
FromBaseline == {"baseline"} \cup FromTrain
FromImport == {"import", "rows"} \cup FromBaseline

\* Stages of a run that has not written its evidence and may measure a loss.
BeforeEvidence == {"inspect", "load", "import", "rows", "baseline", "train", "final",
                   "save", "savetok", "gate", "manifest"}

LossSet == Losses \cup {NoLoss}
TrainingTyped ==
    /\ TrainingTypeOK
    /\ measured \in Seq([1 .. 2 -> LossSet]) /\ Len(measured) = runNo
    /\ trn.at # "off" =>
        /\ trn = [at |-> trn.at, config |-> trn.config, dry |-> trn.dry,
                  confirm |-> trn.confirm, data |-> trn.data, gain |-> trn.gain]
        /\ runNo >= 1 /\ trn.config \in TrainConfigs /\ trn.config.min >= 0
        /\ trn.data \in Corpora \cup {NoCorpus} /\ trn.gain \in Int

\* What a run at a stage has behind it.
Progress ==
    /\ trn.at \in FromImport => SplitOf(trn.data, "validation") # {}
    /\ trn.at \in FromBaseline => TrainRows(trn.data) # {}
    /\ trn.at \in FromTrain => measured[runNo][1] # NoLoss
    /\ trn.at \in FromSave => measured[runNo][2] # NoLoss
    /\ trn.at \in FromSavetok => adapter = runNo
    /\ trn.at \in FromGate => tokenizer = runNo
    /\ trn.at \in FromManifest =>
        /\ trn.gain = measured[runNo][1] - measured[runNo][2]
        /\ trn.gain >= trn.config.min
    /\ trn.at \in FromCard => evidence.run = runNo
    /\ trn.at \in Done => card = runNo
    /\ trn.at \in BeforeEvidence => evidence.run < runNo

\* What the manifest in the directory says is true.
Earned ==
    /\ card <= evidence.run
    /\ evidence.run # 0 =>
        /\ evidence.min \in Int /\ evidence.min >= 0
        /\ measured[evidence.run][1] # NoLoss /\ measured[evidence.run][2] # NoLoss
        /\ measured[evidence.run][2] + evidence.min <= measured[evidence.run][1]
        /\ evidence.validation \in 1 .. evidence.records - 1
        /\ evidence.run <= adapter /\ evidence.run <= tokenizer

TrainingInv == TrainingTyped /\ Progress /\ Earned

\* A corpus with a validation record and a record to train on has more records
\* than validation records.
LEMMA SplitSizes ==
    ASSUME NEW c \in Corpora \cup {NoCorpus}, SplitOf(c, "validation") # {}, TrainRows(c) # {}
    PROVE  Cardinality(SplitOf(c, "validation")) \in 1 .. Len(c.records) - 1
<1> DEFINE n == Len(c.records)
           V == SplitOf(c, "validation")
           T == TrainRows(c)
<1>1. n \in Nat
  BY TrainingAssumption DEF NoCorpus
<1>2. IsFiniteSet(1 .. n) /\ Cardinality(1 .. n) = n
  BY <1>1, FS_Interval
<1>3. V \subseteq 1 .. n /\ T \subseteq 1 .. n /\ V \cap T = {}
  BY DEF SplitOf, TrainRows
<1>4. PICK t \in T : t \in 1 .. n /\ t \notin V
  BY <1>3
<1>5. IsFiniteSet(V) /\ Cardinality(V) \in Nat /\ Cardinality(V) # 0
  BY <1>2, <1>3, FS_Subset, FS_CardinalityType, FS_EmptySet
<1>6. Cardinality(V) <= Cardinality((1 .. n) \ {t})
  BY <1>2, <1>3, <1>4, FS_Subset, FS_RemoveElement
<1>7. Cardinality((1 .. n) \ {t}) = n - 1
  BY <1>2, <1>4, FS_RemoveElement
<1> HIDE DEF n, V
<1>8. Cardinality(V) \in 1 .. n - 1
  BY <1>1, <1>5, <1>6, <1>7
<1> QED BY <1>8 DEF n, V

\* The two losses of a run are numbers.
LEMMA LossPair == \A p \in [1 .. 2 -> LossSet] : p[1] \in Int /\ p[2] \in Int
<1>1. LossSet \subseteq Int
  BY TrainingAssumption DEF LossSet, NoLoss
<1>2. \A p \in [1 .. 2 -> LossSet] : p[1] \in LossSet /\ p[2] \in LossSet
  OBVIOUS
<1> QED BY <1>1, <1>2

\* A configuration that LoRAConfig accepts asks for no worsening.
LEMMA ValidMinimum == ASSUME NEW c, ConfigValid(c) PROVE c.min >= 0
BY Zenon DEF ConfigValid

\* A directory without adapters, no run.
LEMMA InitTraining == TrainingInit => TrainingInv
<1> SUFFICES ASSUME TrainingInit PROVE TrainingInv
  OBVIOUS
<1>1. trn.at = "off" /\ evidence.run = 0
  BY DEF TrainingInit, Off, NoEvidence
<1>2. TrainingTyped
  BY <1>1, TrainingAssumption DEF TrainingInit, TrainingTyped, TrainingTypeOK
<1>3. Progress
  BY <1>1 DEF Progress, FromImport, FromBaseline, FromTrain, FromSave, FromSavetok, FromGate,
     FromManifest, FromCard, Done, BeforeEvidence
<1> QED BY <1>1, <1>2, <1>3 DEF TrainingInv, Earned, TrainingInit

\* A step that goes from one stage to another and touches nothing else.
LEMMA StepGoes ==
    ASSUME TrainingInv, trn.at # "off", NEW at, Goes(at),
           UNCHANGED <<runNo, adapter, tokenizer, evidence, card, measured, edits>>,
           UNCHANGED corpus,
           \/ at \in {"raised", "refused", "dry"}
           \/ trn.at = "inspect" /\ at = "load"
           \/ trn.at = "import" /\ at = "rows"
           \/ trn.at = "rows" /\ at = "baseline" /\ TrainRows(trn.data) # {}
           \/ trn.at = "train" /\ at = "final"
    PROVE  TrainingInv'
<1>1. trn' = [trn EXCEPT !.at = at]
  BY DEF Goes
<1>2. /\ trn'.at = at /\ trn'.config = trn.config /\ trn'.data = trn.data /\ trn'.gain = trn.gain
      /\ trn' = [at |-> trn'.at, config |-> trn'.config, dry |-> trn'.dry,
                 confirm |-> trn'.confirm, data |-> trn'.data, gain |-> trn'.gain]
  BY <1>1 DEF TrainingInv, TrainingTyped
<1>3. TrainingTyped'
  BY <1>2 DEF TrainingInv, TrainingTyped, TrainingTypeOK
<1>4. Progress'
  BY <1>2 DEF TrainingInv, Progress, FromImport, FromBaseline, FromTrain, FromSave, FromSavetok,
     FromGate, FromManifest, FromCard, Done, BeforeEvidence, SplitOf, TrainRows
<1> QED BY <1>3, <1>4 DEF TrainingInv, Earned

\* Every step keeps the invariant.
LEMMA StepTraining == TrainingInv /\ [TrainingNext]_trainVars => TrainingInv'
<1> SUFFICES ASSUME TrainingInv, [TrainingNext]_trainVars PROVE TrainingInv'
  OBVIOUS
<1> USE TrainingAssumption
<1> DEFINE Stage == {"off", "inspect", "load", "import", "rows", "baseline", "train", "final", "save",
                   "savetok", "gate", "manifest", "card", "dry", "refused", "raised", "completed"}
<1>0. /\ TrainingTyped /\ Progress /\ Earned /\ runNo \in Nat /\ trn.at \in Stage
      /\ measured \in Seq([1 .. 2 -> LossSet]) /\ Len(measured) = runNo
      /\ evidence.run \in 0 .. runNo
  BY DEF TrainingInv, TrainingTyped, TrainingTypeOK
<1>1. ASSUME NEW c \in TrainConfigs, NEW dry \in BOOLEAN, NEW confirm \in BOOLEAN,
             BeginTraining(c, dry, confirm)
      PROVE  TrainingInv'
  <2>1. /\ trn' = [at |-> "inspect", config |-> c, dry |-> dry, confirm |-> confirm,
                   data |-> NoCorpus, gain |-> 0]
        /\ runNo' = runNo + 1 /\ runNo < MaxRuns /\ measured' = Append(measured, <<NoLoss, NoLoss>>)
        /\ UNCHANGED <<corpus, adapter, tokenizer, evidence, card, edits>> /\ ConfigValid(c)
    BY <1>1, Zenon DEF BeginTraining
  <2>7. c.min >= 0
    BY <2>1, ValidMinimum, Zenon
  <2>2. <<NoLoss, NoLoss>> \in [1 .. 2 -> LossSet]
    BY DEF LossSet
  <2>3. /\ measured' \in Seq([1 .. 2 -> LossSet]) /\ Len(measured') = runNo'
        /\ \A i \in 1 .. runNo : measured'[i] = measured[i]
    BY <1>0, <2>1, <2>2
  <2>4. TrainingTyped'
    BY <1>0, <2>1, <2>3, <2>7 DEF TrainingTyped, TrainingTypeOK
  <2>5. Progress'
    BY <1>0, <2>1 DEF Progress, FromImport, FromBaseline, FromTrain, FromSave, FromSavetok,
       FromGate, FromManifest, FromCard, Done, BeforeEvidence
  <2>6. Earned'
    BY <1>0, <2>1, <2>3 DEF Earned
  <2> QED BY <2>4, <2>5, <2>6 DEF TrainingInv
<1>2. CASE Inspect
  BY <1>2, StepGoes DEF Inspect
<1>3. CASE LoadCorpus
  <2>1. PICK at \in {"raised", "refused", "import"} :
            /\ trn' = [trn EXCEPT !.data = corpus, !.at = at]
            /\ at = "import" => SplitOf(corpus, "validation") # {}
    BY <1>3 DEF LoadCorpus
  <2>2. /\ trn'.at = at /\ trn'.config = trn.config /\ trn'.data = corpus /\ trn'.gain = trn.gain
        /\ trn' = [at |-> trn'.at, config |-> trn'.config, dry |-> trn'.dry,
                   confirm |-> trn'.confirm, data |-> trn'.data, gain |-> trn'.gain]
    BY <1>0, <1>3, <2>1 DEF TrainingTyped, LoadCorpus
  <2>3. TrainingTyped'
    BY <1>0, <1>3, <2>2 DEF TrainingTyped, TrainingTypeOK, LoadCorpus
  <2>4. Progress'
    BY <1>0, <1>3, <2>1, <2>2 DEF LoadCorpus, Progress, FromImport, FromBaseline, FromTrain,
         FromSave,
       FromSavetok, FromGate, FromManifest, FromCard, Done, BeforeEvidence, SplitOf
  <2> QED BY <1>0, <1>3, <2>3, <2>4 DEF TrainingInv, Earned, LoadCorpus
<1>4. CASE ImportPackages
  BY <1>4, StepGoes DEF ImportPackages
<1>5. CASE RunTransformersTraining \/ RunTrlTraining
  BY <1>5, StepGoes DEF RunTransformersTraining, RunTrlTraining, BuildTrainer
<1>6. ASSUME NEW from, NEW next, NEW slot \in 1 .. 2, Evaluate(from, next, slot),
             \/ from = "baseline" /\ next = "train" /\ slot = 1
             \/ from = "final" /\ next = "save" /\ slot = 2
      PROVE  TrainingInv'
  <2>1. PICK loss \in Losses :
            /\ measured' = [measured EXCEPT ![runNo][slot] = loss]
            /\ Goes(IF loss = NoLoss THEN "refused" ELSE next)
    BY <1>6 DEF Evaluate
  <2>2. PICK at : at = (IF loss = NoLoss THEN "refused" ELSE next)
    OBVIOUS
  <2>3. /\ trn'.at = at /\ trn'.config = trn.config /\ trn'.data = trn.data /\ trn'.gain = trn.gain
        /\ trn' = [at |-> trn'.at, config |-> trn'.config, dry |-> trn'.dry,
                   confirm |-> trn'.confirm, data |-> trn'.data, gain |-> trn'.gain]
    BY <1>0, <1>6, <2>1, <2>2 DEF TrainingTyped, Evaluate, Goes
  <2>4. runNo \in 1 .. Len(measured) /\ measured[runNo] \in [1 .. 2 -> LossSet] /\ loss \in LossSet
    BY <1>0, <1>6 DEF TrainingTyped, Evaluate, LossSet
  <2>5. /\ measured' \in Seq([1 .. 2 -> LossSet]) /\ Len(measured') = runNo
        /\ measured'[runNo] = [measured[runNo] EXCEPT ![slot] = loss]
        /\ \A i \in 1 .. runNo : i # runNo => measured'[i] = measured[i]
    BY <1>0, <2>1, <2>4
  <2>6. measured'[runNo][slot] = loss /\ \A k \in 1 .. 2 : k # slot => measured'[runNo][k] = measured[runNo][k]
    BY <2>4, <2>5
  <2>7. evidence.run < runNo
    BY <1>0, <1>6 DEF Progress, BeforeEvidence, Evaluate
  <2>8. TrainingTyped'
    BY <1>0, <1>6, <2>2, <2>3, <2>5 DEF TrainingTyped, TrainingTypeOK, Evaluate
  <2>9. Progress'
    BY <1>0, <1>6, <2>2, <2>3, <2>6, <2>7 DEF Evaluate, Progress, FromImport, FromBaseline,
         FromTrain,
       FromSave, FromSavetok, FromGate, FromManifest, FromCard, Done, BeforeEvidence, SplitOf, TrainRows
  <2>10. Earned'
    BY <1>0, <1>6, <2>5, <2>7 DEF Evaluate, Earned
  <2> QED BY <2>8, <2>9, <2>10 DEF TrainingInv
<1>7. CASE Train
  BY <1>7, StepGoes DEF Train
<1>8. CASE SaveModel
  <2>1. PICK at \in {"savetok", "raised"} :
            Goes(at) /\ adapter' \in {adapter, runNo} /\ (at = "savetok" => adapter' = runNo)
    BY <1>8 DEF SaveModel
  <2>2. /\ trn'.at = at /\ trn'.config = trn.config /\ trn'.data = trn.data /\ trn'.gain = trn.gain
        /\ trn' = [at |-> trn'.at, config |-> trn'.config, dry |-> trn'.dry,
                   confirm |-> trn'.confirm, data |-> trn'.data, gain |-> trn'.gain]
    BY <1>0, <1>8, <2>1 DEF TrainingTyped, SaveModel, Goes
  <2>3. TrainingTyped'
    BY <1>0, <1>8, <2>1, <2>2 DEF TrainingTyped, TrainingTypeOK, SaveModel
  <2>4. Progress'
    BY <1>0, <1>8, <2>1, <2>2 DEF SaveModel, Progress, FromImport, FromBaseline, FromTrain,
       FromSave, FromSavetok, FromGate, FromManifest, FromCard, Done, BeforeEvidence, SplitOf, TrainRows
  <2> QED BY <1>0, <1>8, <2>1, <2>3, <2>4 DEF TrainingInv, Earned, SaveModel, TrainingTyped,
          TrainingTypeOK
<1>9. CASE SaveTokenizer
  <2>1. PICK at \in {"gate", "raised"} :
            Goes(at) /\ tokenizer' \in {tokenizer, runNo} /\ (at = "gate" => tokenizer' = runNo)
    BY <1>9 DEF SaveTokenizer
  <2>2. /\ trn'.at = at /\ trn'.config = trn.config /\ trn'.data = trn.data /\ trn'.gain = trn.gain
        /\ trn' = [at |-> trn'.at, config |-> trn'.config, dry |-> trn'.dry,
                   confirm |-> trn'.confirm, data |-> trn'.data, gain |-> trn'.gain]
    BY <1>0, <1>9, <2>1 DEF TrainingTyped, SaveTokenizer, Goes
  <2>3. TrainingTyped'
    BY <1>0, <1>9, <2>1, <2>2 DEF TrainingTyped, TrainingTypeOK, SaveTokenizer
  <2>4. Progress'
    BY <1>0, <1>9, <2>1, <2>2 DEF SaveTokenizer, Progress, FromImport, FromBaseline, FromTrain,
       FromSave, FromSavetok, FromGate, FromManifest, FromCard, Done, BeforeEvidence, SplitOf, TrainRows
  <2> QED BY <1>0, <1>9, <2>1, <2>3, <2>4 DEF TrainingInv, Earned, SaveTokenizer,
          TrainingTyped, TrainingTypeOK
<1>10. CASE Gate
  <2>1. PICK gain : gain = measured[runNo][1] - measured[runNo][2]
    OBVIOUS
  <2>2. PICK at \in {"refused", "manifest"} :
            trn' = [trn EXCEPT !.gain = gain, !.at = at] /\ (at = "manifest" => ~(gain < trn.config.min))
    BY <1>10, <2>1 DEF Gate, Improvement
  <2>3. /\ trn'.at = at /\ trn'.config = trn.config /\ trn'.data = trn.data /\ trn'.gain = gain
        /\ trn' = [at |-> trn'.at, config |-> trn'.config, dry |-> trn'.dry,
                   confirm |-> trn'.confirm, data |-> trn'.data, gain |-> trn'.gain]
    BY <1>0, <1>10, <2>2 DEF TrainingTyped, Gate
  <2>4. gain \in Int /\ trn.config.min \in Int
    <3>1. runNo \in 1 .. Len(measured) /\ measured[runNo] \in [1 .. 2 -> LossSet]
      BY <1>0, <1>10 DEF TrainingTyped, Gate
    <3>2. measured[runNo][1] \in Int /\ measured[runNo][2] \in Int
      BY <3>1, LossPair
    <3> QED BY <1>0, <1>10, <2>1, <3>2 DEF TrainingTyped, Gate
  <2>5. TrainingTyped'
    BY <1>0, <1>10, <2>3, <2>4 DEF TrainingTyped, TrainingTypeOK, Gate
  <2>6. Progress'
    BY SMTT(30), <1>0, <1>10, <2>1, <2>2, <2>3, <2>4 DEF Gate, Progress, FromImport, FromBaseline, FromTrain,
       FromSave, FromSavetok, FromGate, FromManifest, FromCard, Done, BeforeEvidence, SplitOf, TrainRows
  <2> QED BY <1>0, <1>10, <2>5, <2>6 DEF TrainingInv, Earned, Gate
<1>11. CASE WriteEvidence
  <2>1. CASE Goes("raised") /\ UNCHANGED evidence
    BY <1>11, <2>1, StepGoes DEF WriteEvidence
  <2>2. CASE Goes("card") /\ evidence' = [run |-> runNo, digest |-> corpus.version, gain |-> trn.gain,
                          min |-> trn.config.min, records |-> Len(trn.data.records),
                          validation |-> Cardinality(SplitOf(trn.data, "validation"))]
    <3>1. /\ trn'.at = "card" /\ trn'.config = trn.config /\ trn'.data = trn.data /\ trn'.gain = trn.gain
          /\ trn' = [at |-> trn'.at, config |-> trn'.config, dry |-> trn'.dry,
                     confirm |-> trn'.confirm, data |-> trn'.data, gain |-> trn'.gain]
      BY <1>0, <1>11, <2>2 DEF TrainingTyped, WriteEvidence, Goes
    <3>2. TrainingTyped'
      BY <1>0, <1>11, <2>2, <3>1 DEF TrainingTyped, TrainingTypeOK, WriteEvidence
    <3>3. Progress'
      BY <1>0, <1>11, <2>2, <3>1 DEF WriteEvidence, Progress, FromImport, FromBaseline, FromTrain,
         FromSave, FromSavetok, FromGate, FromManifest, FromCard, Done, BeforeEvidence, SplitOf, TrainRows
    <3>4. evidence'.validation \in 1 .. evidence'.records - 1
      <4>1. /\ trn.data \in Corpora \cup {NoCorpus}
            /\ SplitOf(trn.data, "validation") # {} /\ TrainRows(trn.data) # {}
        BY <1>0, <1>11 DEF WriteEvidence, TrainingTyped, Progress, FromImport, FromBaseline,
             FromTrain,
           FromSave, FromSavetok, FromGate, FromManifest
      <4> QED BY <2>2, <4>1, SplitSizes
    <3>5. /\ measured[runNo][1] # NoLoss /\ measured[runNo][2] # NoLoss
          /\ trn.gain = measured[runNo][1] - measured[runNo][2] /\ trn.gain >= trn.config.min
          /\ adapter = runNo /\ tokenizer = runNo /\ runNo >= 1
          /\ trn.config.min \in Int /\ trn.config.min >= 0
      BY <1>0, <1>11 DEF WriteEvidence, TrainingTyped, Progress, FromTrain, FromSave, FromSavetok,
         FromGate, FromManifest
    <3>6. measured[runNo][1] \in Int /\ measured[runNo][2] \in Int
      <4>1. runNo \in 1 .. Len(measured) /\ measured[runNo] \in [1 .. 2 -> LossSet]
        BY <1>0, <3>5
      <4> QED BY <4>1, LossPair
    <3>7. evidence'.run = runNo /\ evidence'.min = trn.config.min
      BY <2>2
    <3>8. UNCHANGED <<adapter, tokenizer, card, measured>> /\ card \in 0 .. runNo
      BY <1>0, <1>11 DEF WriteEvidence, TrainingTyped, TrainingTypeOK
    <3>9. measured[runNo][2] + trn.config.min <= measured[runNo][1]
      BY <3>5, <3>6
    <3>10. Earned'
      BY <1>0, <3>4, <3>5, <3>7, <3>8, <3>9 DEF Earned
    <3> QED BY <3>2, <3>3, <3>10 DEF TrainingInv
  <2> QED BY <1>11, <2>1, <2>2 DEF WriteEvidence
<1>12. CASE WriteCard
  <2>1. CASE Goes("raised") /\ UNCHANGED card
    BY <1>12, <2>1, StepGoes DEF WriteCard
  <2>2. CASE Goes("completed") /\ card' = runNo
    <3>1. /\ trn'.at = "completed" /\ trn'.config = trn.config /\ trn'.data = trn.data
          /\ trn'.gain = trn.gain
          /\ trn' = [at |-> trn'.at, config |-> trn'.config, dry |-> trn'.dry,
                     confirm |-> trn'.confirm, data |-> trn'.data, gain |-> trn'.gain]
      BY <1>0, <1>12, <2>2 DEF TrainingTyped, WriteCard, Goes
    <3>2. TrainingTyped'
      BY <1>0, <1>12, <2>2, <3>1 DEF TrainingTyped, TrainingTypeOK, WriteCard
    <3>3. Progress'
      BY <1>0, <1>12, <2>2, <3>1 DEF WriteCard, Progress, FromImport, FromBaseline, FromTrain,
         FromSave, FromSavetok, FromGate, FromManifest, FromCard, Done, BeforeEvidence, SplitOf, TrainRows
    <3> QED BY <1>0, <1>12, <2>2, <3>2, <3>3 DEF TrainingInv, Earned, WriteCard, Progress, FromCard
  <2> QED BY <1>12, <2>1, <2>2 DEF WriteCard
<1>13. CASE TrainingEnds
  <2>1. trn'.at = "off"
    BY <1>13 DEF TrainingEnds, Off
  <2> QED BY <1>0, <1>13, <2>1 DEF TrainingEnds, TrainingInv, TrainingTyped, TrainingTypeOK,
        Progress, Earned,
     FromImport, FromBaseline, FromTrain, FromSave, FromSavetok, FromGate, FromManifest, FromCard, Done,
     BeforeEvidence
<1>14. CASE EditCorpus
  BY <1>0, <1>14 DEF EditCorpus, TrainingInv, TrainingTyped, TrainingTypeOK, Progress, Earned,
       SplitOf, TrainRows
<1>15. CASE UNCHANGED trainVars
  BY SMTT(30), <1>0, <1>15 DEF trainVars, TrainingInv, TrainingTyped, TrainingTypeOK, Progress, Earned,
       SplitOf, TrainRows
<1> QED BY <1>1, <1>2, <1>3, <1>4, <1>5, <1>6, <1>7, <1>8, <1>9, <1>10, <1>11, <1>12, <1>13, <1>14,
   <1>15 DEF TrainingNext

\* run_lora_training writes adapter_manifest.json only for an adapter whose two measured losses
\* earn it and which lies in the directory, however runs fail, die and follow each other and
\* however the corpus is edited meanwhile: PromotionEarned.
THEOREM PromotionsEarned == TrainingSpec => []PromotionEarned
<1>1. TrainingInv => PromotionEarned
  BY DEF TrainingInv, PromotionEarned, Progress, Earned, FromSavetok, FromGate, FromManifest,
       FromCard, Done
<1> QED BY <1>1, InitTraining, StepTraining, PTL DEF TrainingSpec

-----------------------------------------------------------------------------
(* The public knowledge.  A job that is going to add has deleted since it   *)
(* loaded, so all the public vectors it finds are ones that it loaded too.  *)

VectorIds == PdfContents \cup PrivateIds \cup LegacyIds
VectorType ==
    [id : VectorIds, source : PdfNames \cup {"legacy", "private"},
     tenant : {Migrated, NoTenant, Public, 1}, profile : Nat]
KnowledgeJob ==
    [at : {"idle", "load", "delete", "add", "check"}, expected : SUBSET PdfNames,
     loaded : SUBSET VectorType]

\* Every vector belongs to the tenant its id is made for, and none is lost.
Shelf ==
    /\ vectors \subseteq VectorType
    /\ \A r \in vectors :
        /\ r.tenant = Public <=> r.id \in PdfContents
        /\ r.tenant = 1 <=> r.id \in PrivateIds
    /\ {r.id : r \in Corpus(1)} = owned
    /\ {r.id : r \in Corpus(NoTenant) \cup Corpus(Migrated)} = LegacyIds

ReleaseTyped ==
    /\ DOMAIN shipped \subseteq PdfNames /\ shipped \in [DOMAIN shipped -> PdfContents]
    /\ profile \in Nat /\ jobs \in [Everyone -> KnowledgeJob] /\ migration \subseteq LegacyIds
    /\ api \in {"down", "boot", "up"}

\* Refreshes run while the API is up, the bootstrap before.
Quiet ==
    /\ api # "up" => \A p \in Refreshers : jobs[p].at = "idle"
    /\ api # "boot" => jobs["boot"].at = "idle"

\* What jobs know of the release is true, and who is going to add has deleted.
Informed ==
    /\ jobs["boot"].at # "idle" => jobs["boot"].expected = ExpectedDemoSources
    /\ \A p \in Everyone :
        /\ jobs[p].at \in {"delete", "add"} => jobs[p].loaded = LoadedRows
        /\ jobs[p].at = "add" => Corpus(Public) \subseteq LoadedRows

\* The public vectors match the release.
Matching ==
    ExpectedDemoSources # {} =>
        /\ IndexedPublicSources \in {ExpectedDemoSources, DOMAIN shipped}
        /\ IndexedPublicProfiles = {profile}

\* A deletion takes them all, and only an upsert of all ends the gap.
AllOrNothing == (gap => Corpus(Public) = {}) /\ (api = "up" /\ ~gap => Matching)

KnowledgeInv == Shelf /\ ReleaseTyped /\ Quiet /\ Informed /\ AllOrNothing

\* The vectors of the PDFs that the release ships.
LEMMA LoadedAre ==
    ASSUME ReleaseTyped
    PROVE  /\ LoadedRows \subseteq VectorType
           /\ \A r \in LoadedRows : r.tenant = Public /\ r.id \in PdfContents /\ r.profile = profile
           /\ {r.source : r \in LoadedRows} = DOMAIN shipped
<1>1. ASSUME NEW n \in DOMAIN shipped
      PROVE  /\ VectorRow(shipped[n], n, Public, profile) \in VectorType
             /\ VectorRow(shipped[n], n, Public, profile).tenant = Public
             /\ VectorRow(shipped[n], n, Public, profile).id \in PdfContents
             /\ VectorRow(shipped[n], n, Public, profile).profile = profile
             /\ VectorRow(shipped[n], n, Public, profile).source = n
  <2>1. shipped[n] \in PdfContents /\ n \in PdfNames /\ profile \in Nat
    BY DEF ReleaseTyped
  <2> QED BY <2>1 DEF VectorRow, VectorType, VectorIds
<1> QED BY <1>1 DEF LoadedRows, Loadable

\* An upsert of new vectors leaves the vectors of every other id.
LEMMA UpsertShelf ==
    ASSUME Shelf, NEW new \in SUBSET VectorType, vectors' = Upserted(new),
           \/ UNCHANGED owned /\ \A r \in new : r.tenant = Public /\ r.id \in PdfContents
           \/ \E i \in PrivateIds : /\ owned' = owned \cup {i} /\ new # {}
                                    /\ \A r \in new : r.tenant = 1 /\ r.id = i
    PROVE  Shelf'
<1>1. \A r \in vectors' : (r \in vectors /\ \A n \in new : r.id # n.id) \/ r \in new
  BY DEF Upserted
<1>2. \A r \in vectors : (\E n \in new : r.id = n.id) \/ r \in vectors'
  BY DEF Upserted
<1>3. new \subseteq vectors'
  BY DEF Upserted
<1>4. \A r \in vectors' : /\ r \in VectorType
                          /\ r.tenant = Public <=> r.id \in PdfContents
                          /\ r.tenant = 1 <=> r.id \in PrivateIds
  BY <1>1, KnowledgeAssumption DEF Shelf, Public
<1>5. {r.id : r \in Corpus(1)'} = owned'
  BY <1>1, <1>2, <1>3, KnowledgeAssumption DEF Shelf, Corpus, Public
<1>6. {r.id : r \in Corpus(NoTenant)' \cup Corpus(Migrated)'} = LegacyIds
  <2>1. Corpus(NoTenant)' \cup Corpus(Migrated)' = Corpus(NoTenant) \cup Corpus(Migrated)
    <3>1. \A r \in new : r.tenant \notin {NoTenant, Migrated}
      BY DEF NoTenant, Migrated, Public
    <3>2. \A r \in Corpus(NoTenant) \cup Corpus(Migrated) : \A n \in new : r.id # n.id
      BY KnowledgeAssumption DEF Shelf, Corpus, NoTenant, Migrated, Public
    <3> QED BY <1>1, <1>2, <3>1, <3>2 DEF Corpus
  <2> QED BY <2>1 DEF Shelf
<1> QED BY <1>4, <1>5, <1>6 DEF Shelf

\* The migration changes the tenant of a legacy vector alone.
LEMMA MigrateShelf ==
    ASSUME Shelf, NEW i \in LegacyIds, UNCHANGED owned,
           vectors' = {IF r.id = i THEN [r EXCEPT !.tenant = Migrated] ELSE r : r \in vectors}
    PROVE  Shelf' /\ UNCHANGED Corpus(Public)
<1> DEFINE f(r) == IF r.id = i THEN [r EXCEPT !.tenant = Migrated] ELSE r
<1>1. \A r \in vectors : /\ r \in VectorType
                         /\ f(r) \in VectorType /\ f(r).id = r.id
                         /\ r.id = i => f(r).tenant = Migrated /\ r.tenant \in {NoTenant, Migrated}
                         /\ r.id # i => f(r) = r
  BY KnowledgeAssumption DEF Shelf, VectorType
<1>2. vectors' = {f(r) : r \in vectors}
  OBVIOUS
<1> HIDE DEF f
<1>3. \A r \in vectors' : \E q \in vectors : r = f(q)
  BY <1>2
<1>4. \A q \in vectors : f(q) \in vectors'
  BY <1>2
<1>5. i \notin PdfContents /\ i \notin PrivateIds
  BY KnowledgeAssumption
<1>6. \A r \in vectors' : /\ r \in VectorType
                          /\ r.tenant = Public <=> r.id \in PdfContents
                          /\ r.tenant = 1 <=> r.id \in PrivateIds
  BY <1>1, <1>3, <1>5 DEF Shelf, Public, Migrated
<1>7. Corpus(1)' = Corpus(1) /\ Corpus(Public)' = Corpus(Public)
  <2>1. \A r \in vectors : r.tenant \in {1, Public} => r \in vectors'
    <3>1. \A r \in vectors : r.tenant \in {1, Public} => r.id # i
      BY <1>1 DEF NoTenant, Migrated, Public
    <3> QED BY <1>1, <1>4, <3>1
  <2>2. \A r \in vectors' : r.tenant \in {1, Public} => r \in vectors
    <3>1. \A r \in vectors' : r.tenant \in {1, Public} => r.tenant # Migrated
      BY DEF Migrated, Public
    <3> QED BY <1>1, <1>3, <3>1
  <2> QED BY <2>1, <2>2 DEF Corpus
<1>8. {r.id : r \in Corpus(NoTenant)' \cup Corpus(Migrated)'} = LegacyIds
  <2>1. {r.id : r \in Corpus(NoTenant)' \cup Corpus(Migrated)'}
            = {r.id : r \in Corpus(NoTenant) \cup Corpus(Migrated)}
    <3>1. ASSUME NEW q \in Corpus(NoTenant) \cup Corpus(Migrated)
          PROVE  f(q) \in Corpus(NoTenant)' \cup Corpus(Migrated)' /\ f(q).id = q.id
      BY <1>1, <1>4 DEF Corpus
    <3>2. ASSUME NEW r \in Corpus(NoTenant)' \cup Corpus(Migrated)'
          PROVE  \E q \in Corpus(NoTenant) \cup Corpus(Migrated) : q.id = r.id
      BY <1>1, <1>3, <3>2 DEF Corpus
    <3> QED BY <3>1, <3>2
  <2> QED BY <2>1 DEF Shelf
<1> QED BY <1>6, <1>7, <1>8 DEF Shelf

\* A deletion by tenant or by id takes rows of that tenant only.
LEMMA DeleteShelf ==
    ASSUME Shelf,
           \/ vectors' = DeletedByTenant /\ UNCHANGED owned
           \/ \E i \in PrivateIds : /\ vectors' = {r \in vectors : r.tenant # 1 \/ r.id # i}
                                    /\ owned' = owned \ {i}
    PROVE  Shelf'
<1>1. CASE vectors' = DeletedByTenant /\ UNCHANGED owned
  <2>1. /\ vectors' \subseteq vectors /\ Corpus(1)' = Corpus(1)
        /\ Corpus(NoTenant)' = Corpus(NoTenant) /\ Corpus(Migrated)' = Corpus(Migrated)
    BY <1>1 DEF DeletedByTenant, Corpus, Public, NoTenant, Migrated
  <2> QED BY <1>1, <2>1 DEF Shelf
<1>2. ASSUME NEW i \in PrivateIds, vectors' = {r \in vectors : r.tenant # 1 \/ r.id # i},
             owned' = owned \ {i}
      PROVE  Shelf'
  <2>1. /\ vectors' \subseteq vectors /\ Corpus(1)' = {r \in Corpus(1) : r.id # i}
        /\ Corpus(NoTenant)' = Corpus(NoTenant) /\ Corpus(Migrated)' = Corpus(Migrated)
    BY <1>2 DEF Corpus, NoTenant, Migrated
  <2>2. {r.id : r \in Corpus(1)'} = owned'
    BY <1>2, <2>1 DEF Shelf
  <2> QED BY <2>1, <2>2 DEF Shelf
<1> QED BY <1>1, <1>2

\* What a step does to the public vectors.
LEMMA PublicMoves ==
    ASSUME KnowledgeInv, KnowledgeNext
    PROVE  /\ Shelf'
           /\ \/ UNCHANGED Corpus(Public)
              \/ \E p \in Everyone : /\ DeletePublic(p) /\ jobs[p].at = "delete"
                                     /\ Corpus(Public)' = {} /\ gap' = TRUE
              \/ \E p \in Everyone : /\ AddPublic(p) /\ jobs[p].at = "add"
                                     /\ Corpus(Public)' = LoadedRows /\ gap' = FALSE
           /\ gap' = TRUE => gap = TRUE \/ Corpus(Public)' = {}
           /\ \A p \in Everyone : AddPublic(p) => UNCHANGED gap \/ Corpus(Public)' = LoadedRows
<1>0. Shelf /\ ReleaseTyped /\ Informed
  BY DEF KnowledgeInv
<1>1. ASSUME UNCHANGED <<vectors, owned>> PROVE Shelf' /\ UNCHANGED Corpus(Public)
  BY <1>0, <1>1 DEF Shelf, Corpus
<1>10. ASSUME ~\E p \in Everyone : DeletePublic(p) \/ AddPublic(p) PROVE UNCHANGED gap
  BY <1>10 DEF KnowledgeNext, Bootstrap, BootstrapCheck, ContainerDies, Release, MigrateScan,
     MigrateDies, RefreshRequest, LoadDocuments, PrivateStore, PrivateDelete, MigrateRow
<1>2. CASE Bootstrap \/ BootstrapCheck \/ ContainerDies \/ Release \/ MigrateScan \/ MigrateDies
  BY <1>1, <1>2 DEF Bootstrap, BootstrapCheck, ContainerDies, Release, MigrateScan, MigrateDies
<1>3. ASSUME NEW p \in Refreshers, RefreshRequest(p) PROVE UNCHANGED <<vectors, owned>>
  BY <1>3 DEF RefreshRequest
<1>4. ASSUME NEW p \in Everyone, LoadDocuments(p) PROVE UNCHANGED <<vectors, owned>>
  BY <1>4 DEF LoadDocuments
<1>5. ASSUME NEW p \in Everyone, DeletePublic(p)
      PROVE  \/ UNCHANGED <<vectors, owned, gap>>
             \/ Shelf' /\ jobs[p].at = "delete" /\ Corpus(Public)' = {} /\ gap' = TRUE
  <2>1. jobs[p].at = "delete" /\ UNCHANGED owned
    BY <1>5 DEF DeletePublic
  <2>2. UNCHANGED <<vectors, gap>> \/ (vectors' = DeletedByTenant /\ gap' = TRUE)
    BY <1>5 DEF DeletePublic
  <2>3. ASSUME vectors' = DeletedByTenant PROVE Shelf' /\ Corpus(Public)' = {}
    BY <1>0, <2>1, <2>3, DeleteShelf DEF DeletedByTenant, Corpus
  <2> QED BY <2>1, <2>2, <2>3
<1>6. ASSUME NEW p \in Everyone, AddPublic(p)
      PROVE  \/ UNCHANGED <<vectors, owned, gap>>
             \/ Shelf' /\ jobs[p].at = "add" /\ Corpus(Public)' = LoadedRows /\ gap' = FALSE
  <2>1. jobs[p].at = "add" /\ UNCHANGED owned
    BY <1>6 DEF AddPublic
  <2>2. UNCHANGED <<vectors, gap>> \/ (vectors' = Upserted(jobs[p].loaded) /\ gap' = FALSE)
    BY <1>6 DEF AddPublic
  <2>3. jobs[p].loaded = LoadedRows /\ Corpus(Public) \subseteq LoadedRows
    BY <1>0, <2>1 DEF Informed
  <2>4. ASSUME vectors' = Upserted(LoadedRows) PROVE Shelf' /\ Corpus(Public)' = LoadedRows
    <3>1. Shelf'
      BY <1>0, <2>1, <2>4, LoadedAre, UpsertShelf
    <3>2. Corpus(Public)' = LoadedRows
      BY <1>0, <2>3, <2>4, LoadedAre DEF Upserted, Corpus
    <3> QED BY <3>1, <3>2
  <2> QED BY <2>1, <2>2, <2>3, <2>4
<1>7. ASSUME NEW i \in PrivateIds, PrivateStore(i) PROVE Shelf' /\ UNCHANGED Corpus(Public)
  <2>1. PICK v : v = VectorRow(i, "private", 1, profile)
    OBVIOUS
  <2>2. v \in VectorType /\ v.tenant = 1 /\ v.id = i
    BY <1>0, <2>1 DEF VectorRow, VectorType, VectorIds, ReleaseTyped
  <2>3. vectors' = Upserted({v}) /\ owned' = owned \cup {i}
    BY <1>7, <2>1 DEF PrivateStore
  <2>4. Shelf'
    BY <1>0, <2>2, <2>3, UpsertShelf
  <2>5. Corpus(Public)' = Corpus(Public)
    BY <1>0, <2>2, <2>3, KnowledgeAssumption DEF Upserted, Corpus, Shelf, Public
  <2> QED BY <2>4, <2>5
<1>8. ASSUME NEW i \in PrivateIds, PrivateDelete(i) PROVE Shelf' /\ UNCHANGED Corpus(Public)
  <2>1. vectors' = {r \in vectors : r.tenant # 1 \/ r.id # i} /\ owned' = owned \ {i}
    BY <1>8 DEF PrivateDelete
  <2>2. Shelf'
    BY <1>0, <2>1, DeleteShelf
  <2>3. Corpus(Public)' = Corpus(Public)
    BY <2>1 DEF Corpus, Public
  <2> QED BY <2>2, <2>3
<1>9. ASSUME NEW i \in LegacyIds, MigrateRow(i) PROVE Shelf' /\ UNCHANGED Corpus(Public)
  BY <1>0, <1>9, MigrateShelf DEF MigrateRow
<1> QED BY <1>1, <1>2, <1>3, <1>4, <1>5, <1>6, <1>7, <1>8, <1>9, <1>10 DEF KnowledgeNext

\* The release changes only while the container is down.
LEMMA ReleaseMoves ==
    ASSUME KnowledgeInv, KnowledgeNext
    PROVE  \/ UNCHANGED <<shipped, profile>>
           \/ Release /\ api = "down" /\ UNCHANGED <<api, jobs>>
BY DEF KnowledgeNext, Bootstrap, BootstrapCheck, ContainerDies, Release, MigrateScan, MigrateDies,
   RefreshRequest, LoadDocuments, DeletePublic, AddPublic, PrivateStore, PrivateDelete, MigrateRow

\* What a step does to a job.
LEMMA KnowledgeJobMoves ==
    ASSUME KnowledgeInv, KnowledgeNext, NEW p \in Everyone
    PROVE  \/ UNCHANGED jobs[p]
           \/ jobs'[p] = Resting
           \/ /\ p = "boot" /\ api' = "boot" /\ Bootstrap
              /\ jobs'[p] = [at |-> "load", expected |-> ExpectedDemoSources, loaded |-> {}]
           \/ p \in Refreshers /\ api = "up" /\ api' = "up" /\ jobs'[p] = [jobs[p] EXCEPT !.at = "load"]
           \/ /\ jobs[p].at = "load" /\ UNCHANGED api
              /\ jobs'[p] = [jobs[p] EXCEPT !.at = "delete", !.loaded = LoadedRows]
           \/ /\ jobs[p].at = "delete" /\ UNCHANGED api /\ Corpus(Public)' = {}
              /\ jobs'[p] = [jobs[p] EXCEPT !.at = "add"]
           \/ p = "boot" /\ jobs[p].at = "add" /\ UNCHANGED api /\ jobs'[p] = [jobs[p] EXCEPT !.at = "check"]
<1>0. jobs \in [Everyone -> KnowledgeJob]
  BY DEF KnowledgeInv, ReleaseTyped
<1>1. CASE Bootstrap
  BY <1>0, <1>1 DEF Bootstrap
<1>2. CASE BootstrapCheck \/ ContainerDies
  BY <1>0, <1>2 DEF BootstrapCheck, ContainerDies
<1>3. CASE Release \/ MigrateScan \/ MigrateDies
  BY <1>3 DEF Release, MigrateScan, MigrateDies
<1>4. ASSUME NEW i, PrivateStore(i) \/ PrivateDelete(i) \/ MigrateRow(i) PROVE UNCHANGED jobs
  BY <1>4 DEF PrivateStore, PrivateDelete, MigrateRow
<1>5. ASSUME NEW q \in Refreshers, RefreshRequest(q) PROVE
        \/ UNCHANGED jobs[p]
        \/ p \in Refreshers /\ api = "up" /\ api' = "up" /\ jobs'[p] = [jobs[p] EXCEPT !.at = "load"]
  BY <1>0, <1>5 DEF RefreshRequest
<1>6. ASSUME NEW q \in Everyone, LoadDocuments(q) PROVE
        \/ UNCHANGED jobs[p]
        \/ jobs'[p] = Resting
        \/ /\ jobs[p].at = "load" /\ UNCHANGED api
           /\ jobs'[p] = [jobs[p] EXCEPT !.at = "delete", !.loaded = LoadedRows]
  BY <1>0, <1>6 DEF LoadDocuments, StopJob
<1>7. ASSUME NEW q \in Everyone, DeletePublic(q) PROVE
        \/ UNCHANGED jobs[p]
        \/ jobs'[p] = Resting
        \/ /\ jobs[p].at = "delete" /\ UNCHANGED api /\ Corpus(Public)' = {}
           /\ jobs'[p] = [jobs[p] EXCEPT !.at = "add"]
  BY <1>0, <1>7 DEF DeletePublic, StopJob, DeletedByTenant, Corpus
<1>8. ASSUME NEW q \in Everyone, AddPublic(q) PROVE
        \/ UNCHANGED jobs[p]
        \/ jobs'[p] = Resting
        \/ p = "boot" /\ jobs[p].at = "add" /\ UNCHANGED api /\ jobs'[p] = [jobs[p] EXCEPT !.at = "check"]
  BY <1>0, <1>8 DEF AddPublic, StopJob
<1> QED BY <1>1, <1>2, <1>3, <1>4, <1>5, <1>6, <1>7, <1>8 DEF KnowledgeNext

\* Types of the release and of the jobs.
LEMMA StepReleaseTyped ==
    ASSUME KnowledgeInv, KnowledgeNext
    PROVE  ReleaseTyped'
<1>0. ReleaseTyped
  BY DEF KnowledgeInv
<1>1. /\ DOMAIN shipped' \subseteq PdfNames /\ shipped' \in [DOMAIN shipped' -> PdfContents]
      /\ profile' \in Nat
  <2>1. CASE Release
    <3>1. PICK S \in SUBSET PdfNames : shipped' \in [S -> PdfContents]
      BY <2>1 DEF Release
    <3> QED BY <1>0, <2>1, <3>1 DEF Release, ReleaseTyped
  <2> QED BY <1>0, <2>1, ReleaseMoves DEF ReleaseTyped
<1>2. jobs' \in [Everyone -> KnowledgeJob]
  <2>1. ASSUME NEW p \in Everyone PROVE jobs'[p] \in KnowledgeJob
    <3>1. jobs[p] \in KnowledgeJob /\ LoadedRows \subseteq VectorType
      BY <1>0, LoadedAre DEF ReleaseTyped
    <3>2. Resting \in KnowledgeJob
      BY DEF Resting, KnowledgeJob
    <3>3. [at |-> "load", expected |-> ExpectedDemoSources, loaded |-> {}] \in KnowledgeJob
      BY <1>0 DEF KnowledgeJob, ExpectedDemoSources, ReleaseTyped
    <3>4. /\ [jobs[p] EXCEPT !.at = "load"] \in KnowledgeJob
          /\ [jobs[p] EXCEPT !.at = "delete", !.loaded = LoadedRows] \in KnowledgeJob
          /\ [jobs[p] EXCEPT !.at = "add"] \in KnowledgeJob
          /\ [jobs[p] EXCEPT !.at = "check"] \in KnowledgeJob
      BY <3>1 DEF KnowledgeJob
    <3> QED BY <3>1, <3>2, <3>3, <3>4, KnowledgeJobMoves
  <2>2. \/ UNCHANGED jobs
        \/ \E v : jobs' = [p \in Everyone |-> v]
        \/ \E q \in Everyone : \E v : jobs' = [jobs EXCEPT ![q] = v]
    <3>1. "boot" \in Everyone /\ Refreshers \subseteq Everyone
      BY DEF Everyone
    <3>2. CASE Bootstrap \/ BootstrapCheck
      BY <3>1, <3>2 DEF Bootstrap, BootstrapCheck
    <3>3. CASE ContainerDies
      BY <3>3 DEF ContainerDies
    <3>4. CASE Release \/ MigrateScan \/ MigrateDies
      BY <3>4 DEF Release, MigrateScan, MigrateDies
    <3>5. ASSUME NEW i, PrivateStore(i) \/ PrivateDelete(i) \/ MigrateRow(i) PROVE UNCHANGED jobs
      BY <3>5 DEF PrivateStore, PrivateDelete, MigrateRow
    <3>6. ASSUME NEW q \in Refreshers, RefreshRequest(q) PROVE \E v : jobs' = [jobs EXCEPT ![q] = v]
      BY <3>6 DEF RefreshRequest
    <3>7. ASSUME NEW q \in Everyone, LoadDocuments(q) PROVE \E v : jobs' = [jobs EXCEPT ![q] = v]
      BY <3>7 DEF LoadDocuments, StopJob
    <3>8. ASSUME NEW q \in Everyone, DeletePublic(q) PROVE \E v : jobs' = [jobs EXCEPT ![q] = v]
      BY <3>8 DEF DeletePublic, StopJob
    <3>9. ASSUME NEW q \in Everyone, AddPublic(q) PROVE \E v : jobs' = [jobs EXCEPT ![q] = v]
      BY <3>9 DEF AddPublic, StopJob
    <3> QED BY <3>1, <3>2, <3>3, <3>4, <3>5, <3>6, <3>7, <3>8, <3>9 DEF KnowledgeNext
  <2>3. DOMAIN jobs' = Everyone /\ jobs' = [p \in Everyone |-> jobs'[p]]
    BY <1>0, <2>2 DEF ReleaseTyped
  <2> QED BY <2>1, <2>3
<1>3. migration' \subseteq LegacyIds
  <2>1. MissingTenant \subseteq LegacyIds
    BY DEF KnowledgeInv, Shelf, MissingTenant
  <2> QED BY <1>0, <2>1 DEF ReleaseTyped, KnowledgeNext, Bootstrap, BootstrapCheck,
        ContainerDies, Release,
     MigrateScan, MigrateDies, RefreshRequest, LoadDocuments, DeletePublic, AddPublic, PrivateStore,
     PrivateDelete, MigrateRow
<1>4. api' \in {"down", "boot", "up"}
  BY <1>0 DEF ReleaseTyped, KnowledgeNext, Bootstrap, BootstrapCheck, ContainerDies, Release,
       MigrateScan,
     MigrateDies, RefreshRequest, LoadDocuments, DeletePublic, AddPublic, PrivateStore, PrivateDelete,
     MigrateRow, StopJob
<1> QED BY <1>1, <1>2, <1>3, <1>4 DEF ReleaseTyped

\* Refreshes end with the API, the bootstrap before it is up.
LEMMA StepQuiet ==
    ASSUME KnowledgeInv, KnowledgeNext
    PROVE  Quiet'
<1>0. /\ Quiet /\ jobs \in [Everyone -> KnowledgeJob] /\ api \in {"down", "boot", "up"}
      /\ "boot" \in Everyone /\ Refreshers \subseteq Everyone /\ "boot" \notin Refreshers
  BY KnowledgeAssumption DEF KnowledgeInv, ReleaseTyped, Everyone
<1>1. Resting.at = "idle"
  BY DEF Resting
<1>2. CASE Bootstrap
  <2>1. api = "down" /\ ((api' = "up" /\ UNCHANGED jobs) \/ api' = "boot")
    BY <1>2 DEF Bootstrap
  <2>2. \A p \in Refreshers : jobs'[p].at = "idle"
    BY <1>0, <1>2, <2>1 DEF Bootstrap, Quiet
  <2> QED BY <1>0, <2>1, <2>2 DEF Quiet
<1>3. CASE BootstrapCheck
  BY <1>0, <1>1, <1>3 DEF BootstrapCheck, Quiet
<1>4. CASE ContainerDies
  BY <1>0, <1>1, <1>4 DEF ContainerDies, Quiet
<1>5. ASSUME NEW p \in Everyone, jobs[p].at # "idle", StopJob(p) PROVE Quiet'
  BY <1>0, <1>1, <1>5 DEF StopJob, Quiet, Everyone
<1>6. ASSUME NEW p \in Everyone, jobs[p].at # "idle", UNCHANGED api,
             \A q \in Everyone : q # p => UNCHANGED jobs[q]
      PROVE  Quiet'
  BY <1>0, <1>6 DEF Quiet
<1>7. ASSUME NEW p \in Everyone, LoadDocuments(p) \/ DeletePublic(p) \/ AddPublic(p) PROVE Quiet'
  <2>1. CASE StopJob(p)
    BY <1>5, <1>7, <2>1 DEF LoadDocuments, DeletePublic, AddPublic
  <2>2. ASSUME ~StopJob(p)
        PROVE  jobs[p].at # "idle" /\ UNCHANGED api /\ \A q \in Everyone : q # p => UNCHANGED jobs[q]
    BY <1>0, <1>7, <2>2 DEF LoadDocuments, DeletePublic, AddPublic
  <2> QED BY <1>6, <2>1, <2>2
<1>8. ASSUME NEW p \in Refreshers, RefreshRequest(p) PROVE Quiet'
  BY <1>0, <1>8 DEF RefreshRequest, Quiet
<1>9. ASSUME UNCHANGED <<api, jobs>> PROVE Quiet'
  BY <1>0, <1>9 DEF Quiet
<1>10. CASE Release \/ MigrateScan \/ MigrateDies
  BY <1>9, <1>10 DEF Release, MigrateScan, MigrateDies
<1>11. ASSUME NEW i, PrivateStore(i) \/ PrivateDelete(i) \/ MigrateRow(i) PROVE Quiet'
  BY <1>9, <1>11 DEF PrivateStore, PrivateDelete, MigrateRow
<1> QED BY <1>2, <1>3, <1>4, <1>7, <1>8, <1>10, <1>11 DEF KnowledgeNext

\* What jobs know stays true.
LEMMA StepInformed ==
    ASSUME KnowledgeInv, KnowledgeNext
    PROVE  Informed'
<1>0. /\ Informed /\ Quiet /\ jobs \in [Everyone -> KnowledgeJob] /\ "boot" \in Everyone
      /\ "boot" \notin Refreshers
  BY KnowledgeAssumption DEF KnowledgeInv, ReleaseTyped, Everyone
<1>1. CASE Release
  <2>1. \A p \in Everyone : jobs'[p].at = "idle"
    BY <1>0, <1>1 DEF Release, Quiet, Everyone
  <2> QED BY <1>0, <2>1 DEF Informed
<1>2. CASE UNCHANGED <<shipped, profile>>
  <2>1. UNCHANGED <<ExpectedDemoSources, LoadedRows>>
    BY <1>2 DEF ExpectedDemoSources, LoadedRows, Loadable
  <2>2. Corpus(Public) \subseteq LoadedRows => Corpus(Public)' \subseteq LoadedRows
    BY PublicMoves
  <2>3. ASSUME NEW p \in Everyone
        PROVE  /\ p = "boot" /\ jobs'[p].at # "idle" => jobs'[p].expected = ExpectedDemoSources
               /\ jobs'[p].at \in {"delete", "add"} => jobs'[p].loaded = LoadedRows
               /\ jobs'[p].at = "add" => Corpus(Public)' \subseteq LoadedRows
    <3>1. jobs[p] \in KnowledgeJob
      BY <1>0
    <3>2. CASE jobs'[p] = Resting
      BY <3>2 DEF Resting
    <3>3. CASE UNCHANGED jobs[p]
      BY <1>0, <2>2, <3>3 DEF Informed
    <3>4. CASE jobs'[p] = [at |-> "load", expected |-> ExpectedDemoSources, loaded |-> {}]
      BY <3>4
    <3>5. CASE p \in Refreshers /\ jobs'[p] = [jobs[p] EXCEPT !.at = "load"]
      BY <1>0, <3>1, <3>5 DEF KnowledgeJob
    <3>6. CASE jobs[p].at = "load" /\ jobs'[p] = [jobs[p] EXCEPT !.at = "delete", !.loaded = LoadedRows]
      BY <1>0, <3>1, <3>6 DEF Informed, KnowledgeJob
    <3>7. CASE /\ jobs[p].at = "delete" /\ Corpus(Public)' = {}
               /\ jobs'[p] = [jobs[p] EXCEPT !.at = "add"]
      BY <1>0, <3>1, <3>7 DEF Informed, KnowledgeJob
    <3>8. CASE jobs[p].at = "add" /\ jobs'[p] = [jobs[p] EXCEPT !.at = "check"]
      BY <1>0, <3>1, <3>8 DEF Informed, KnowledgeJob
    <3> QED BY <3>2, <3>3, <3>4, <3>5, <3>6, <3>7, <3>8, KnowledgeJobMoves
  <2> QED BY <1>0, <2>1, <2>3 DEF Informed
<1> QED BY <1>1, <1>2, ReleaseMoves

\* Vectors of everything the release ships match it.
LEMMA LoadedMatch ==
    ASSUME ReleaseTyped, Corpus(Public) = LoadedRows
    PROVE  Matching
<1>1. IndexedPublicSources = DOMAIN shipped
  BY LoadedAre DEF IndexedPublicSources
<1>2. ASSUME ExpectedDemoSources # {} PROVE IndexedPublicProfiles = {profile}
  <2>1. PICK n \in DOMAIN shipped : TRUE
    BY <1>2 DEF ExpectedDemoSources
  <2>2. \E r \in LoadedRows : TRUE
    BY <2>1, LoadedAre
  <2>3. \A r \in LoadedRows : r.profile = profile
    BY LoadedAre
  <2> QED BY <2>2, <2>3 DEF IndexedPublicProfiles
<1> QED BY <1>1, <1>2 DEF Matching, ExpectedDemoSources

\* While the API is up and the last deletion was followed by an upsert, it matches.
LEMMA StepServed ==
    ASSUME KnowledgeInv, KnowledgeNext, api' = "up", ~gap'
    PROVE  Matching'
<1>0. /\ ReleaseTyped /\ Quiet /\ Informed /\ (api = "up" /\ ~gap => Matching)
      /\ "boot" \in Everyone
  BY DEF KnowledgeInv, AllOrNothing, Everyone
<1>1. UNCHANGED <<shipped, profile>>
  BY ReleaseMoves
<1>2. CASE \E p \in Everyone : AddPublic(p) /\ Corpus(Public)' = LoadedRows
  <2>1. ReleaseTyped' /\ Corpus(Public)' = LoadedRows'
    BY <1>1, <1>2, StepReleaseTyped DEF LoadedRows, Loadable
  <2>2. (ReleaseTyped /\ Corpus(Public) = LoadedRows => Matching)'
    BY LoadedMatch, PTL
  <2> QED BY <2>1, <2>2
<1>3. ASSUME UNCHANGED Corpus(Public), Matching PROVE Matching'
  BY <1>1, <1>3 DEF Matching, IndexedPublicSources, IndexedPublicProfiles, ExpectedDemoSources
<1>4. CASE Bootstrap \/ BootstrapCheck
  <2>1. UNCHANGED Corpus(Public)
    BY <1>4 DEF Bootstrap, BootstrapCheck, Corpus
  <2>2. CASE Bootstrap
    BY <1>3, <2>1, <2>2 DEF Bootstrap, Matching, ExpectedDemoSources
  <2>3. CASE BootstrapCheck
    BY <1>0, <1>3, <2>1, <2>3 DEF BootstrapCheck, Informed, Matching, ExpectedDemoSources
  <2> QED BY <1>4, <2>2, <2>3
<1>5. ASSUME ~Bootstrap, ~BootstrapCheck PROVE api = "up"
  BY <1>5 DEF KnowledgeNext, ContainerDies, Release, MigrateScan, MigrateDies, RefreshRequest,
     LoadDocuments, DeletePublic, AddPublic, PrivateStore, PrivateDelete, MigrateRow, StopJob
<1>6. ASSUME ~\E p \in Everyone : AddPublic(p) /\ Corpus(Public)' = LoadedRows
      PROVE  UNCHANGED gap \/ gap' = TRUE
  <2>1. ASSUME ~\E p \in Everyone : AddPublic(p) PROVE UNCHANGED gap \/ gap' = TRUE
    BY <2>1 DEF KnowledgeNext, Bootstrap, BootstrapCheck, ContainerDies, Release, MigrateScan,
         MigrateDies,
       RefreshRequest, LoadDocuments, DeletePublic, PrivateStore, PrivateDelete, MigrateRow
  <2> QED BY <1>6, <2>1, PublicMoves
<1> QED BY <1>0, <1>2, <1>3, <1>4, <1>5, <1>6, PublicMoves

\* A store with legacy vectors only, and no container yet.
LEMMA InitKnowledge == KnowledgeInit => KnowledgeInv
<1> SUFFICES ASSUME KnowledgeInit PROVE KnowledgeInv
  OBVIOUS
<1>1. /\ vectors = {VectorRow(i, "legacy", NoTenant, 0) : i \in LegacyIds}
      /\ owned = {} /\ api = "down" /\ gap = FALSE /\ profile = 0 /\ migration = {}
      /\ jobs = [p \in Everyone |-> Resting]
  BY DEF KnowledgeInit
<1>2. \A i \in LegacyIds : /\ VectorRow(i, "legacy", NoTenant, 0) \in VectorType
                           /\ VectorRow(i, "legacy", NoTenant, 0).id = i
                           /\ VectorRow(i, "legacy", NoTenant, 0).tenant = NoTenant
  BY DEF VectorRow, VectorType, VectorIds
<1>3. Shelf
  <2>1. Corpus(NoTenant) = vectors /\ Corpus(1) = {} /\ Corpus(Migrated) = {}
    BY <1>1, <1>2 DEF Corpus, NoTenant, Migrated
  <2>2. {r.id : r \in vectors} = LegacyIds
    BY <1>1, <1>2
  <2>3. \A r \in vectors : r \in VectorType /\ r.tenant # Public /\ r.tenant # 1 /\ r.id \in LegacyIds
    BY <1>1, <1>2 DEF NoTenant, Public
  <2> QED BY <1>1, <2>1, <2>2, <2>3, KnowledgeAssumption DEF Shelf
<1>4. ReleaseTyped
  <2>1. PICK S \in SUBSET PdfNames : shipped \in [S -> PdfContents]
    BY DEF KnowledgeInit
  <2>2. Resting \in KnowledgeJob
    BY DEF Resting, KnowledgeJob
  <2> QED BY <1>1, <2>1, <2>2 DEF ReleaseTyped
<1>5. \A p \in Everyone : jobs[p].at = "idle"
  BY <1>1 DEF Resting
<1> QED BY <1>1, <1>3, <1>4, <1>5 DEF KnowledgeInv, AllOrNothing, Quiet, Informed, Everyone

\* Every step keeps the invariant.
LEMMA StepKnowledge == KnowledgeInv /\ [KnowledgeNext]_knowVars => KnowledgeInv'
<1>1. ASSUME KnowledgeInv, KnowledgeNext PROVE KnowledgeInv'
  <2>1. Shelf' /\ ReleaseTyped' /\ Quiet' /\ Informed'
    BY <1>1, PublicMoves, StepReleaseTyped, StepQuiet, StepInformed
  <2>2. api' = "up" /\ ~gap' => Matching'
    BY <1>1, StepServed
  <2>3. gap' => Corpus(Public)' = {}
    BY <1>1, PublicMoves DEF KnowledgeInv, AllOrNothing
  <2> QED BY <2>1, <2>2, <2>3 DEF KnowledgeInv, AllOrNothing
<1>2. ASSUME KnowledgeInv, UNCHANGED knowVars PROVE KnowledgeInv'
  BY ZenonT(60), <1>2 DEF knowVars, KnowledgeInv, AllOrNothing, Shelf, ReleaseTyped, Quiet, Informed, Matching, Corpus,
     ExpectedDemoSources, LoadedRows, Loadable, IndexedPublicSources, IndexedPublicProfiles
<1> QED BY <1>1, <1>2

\* Whatever the bootstrap, overlapping refreshes, failures and the tenant migration do, an API that
\* is up serves the demo PDFs of its release (those named .PDF once a refresh was requested), or none
\* of them after a refresh that deleted them, and no private or legacy vector is lost: KnowledgeKept.
THEOREM KnowledgeIsKept == KnowledgeSpec => []KnowledgeKept
<1>1. KnowledgeInv => KnowledgeKept
  BY DEF KnowledgeInv, AllOrNothing, KnowledgeKept, Shelf, Matching
<1> QED BY <1>1, InitKnowledge, StepKnowledge, PTL DEF KnowledgeSpec

-----------------------------------------------------------------------------
(* The LLM settings.  A revision number is given once, to one row with one *)
(* credential: `f' is the credential that goes with each number, and what  *)
(* was handed out is computed from its revision with it.                   *)

RowShape(r) ==
    r = [id |-> r.id, provider |-> r.provider, model |-> r.model, key |-> r.key, by |-> r.by,
         revision |-> r.revision, default |-> r.default]

\* One key file, written once by the server that created it.
KeyShared ==
    /\ cipher \in [Servers -> {"none", "creating"} \cup Servers]
    /\ \A s \in Servers : cipher[s] \in Servers => cipher[s] = keyFile
    /\ \A s \in Servers : cipher[s] = "creating" => keyFile = "empty"
    /\ \A s, t \in Servers : cipher[s] = "creating" /\ cipher[t] = "creating" => s = t
    /\ tx = [s \in Servers |-> tx[s]]
    /\ \A s \in Servers : tx[s] # NoTx => cipher[s] \in Servers

\* Rows that a commit may leave, when `last' is the last number given.
Tidy(new, last) ==
    /\ \A r \in new : /\ RowShape(r) /\ r.by = keyFile /\ r.by \in Servers
                      /\ r.id \in 1 .. last /\ r.revision \in 1 .. last /\ r.key \in Nat
    /\ \A r, q \in new : r.id = q.id => r = q
Constrained(new) ==
    /\ \A r, q \in new : r.provider = q.provider => r = q
    /\ \A r, q \in new : r.default /\ q.default => r = q

\* The default provider, from a revision.
DefaultFrom(rev) ==
    IF \E t \in rev : t[5] THEN (CHOOSE t \in rev : t[5])[2]
    ELSE IF rev = {} THEN "none"
    ELSE LET ps == {t[2] : t \in rev} IN
         IF Preferred \in ps THEN Preferred
         ELSE Providers[CHOOSE i \in DOMAIN Providers :
                 /\ Providers[i] \in ps
                 /\ \A j \in 1 .. i - 1 : Providers[j] \notin ps]
EffectiveFrom(rev, f) ==
    [configs |-> {<<t[2], f[t[4]], t[3]>> : t \in rev}, default |-> DefaultFrom(rev)]

Recorded(f) ==
    /\ \A r \in rows : f[r.revision] = r.key
    /\ \A a \in handed : /\ \A t \in a.revision : t[4] \in 1 .. stamp
                         /\ a.effective = EffectiveFrom(a.revision, f)

SettingsInv ==
    /\ stamp \in Nat /\ KeyShared /\ Tidy(rows, stamp) /\ Constrained(rows)
    /\ \E f \in [Nat -> Nat] : Recorded(f)

\* A set of at most one element.
LEMMA AtMostOne ==
    ASSUME NEW S, IsFiniteSet(S), Cardinality(S) <= 1
    PROVE  \A x, y \in S : x = y
<1>1. Cardinality(S) = 0 \/ Cardinality(S) = 1
  BY FS_CardinalityType
<1> QED BY <1>1, FS_EmptySet, FS_Singleton

\* Rows with different ids up to a bound are finitely many.
LEMMA TidyFinite ==
    ASSUME NEW last \in Nat, NEW new, Tidy(new, last)
    PROVE  IsFiniteSet(new)
<1> DEFINE g == [r \in new |-> r.id]
<1>1. g \in Injection(new, 1 .. last)
  BY DEF Tidy, Injection, IsInjective
<1> QED BY <1>1, FS_Injection, FS_Interval

\* The unique constraints leave at most one default.
LEMMA ConstraintsHold ==
    ASSUME NEW last \in Nat, NEW new, Tidy(new, last), Consistent(new)
    PROVE  Constrained(new)
<1>1. IsFiniteSet({r \in new : r.default})
  BY TidyFinite, FS_Subset
<1>2. \A r, q \in {x \in new : x.default} : r = q
  BY <1>1, AtMostOne DEF Consistent
<1> QED BY <1>2 DEF Consistent, Constrained

\* What is handed out is computed from the revision.
LEMMA HandedFrom ==
    ASSUME Tidy(rows, stamp), Constrained(rows), NEW f \in [Nat -> Nat],
           \A r \in rows : f[r.revision] = r.key
    PROVE  Effective = EffectiveFrom(Revision, f)
<1> DEFINE T(r) == <<r.id, r.provider, r.model, r.revision, r.default>>
<1>1. Revision = {T(r) : r \in rows}
  BY DEF Revision
<1>2. \A r \in rows : /\ T(r)[2] = r.provider /\ T(r)[3] = r.model /\ T(r)[4] = r.revision
                      /\ T(r)[5] = r.default
  OBVIOUS
<1> HIDE DEF T
<1>3. {<<r.provider, r.key, r.model>> : r \in rows} = {<<t[2], f[t[4]], t[3]>> : t \in Revision}
  <2>1. \A r \in rows : <<r.provider, r.key, r.model>> = <<T(r)[2], f[T(r)[4]], T(r)[3]>>
    BY <1>2
  <2>2. {<<t[2], f[t[4]], t[3]>> : t \in Revision} = {<<T(r)[2], f[T(r)[4]], T(r)[3]>> : r \in rows}
    BY <1>1
  <2> QED BY <2>1, <2>2
<1>4. (\E r \in rows : r.default) <=> (\E t \in Revision : t[5])
  BY <1>1, <1>2
<1>5. ASSUME \E r \in rows : r.default
      PROVE  (CHOOSE r \in rows : r.default).provider = (CHOOSE t \in Revision : t[5])[2]
  <2>1. PICK d : d = CHOOSE r \in rows : r.default
    OBVIOUS
  <2>2. d \in rows /\ d.default
    BY <1>5, <2>1
  <2>3. PICK t : t = CHOOSE u \in Revision : u[5]
    OBVIOUS
  <2>4. t \in Revision /\ t[5]
    BY <1>4, <1>5, <2>3
  <2>5. PICK r \in rows : t = T(r)
    BY <1>1, <2>4
  <2>6. r.default
    BY <1>2, <2>4, <2>5
  <2>7. r = d
    BY <2>2, <2>6 DEF Constrained
  <2> QED BY <1>2, <2>1, <2>3, <2>5, <2>7
<1>6. {r.provider : r \in rows} = {t[2] : t \in Revision}
  BY <1>1, <1>2
<1>7. rows = {} <=> Revision = {}
  BY <1>1
<1>8. DefaultProvider = DefaultFrom(Revision)
  <2> DEFINE First(ps) ==
         IF Preferred \in ps THEN Preferred
         ELSE Providers[CHOOSE i \in DOMAIN Providers :
                 /\ Providers[i] \in ps
                 /\ \A j \in 1 .. i - 1 : Providers[j] \notin ps]
  <2>1. PreferredOf(rows) = First({r.provider : r \in rows})
    BY DEF PreferredOf
  <2>2. DefaultFrom(Revision) =
            IF \E t \in Revision : t[5] THEN (CHOOSE t \in Revision : t[5])[2]
            ELSE IF Revision = {} THEN "none" ELSE First({t[2] : t \in Revision})
    BY DEF DefaultFrom
  <2> HIDE DEF First
  <2>3. PreferredOf(rows) = First({t[2] : t \in Revision})
    BY <1>6, <2>1
  <2> QED BY <1>4, <1>5, <1>7, <2>2, <2>3 DEF DefaultProvider
<1> QED BY <1>3, <1>8 DEF Effective, EffectiveFrom

\* Rows `new' that come of the rows `R' in place, at most one with a new revision.
Rewrites(R, g, new) ==
    /\ R \subseteq rows /\ \A x \in new : \E r \in R : x = g[r]
    /\ \A r \in R : /\ RowShape(g[r]) /\ g[r].id = r.id /\ g[r].by = r.by /\ g[r].key \in Nat
                   /\ \/ g[r].revision = r.revision /\ g[r].key = r.key
                      \/ g[r].revision = stamp + 1
    /\ \A r, q \in R : g[r].revision = stamp + 1 /\ g[q].revision = stamp + 1 => r = q

\* Rows a commit may leave: an old revision keeps its credential.
GoodRows(new) ==
    /\ Tidy(new, stamp + 1)
    /\ \A r \in new : r.revision # stamp + 1 => \E q \in rows : q.revision = r.revision /\ q.key = r.key
    /\ \A r, q \in new : r.revision = stamp + 1 /\ q.revision = stamp + 1 => r = q

\* A commit that rewrites rows under a new stamp leaves good rows.
LEMMA Rewritten ==
    ASSUME SettingsInv, NEW R, NEW g, NEW new, Rewrites(R, g, new)
    PROVE  GoodRows(new)
<1> USE DEF Rewrites
<1>1. /\ stamp \in Nat
      /\ \A r \in rows : /\ r.by = keyFile /\ r.by \in Servers /\ r.id \in 1 .. stamp
                         /\ r.revision \in 1 .. stamp
      /\ \A r, q \in rows : r.id = q.id => r = q
  BY DEF SettingsInv, Tidy
<1>2. \A x \in new : \E r \in R : x = g[r] /\ r \in rows
  OBVIOUS
<1>3. \A r \in R : /\ RowShape(g[r]) /\ g[r].by = keyFile /\ g[r].by \in Servers
                   /\ g[r].id \in 1 .. stamp + 1 /\ g[r].revision \in 1 .. stamp + 1 /\ g[r].key \in Nat
  BY <1>1
<1>4. \A x \in new : /\ RowShape(x) /\ x.by = keyFile /\ x.by \in Servers
                     /\ x.id \in 1 .. stamp + 1 /\ x.revision \in 1 .. stamp + 1 /\ x.key \in Nat
  BY <1>2, <1>3
<1>5. \A x, y \in new : x.id = y.id => x = y
  BY <1>1, <1>2
<1>6. \A x \in new : x.revision # stamp + 1 => \E q \in rows : q.revision = x.revision /\ q.key = x.key
  BY <1>2
<1>7. \A x, y \in new : x.revision = stamp + 1 /\ y.revision = stamp + 1 => x = y
  BY <1>2
<1> QED BY <1>4, <1>5, <1>6, <1>7 DEF Tidy, GoodRows

\* What a transaction writes.
LEMMA CommitRows ==
    ASSUME SettingsInv, NEW s \in Servers, SettingsCommit(s), rows' # rows \/ stamp' # stamp
    PROVE  /\ stamp' = stamp + 1 /\ Consistent(rows') /\ Tidy(rows, stamp)'
           /\ \A r \in rows' : r.revision # stamp + 1 => \E q \in rows : q.revision = r.revision /\ q.key = r.key
           /\ \A r, q \in rows' : r.revision = stamp + 1 /\ q.revision = stamp + 1 => r = q
<1> DEFINE t == tx[s]
<1>0. /\ stamp \in Nat /\ Tidy(rows, stamp) /\ Constrained(rows)
      /\ cipher[s] \in Servers /\ cipher[s] = keyFile
  BY DEF SettingsInv, KeyShared, SettingsCommit
<1>1. /\ stamp' = stamp + 1 /\ Consistent(rows') /\ UNCHANGED keyFile
      /\ \/ rows' = Deleted(t) \/ rows' = Selected(t)
         \/ (t.id = 0 /\ rows' = Inserted(s, t)) \/ rows' = Updated(s, t)
  BY DEF SettingsCommit
<1>2. \A r \in rows : /\ RowShape(r) /\ r.by = keyFile /\ r.by \in Servers
                      /\ r.id \in 1 .. stamp /\ r.revision \in 1 .. stamp /\ r.key \in Nat
  BY <1>0 DEF Tidy
<1> HIDE DEF t
<1>3. GoodRows(Updated(s, t))
  <2> DEFINE g == [r \in rows |-> IF r.id # t.id THEN r
                     ELSE [r EXCEPT !.model = t.model, !.revision = Fresh,
                                    !.key = IF t.key = 1 THEN Fresh ELSE @,
                                    !.by = IF t.key = 1 THEN cipher[s] ELSE @]]
  <2>1. \A x \in Updated(s, t) : \E r \in rows : x = g[r]
    BY DEF Updated
  <2>2. ASSUME NEW r \in rows
        PROVE  /\ RowShape(g[r]) /\ g[r].id = r.id /\ g[r].by = r.by /\ g[r].key \in Nat
               /\ r.id # t.id => g[r].revision = r.revision /\ g[r].key = r.key
               /\ r.id = t.id => g[r].revision = stamp + 1
    <3>1. CASE r.id # t.id
      BY <1>2, <3>1
    <3>2. CASE r.id = t.id
      <4>1. PICK k, b : k = (IF t.key = 1 THEN Fresh ELSE r.key) /\ b = (IF t.key = 1 THEN cipher[s] ELSE r.by)
        OBVIOUS
      <4>2. g[r] = [r EXCEPT !.model = t.model, !.revision = Fresh, !.key = k, !.by = b]
        BY <3>2, <4>1
      <4>3. g[r] = [id |-> r.id, provider |-> r.provider, model |-> t.model, key |-> k, by |-> b,
                    revision |-> Fresh, default |-> r.default]
        BY <1>2, <4>2 DEF RowShape
      <4>4. k \in Nat /\ b = r.by
        BY <1>0, <1>2, <4>1 DEF Fresh
      <4> HIDE DEF g
      <4> QED BY <1>0, <3>2, <4>3, <4>4 DEF RowShape, Fresh
    <3> QED BY <3>1, <3>2
  <2> HIDE DEF g
  <2>3. \A r, q \in rows : g[r].revision = stamp + 1 /\ g[q].revision = stamp + 1 => r = q
    <3>1. \A r \in rows : r.revision # stamp + 1
      BY <1>0, <1>2
    <3> QED BY <1>0, <2>2, <3>1 DEF Tidy
  <2>4. \A r \in rows : /\ RowShape(g[r]) /\ g[r].id = r.id /\ g[r].by = r.by /\ g[r].key \in Nat
                        /\ \/ g[r].revision = r.revision /\ g[r].key = r.key
                           \/ g[r].revision = stamp + 1
    BY <2>2
  <2>5. rows \in SUBSET rows
    OBVIOUS
  <2>6. Rewrites(rows, g, Updated(s, t))
    BY <2>1, <2>3, <2>4, <2>5 DEF Rewrites
  <2> QED BY <2>6, Rewritten
<1>4. GoodRows(Selected(t))
  <2> DEFINE g == [r \in rows |-> [r EXCEPT !.default = (r.id = t.id),
                                            !.revision = IF r.id = t.id THEN Fresh ELSE @]]
  <2>1. \A x \in Selected(t) : \E r \in rows : x = g[r]
    BY DEF Selected
  <2>2. ASSUME NEW r \in rows
        PROVE  /\ RowShape(g[r]) /\ g[r].id = r.id /\ g[r].by = r.by /\ g[r].key \in Nat
               /\ r.id # t.id => g[r].revision = r.revision /\ g[r].key = r.key
               /\ r.id = t.id => g[r].revision = stamp + 1
    <3>1. PICK d, v : d = (r.id = t.id) /\ v = (IF r.id = t.id THEN Fresh ELSE r.revision)
      OBVIOUS
    <3>2. g[r] = [r EXCEPT !.default = d, !.revision = v]
      BY <3>1
    <3>3. g[r] = [id |-> r.id, provider |-> r.provider, model |-> r.model, key |-> r.key, by |-> r.by,
                  revision |-> v, default |-> d]
      BY <1>2, <3>2 DEF RowShape
    <3> HIDE DEF g
    <3> QED BY <1>0, <1>2, <3>1, <3>3 DEF RowShape, Fresh
  <2> HIDE DEF g
  <2>3. \A r, q \in rows : g[r].revision = stamp + 1 /\ g[q].revision = stamp + 1 => r = q
    <3>1. \A r \in rows : r.revision # stamp + 1
      BY <1>0, <1>2
    <3> QED BY <1>0, <2>2, <3>1 DEF Tidy
  <2>4. \A r \in rows : /\ RowShape(g[r]) /\ g[r].id = r.id /\ g[r].by = r.by /\ g[r].key \in Nat
                        /\ \/ g[r].revision = r.revision /\ g[r].key = r.key
                           \/ g[r].revision = stamp + 1
    BY <2>2
  <2>5. rows \in SUBSET rows
    OBVIOUS
  <2>6. Rewrites(rows, g, Selected(t))
    BY <2>1, <2>3, <2>4, <2>5 DEF Rewrites
  <2> QED BY <2>6, Rewritten
<1>5. GoodRows(Deleted(t))
  <2> DEFINE left == {r \in rows : r.id # t.id}
  <2>0. left \in SUBSET rows
    OBVIOUS
  <2>1. CASE Deleted(t) = left
    <3> DEFINE g == [r \in left |-> r]
    <3>1. (\A x \in Deleted(t) : \E r \in left : x = g[r]) /\ \A r \in left : g[r] = r
      BY <2>1
    <3>2. \A r, q \in left : g[r].revision = stamp + 1 /\ g[q].revision = stamp + 1 => r = q
      BY <1>0, <1>2, <3>1
    <3>3. \A r \in left : /\ RowShape(g[r]) /\ g[r].id = r.id /\ g[r].by = r.by /\ g[r].key \in Nat
                          /\ \/ g[r].revision = r.revision /\ g[r].key = r.key
                             \/ g[r].revision = stamp + 1
      BY <1>2, <3>1
    <3> HIDE DEF g, left
    <3>4. Rewrites(left, g, Deleted(t))
      BY <2>0, <3>1, <3>2, <3>3 DEF Rewrites
    <3> QED BY <3>4, Rewritten
  <2>2. CASE Deleted(t) = {IF r.provider = PreferredOf(left)
                           THEN [r EXCEPT !.default = TRUE, !.revision = Fresh] ELSE r : r \in left}
    <3> DEFINE g == [r \in left |-> IF r.provider = PreferredOf(left)
                           THEN [r EXCEPT !.default = TRUE, !.revision = Fresh] ELSE r]
    <3>1. \A x \in Deleted(t) : \E r \in left : x = g[r]
      BY <2>2
    <3>2. ASSUME NEW r \in left
          PROVE  /\ RowShape(g[r]) /\ g[r].id = r.id /\ g[r].by = r.by /\ g[r].key \in Nat
                 /\ r.provider # PreferredOf(left) => g[r].revision = r.revision /\ g[r].key = r.key
                 /\ r.provider = PreferredOf(left) => g[r].revision = stamp + 1
      <4>1. CASE r.provider # PreferredOf(left)
        BY <1>2, <4>1
      <4>2. CASE r.provider = PreferredOf(left)
        <5>1. PICK d : d = TRUE /\ g[r] = [r EXCEPT !.default = d, !.revision = Fresh]
          BY <4>2
        <5>2. g[r] = [id |-> r.id, provider |-> r.provider, model |-> r.model, key |-> r.key, by |-> r.by,
                      revision |-> Fresh, default |-> d]
          <6>1. RowShape(r)
            BY <1>2, <2>0
          <6> QED BY <5>1, <6>1 DEF RowShape
        <5> HIDE DEF g
        <5> QED BY <1>0, <1>2, <4>2, <5>2 DEF RowShape, Fresh
      <4> QED BY <4>1, <4>2
    <3> HIDE DEF g
    <3>3. \A r, q \in left : g[r].revision = stamp + 1 /\ g[q].revision = stamp + 1 => r = q
      <4>1. \A r \in left : r.revision # stamp + 1
        BY <1>0, <1>2
      <4>2. \A r \in left : g[r].revision = stamp + 1 => r.provider = PreferredOf(left)
        BY <3>2, <4>1
      <4>3. \A r, q \in left : r.provider = q.provider => r = q
        BY <1>0 DEF Constrained
      <4> HIDE DEF left
      <4> QED BY <4>2, <4>3
    <3>4. \A r \in left : /\ RowShape(g[r]) /\ g[r].id = r.id /\ g[r].by = r.by /\ g[r].key \in Nat
                          /\ \/ g[r].revision = r.revision /\ g[r].key = r.key
                             \/ g[r].revision = stamp + 1
      BY <3>2
    <3> HIDE DEF left
    <3>5. Rewrites(left, g, Deleted(t))
      BY <2>0, <3>1, <3>3, <3>4 DEF Rewrites
    <3> QED BY <3>5, Rewritten
  <2> QED BY <2>1, <2>2 DEF Deleted
<1>6. ASSUME t.id = 0 PROVE GoodRows(Inserted(s, t))
  <2>1. PICK v : v = [id |-> Fresh, provider |-> t.provider, model |-> t.model, key |-> Fresh,
                      by |-> cipher[s], revision |-> Fresh, default |-> t.first]
    OBVIOUS
  <2>2. Inserted(s, t) = rows \cup {v}
    BY <2>1 DEF Inserted
  <2>3. /\ RowShape(v) /\ v.by = keyFile /\ v.by \in Servers /\ v.id = stamp + 1
        /\ v.revision = stamp + 1 /\ v.key = stamp + 1
    BY <1>0, <2>1 DEF RowShape, Fresh
  <2>4. \A r \in rows : r.id # stamp + 1 /\ r.revision # stamp + 1
    BY <1>0, <1>2
  <2>5. Tidy(Inserted(s, t), stamp + 1)
    BY <1>0, <1>2, <2>2, <2>3, <2>4 DEF Tidy
  <2> QED BY <2>2, <2>3, <2>4, <2>5 DEF GoodRows
<1>7. GoodRows(rows')
  BY <1>1, <1>3, <1>4, <1>5, <1>6
<1> QED BY <1>1, <1>7 DEF Tidy, GoodRows

\* No key, no rows.
LEMMA InitSettings == SettingsInit => SettingsInv
<1> SUFFICES ASSUME SettingsInit PROVE SettingsInv
  OBVIOUS
<1>1. KeyShared
  BY SettingsAssumption DEF SettingsInit, KeyShared
<1>2. Tidy(rows, stamp) /\ Constrained(rows) /\ stamp \in Nat
  BY DEF SettingsInit, Tidy, Constrained
<1>3. [n \in Nat |-> 0] \in [Nat -> Nat] /\ Recorded([n \in Nat |-> 0])
  BY DEF SettingsInit, Recorded
<1> QED BY <1>1, <1>2, <1>3 DEF SettingsInv

\* Every server's key is the file's.
LEMMA StepKey ==
    ASSUME SettingsInv, SettingsNext
    PROVE  KeyShared' /\ (rows # {} => UNCHANGED keyFile)
<1>0. KeyShared /\ \A r \in rows : r.by = keyFile /\ r.by \in Servers
  BY DEF SettingsInv, Tidy
<1>1. ASSUME NEW s \in Servers, KeyCreate(s) PROVE KeyShared' /\ rows = {}
  <2>1. /\ cipher[s] = "none" /\ keyFile = "absent" /\ keyFile' = "empty"
        /\ cipher' = [cipher EXCEPT ![s] = "creating"] /\ UNCHANGED <<rows, tx>>
    BY <1>1 DEF KeyCreate
  <2>2. \A u \in Servers : cipher[u] = "none"
    BY <1>0, <2>1, SettingsAssumption DEF KeyShared
  <2> QED BY <1>0, <2>1, <2>2, SettingsAssumption DEF KeyShared
<1>2. ASSUME NEW s \in Servers, KeyWrite(s) PROVE KeyShared' /\ rows = {}
  <2>1. /\ cipher[s] = "creating" /\ keyFile = "empty" /\ keyFile' = s
        /\ cipher' = [cipher EXCEPT ![s] = s] /\ UNCHANGED <<rows, tx>>
    BY <1>0, <1>2 DEF KeyWrite, KeyShared
  <2>2. \A u \in Servers : u # s => cipher[u] = "none"
    BY <1>0, <2>1, SettingsAssumption DEF KeyShared
  <2> QED BY <1>0, <2>1, <2>2, SettingsAssumption DEF KeyShared
<1>3. ASSUME NEW s \in Servers, KeyLoad(s) PROVE KeyShared' /\ UNCHANGED keyFile
  BY <1>0, <1>3, SettingsAssumption DEF KeyLoad, KeyShared
<1>4. ASSUME NEW s \in Servers, SettingsBegin(s) PROVE KeyShared' /\ UNCHANGED keyFile
  <2>1. PICK v : tx' = [tx EXCEPT ![s] = v] /\ cipher[s] \in Servers /\ UNCHANGED <<keyFile, cipher>>
    BY <1>4 DEF SettingsBegin
  <2> QED BY <1>0, <2>1 DEF KeyShared
<1>5. ASSUME NEW s \in Servers, SettingsCommit(s) PROVE KeyShared' /\ UNCHANGED keyFile
  <2>1. tx' = [tx EXCEPT ![s] = NoTx] /\ UNCHANGED <<keyFile, cipher>>
    BY <1>5 DEF SettingsCommit
  <2> QED BY <1>0, <2>1 DEF KeyShared
<1>6. ASSUME NEW s \in Servers, RuntimeSettings(s) PROVE KeyShared' /\ UNCHANGED keyFile
  BY <1>0, <1>6 DEF RuntimeSettings, KeyShared
<1> QED BY <1>1, <1>2, <1>3, <1>4, <1>5, <1>6 DEF SettingsNext

\* What was handed out under earlier numbers does not depend on a later one.
LEMMA RecordedLater ==
    ASSUME NEW f \in [Nat -> Nat], NEW k \in Nat, stamp \in Nat,
           NEW rev, \A t \in rev : t[4] \in 1 .. stamp
    PROVE  EffectiveFrom(rev, [f EXCEPT ![stamp + 1] = k]) = EffectiveFrom(rev, f)
<1> DEFINE g == [f EXCEPT ![stamp + 1] = k]
<1>1. \A t \in rev : g[t[4]] = f[t[4]]
  BY SMT
<1> HIDE DEF g
<1>2. {<<t[2], g[t[4]], t[3]>> : t \in rev} = {<<t[2], f[t[4]], t[3]>> : t \in rev}
  BY <1>1
<1>3. EffectiveFrom(rev, g) = EffectiveFrom(rev, f)
  BY <1>2 DEF EffectiveFrom
<1> QED BY <1>3 DEF g

\* Every step keeps the invariant.
LEMMA StepSettings == SettingsInv /\ [SettingsNext]_setVars => SettingsInv'
<1>1. ASSUME SettingsInv, UNCHANGED setVars PROVE SettingsInv'
  BY <1>1 DEF setVars, SettingsInv, KeyShared, Tidy, Constrained, Recorded
<1>2. ASSUME SettingsInv, SettingsNext PROVE SettingsInv'
  <2>0. /\ stamp \in Nat /\ Tidy(rows, stamp) /\ Constrained(rows)
    BY <1>2 DEF SettingsInv
  <2>1. KeyShared' /\ (rows # {} => UNCHANGED keyFile)
    BY <1>2, StepKey
  <2>2. PICK f \in [Nat -> Nat] : Recorded(f)
    BY <1>2 DEF SettingsInv
  <2>3. ASSUME UNCHANGED <<rows, stamp>> PROVE stamp' \in Nat /\ Tidy(rows, stamp)' /\ Constrained(rows)'
    BY <2>0, <2>1, <2>3 DEF Tidy, Constrained
  <2>4. ASSUME UNCHANGED <<rows, stamp, handed>> PROVE SettingsInv'
    <3>1. Recorded(f)'
      BY <2>2, <2>4 DEF Recorded
    <3> QED BY <2>1, <2>2, <2>3, <2>4, <3>1 DEF SettingsInv
  <2>5. ASSUME NEW s \in Servers, RuntimeSettings(s) PROVE SettingsInv'
    <3>1. /\ UNCHANGED <<rows, stamp>>
          /\ handed' = handed \cup {[revision |-> Revision, effective |-> Effective]}
      BY <2>5 DEF RuntimeSettings
    <3>2. Effective = EffectiveFrom(Revision, f)
      BY <2>0, <2>2, HandedFrom DEF Recorded
    <3>3. \A t \in Revision : t[4] \in 1 .. stamp
      BY <2>0 DEF Revision, Tidy
    <3>4. PICK a : a = [revision |-> Revision, effective |-> Effective]
      OBVIOUS
    <3>5. a.revision = Revision /\ a.effective = Effective /\ handed' = handed \cup {a}
      BY <3>1, <3>4
    <3>6. Recorded(f)'
      BY <2>2, <3>1, <3>2, <3>3, <3>5 DEF Recorded
    <3> QED BY <2>1, <2>2, <2>3, <3>1, <3>6 DEF SettingsInv
  <2>6. ASSUME NEW s \in Servers, SettingsCommit(s), rows' # rows \/ stamp' # stamp PROVE SettingsInv'
    <3>1. /\ stamp' = stamp + 1 /\ Consistent(rows') /\ Tidy(rows, stamp)'
          /\ \A r \in rows' : r.revision # stamp + 1 => \E q \in rows : q.revision = r.revision /\ q.key = r.key
          /\ \A r, q \in rows' : r.revision = stamp + 1 /\ q.revision = stamp + 1 => r = q
          /\ UNCHANGED handed
      BY <1>2, <2>6, CommitRows DEF SettingsCommit
    <3>2. Constrained(rows')
      <4>1. Tidy(rows', stamp + 1)
        BY <3>1, <2>6 DEF Tidy, SettingsCommit
      <4> QED BY <2>0, <3>1, <4>1, ConstraintsHold
    <3>3. PICK k \in Nat : \A r \in rows' : r.revision = stamp + 1 => r.key = k
      <4>1. \A r \in rows' : r.key \in Nat
        BY <3>1 DEF Tidy
      <4>2. CASE \E r \in rows' : r.revision = stamp + 1
        BY <3>1, <4>1, <4>2
      <4>3. CASE ~\E r \in rows' : r.revision = stamp + 1
        BY <4>3
      <4> QED BY <4>2, <4>3
    <3>4. PICK g : g = [f EXCEPT ![stamp + 1] = k]
      OBVIOUS
    <3>5. g \in [Nat -> Nat] /\ g[stamp + 1] = k /\ \A n \in 1 .. stamp : g[n] = f[n]
      BY <2>0, <3>4
    <3>6. \A r \in rows' : g[r.revision] = r.key
      <4>1. \A q \in rows : q.revision \in 1 .. stamp /\ f[q.revision] = q.key
        BY <2>0, <2>2 DEF Recorded, Tidy
      <4> QED BY <3>1, <3>3, <3>5, <4>1
    <3>7. ASSUME NEW a \in handed
          PROVE  (\A t \in a.revision : t[4] \in 1 .. stamp') /\ a.effective = EffectiveFrom(a.revision, g)
      <4>1. (\A t \in a.revision : t[4] \in 1 .. stamp) /\ a.effective = EffectiveFrom(a.revision, f)
        BY <2>2 DEF Recorded
      <4>2. EffectiveFrom(a.revision, g) = EffectiveFrom(a.revision, f)
        BY <2>0, <3>4, <4>1, RecordedLater
      <4>3. \A t \in a.revision : t[4] \in 1 .. stamp'
        BY <2>0, <3>1, <4>1
      <4> QED BY <4>1, <4>2, <4>3
    <3>8. Recorded(g)'
      BY <3>1, <3>6, <3>7 DEF Recorded
    <3>9. Constrained(rows)'
      BY <3>2 DEF Constrained
    <3> QED BY <2>0, <2>1, <3>1, <3>5, <3>8, <3>9 DEF SettingsInv
  <2>7. ASSUME NEW s \in Servers,
               KeyCreate(s) \/ KeyWrite(s) \/ KeyLoad(s) \/ SettingsBegin(s)
        PROVE  UNCHANGED <<rows, stamp, handed>>
    BY <2>7 DEF KeyCreate, KeyWrite, KeyLoad, SettingsBegin
  <2>8. ASSUME NEW s \in Servers, SettingsCommit(s) PROVE UNCHANGED handed
    BY <2>8 DEF SettingsCommit
  <2> QED BY <1>2, <2>4, <2>5, <2>6, <2>7, <2>8 DEF SettingsNext
<1> QED BY <1>1, <1>2

\* The revision that get_runtime_llm_settings hands out, which is part of the key of a cached answer,
\* stands for one set of credentials, models and default for ever, under any interleaving of the
\* transactions; and every row was encrypted with the key all servers share: RevisionIdentifies.
THEOREM RevisionsIdentify == SettingsSpec => []RevisionIdentifies
<1>1. SettingsInv => RevisionIdentifies
  <2> SUFFICES ASSUME SettingsInv PROVE RevisionIdentifies
    OBVIOUS
  <2>1. PICK f \in [Nat -> Nat] : Recorded(f)
    BY DEF SettingsInv
  <2>2. \A a, b \in handed : a.revision = b.revision => a.effective = b.effective
    BY <2>1 DEF Recorded
  <2> QED BY <2>2 DEF SettingsInv, Tidy, RevisionIdentifies
<1> QED BY <1>1, InitSettings, StepSettings, PTL DEF SettingsSpec

-----------------------------------------------------------------------------
(* Usage and billing.  A task that is not killed has its bill exactly from *)
(* the write of the row on, and a handler is run again after its bill only *)
(* if it was killed.                                                       *)

ReqType ==
    [pc : {"new", "refused", "queued", "running", "record", "bill", "exit", "except",
           "mark", "reap", "adrift", "done"},
     status : {"none", "pending", "running", "success", "failed"}, retries : Nat, kills : Nat]
BillType == [req : Requests, amount : {CalculateCost(Spent[r]) : r \in Requests}]

ChatTyped ==
    /\ req \in [Requests -> ReqType]
    /\ bills \in Seq(BillType)
    /\ \A i \in DOMAIN bills : bills[i].amount = CalculateCost(Spent[bills[i].req])

\* What the handler's place says of the task.
Recording(q) ==
    /\ q.pc \in {"bill", "exit"} => q.status = "success"
    /\ q.pc = "reap" => q.status = "failed"
    /\ q.status = "success" =>
          q.pc \in {"record", "bill", "exit", "except", "mark", "adrift", "done"}
OfTask == {"queued", "bill", "exit", "except", "mark", "reap", "adrift"}
Staged ==
    \A r \in Requests :
        /\ Recording(req[r])
        /\ req[r].pc \in OfTask => Route[r] = "agent_task"
        /\ req[r].status # "none" => Route[r] = "agent_task"
        /\ req[r].pc = "record" /\ Route[r] = "agent_task" => req[r].status = "success"

\* How many bills a request in a state may have.
Billed(q, n) ==
    /\ n <= q.kills + (IF q.pc \in {"exit", "done"} THEN 1 ELSE 0)
    /\ q.kills = 0 =>
          n = IF q.pc = "exit" \/ (q.pc = "done" /\ q.status = "success") THEN 1 ELSE 0
Counting == \A r \in Requests : Billed(req[r], Cardinality(BillsOf(r)))

ChatInv == ChatTyped /\ Staged /\ Counting

\* The bills of a request are finitely many.
LEMMA BillsFinite ==
    ASSUME bills \in Seq(BillType), NEW r \in Requests
    PROVE  IsFiniteSet(BillsOf(r)) /\ Cardinality(BillsOf(r)) \in Nat
<1>1. Len(bills) \in Nat /\ DOMAIN bills = 1 .. Len(bills)
  OBVIOUS
<1>2. IsFiniteSet(1 .. Len(bills))
  BY <1>1, FS_Interval
<1>3. BillsOf(r) \in SUBSET (1 .. Len(bills))
  BY <1>1 DEF BillsOf
<1>4. IsFiniteSet(BillsOf(r))
  BY <1>2, <1>3, FS_Subset
<1> QED BY <1>4, FS_CardinalityType

\* The initial state: no request, no bill.
LEMMA InitChat == ChatInit => ChatInv
<1> SUFFICES ASSUME ChatInit PROVE ChatInv
  OBVIOUS
<1>1. ChatTyped /\ Staged
  BY DEF ChatInit, ChatTyped, Staged, Recording, OfTask, ReqType
<1>2. \A r \in Requests : BillsOf(r) = {}
  BY DEF ChatInit, BillsOf
<1>3. \A r \in Requests : Cardinality(BillsOf(r)) = 0
  BY <1>2, FS_EmptySet
<1>4. \A r \in Requests : req[r].pc = "new" /\ req[r].kills = 0
  BY DEF ChatInit
<1> QED BY <1>1, <1>3, <1>4 DEF ChatInv, Counting, Billed

\* What a step that writes no bill makes of its request.
Moves(r) ==
    /\ req' = [req EXCEPT ![r] = req'[r]] /\ req'[r] \in ReqType /\ bills' = bills
    /\ Recording(req'[r])
    /\ req'[r].pc \in OfTask => Route[r] = "agent_task"
    /\ req'[r].status # "none" => Route[r] = "agent_task"
    /\ req'[r].pc = "record" /\ Route[r] = "agent_task" => req'[r].status = "success"
    /\ \/ /\ req'[r].kills = req[r].kills /\ req[r].pc \notin {"exit", "done"}
          /\ req'[r].pc # "exit"
          /\ req'[r].pc = "done" => req'[r].status # "success"
       \/ req'[r].kills = req[r].kills + 1
       \/ /\ req'[r].kills = req[r].kills /\ req[r].pc = "exit" /\ req'[r].pc = "done"
          /\ req'[r].status = "success"

\* Such a step keeps the invariant.
LEMMA MovesSafe ==
    ASSUME ChatInv, NEW r \in Requests, Moves(r)
    PROVE  ChatInv'
<1>1. ChatTyped'
  BY DEF ChatInv, ChatTyped, Moves
<1>2. Staged'
  BY DEF ChatInv, ChatTyped, Staged, Moves
<1>3. \A x \in Requests : BillsOf(x)' = BillsOf(x)
  BY DEF Moves, BillsOf
<1>4. ASSUME NEW x \in Requests PROVE Billed(req'[x], Cardinality(BillsOf(x)))
  <2> DEFINE n == Cardinality(BillsOf(x))
  <2>1. n \in Nat /\ Billed(req[x], n) /\ req[x] \in ReqType
    BY BillsFinite DEF ChatInv, ChatTyped, Counting
  <2>2. CASE x # r
    BY <2>1, <2>2 DEF ChatInv, ChatTyped, Moves
  <2>3. CASE x = r
    <3> HIDE DEF n
    <3>1. Billed(req'[r], n)
      BY <2>1, <2>3 DEF Moves, Billed, ReqType
    <3> QED BY <2>3, <3>1 DEF n
  <2> QED BY <2>2, <2>3
<1> QED BY <1>1, <1>2, <1>3, <1>4 DEF ChatInv, Counting

\* A kill only counts.
LEMMA KilledIs ==
    ASSUME NEW q \in ReqType
    PROVE  /\ Killed(q) \in ReqType /\ Killed(q).kills = q.kills + 1
           /\ Killed(q).pc = q.pc /\ Killed(q).status = q.status
<1>1. q.kills \in Nat /\ q.kills + 1 \in Nat
  BY DEF ReqType
<1>2. Killed(q) = [q EXCEPT !.kills = q.kills + 1]
  BY DEF Killed
<1> DEFINE k == q.kills + 1
<1> HIDE DEF k
<1>3. k \in Nat /\ Killed(q) = [q EXCEPT !.kills = k]
  BY <1>1, <1>2 DEF k
<1> QED BY <1>3 DEF ReqType, k

\* A charge only counts.
LEMMA ChargedIs ==
    ASSUME NEW q \in ReqType, NEW n \in Nat
    PROVE  /\ [q EXCEPT !.retries = n] \in ReqType
           /\ [q EXCEPT !.retries = n].kills = q.kills
           /\ [q EXCEPT !.retries = n].pc = q.pc /\ [q EXCEPT !.retries = n].status = q.status
BY DEF ReqType

\* A failed attempt is charged or final.
LEMMA FailedIs ==
    ASSUME NEW q \in ReqType
    PROVE  /\ Failed(q) \in ReqType /\ Failed(q).kills = q.kills
           /\ \/ Failed(q).pc = "queued" /\ Failed(q).status = "pending"
              \/ Failed(q).pc = "done" /\ Failed(q).status = "failed"
<1>1. CASE q.retries < ChatRetries
  <2>1. /\ Requeued(q) \in ReqType /\ Requeued(q).kills = q.kills
        /\ Requeued(q).pc = "queued" /\ Requeued(q).status = "pending"
    BY DEF Requeued, ReqType
  <2>2. Failed(q) = [Requeued(q) EXCEPT !.retries = @ + 1]
    BY <1>1 DEF Failed
  <2> DEFINE n == Requeued(q).retries + 1
  <2>3. n \in Nat /\ Failed(q) = [Requeued(q) EXCEPT !.retries = n]
    BY <2>1, <2>2 DEF ReqType
  <2> HIDE DEF n
  <2>4. Failed(q) \in ReqType /\ Failed(q).kills = Requeued(q).kills
        /\ Failed(q).pc = Requeued(q).pc /\ Failed(q).status = Requeued(q).status
    <3> DEFINE p == Requeued(q)
    <3>1. p \in ReqType /\ Failed(q) = [p EXCEPT !.retries = n]
      BY <2>1, <2>3
    <3> HIDE DEF p
    <3>2. n \in Nat
      BY <2>3
    <3>3. LET c == [p EXCEPT !.retries = n]
          IN  c \in ReqType /\ c.kills = p.kills /\ c.pc = p.pc /\ c.status = p.status
      BY <3>1, <3>2, ChargedIs, ZenonT(40)
    <3>4. Failed(q) \in ReqType /\ Failed(q).kills = p.kills
          /\ Failed(q).pc = p.pc /\ Failed(q).status = p.status
      BY <3>1, <3>3, Zenon
    <3> QED BY <3>4 DEF p
  <2>5. Failed(q).kills = q.kills /\ Failed(q).pc = "queued" /\ Failed(q).status = "pending"
    BY <2>1, <2>4, Zenon
  <2> QED BY <2>4, <2>5, Zenon
<1>2. CASE ~(q.retries < ChatRetries)
  BY <1>2 DEF Failed, ReqType
<1> QED BY <1>1, <1>2

\* Every step but the write of a bill.
LEMMA OtherSteps ==
    ASSUME ChatInv, NEW r \in Requests,
           \/ ChatRequest(r) \/ RouteAnswer(r) \/ TaskClaim(r) \/ TaskAnswer(r)
           \/ RecordUsage(r) \/ ExceptClause(r) \/ WorkerMarks(r) \/ WorkerReaps(r)
           \/ HandlerExit(r) \/ TaskDeadline(r) \/ ProcessDies(r)
    PROVE  Moves(r)
<1>1. /\ req \in [Requests -> ReqType] /\ req[r] \in ReqType
      /\ Recording(req[r])
      /\ req[r].pc \in OfTask => Route[r] = "agent_task"
      /\ req[r].status # "none" => Route[r] = "agent_task"
      /\ req[r].pc = "record" /\ Route[r] = "agent_task" => req[r].status = "success"
  BY DEF ChatInv, ChatTyped, Staged
<1>2. CASE ChatRequest(r)
  BY <1>1, <1>2 DEF ChatRequest, Moves, ReqType, Recording, OfTask
<1>3. CASE RouteAnswer(r)
  BY <1>1, <1>3 DEF RouteAnswer, Moves, ReqType, Recording, OfTask
<1>4. CASE TaskClaim(r)
  BY <1>1, <1>4 DEF TaskClaim, Moves, ReqType, Recording, OfTask
<1>5. CASE TaskAnswer(r)
  <2>1. CASE req' = [req EXCEPT ![r].pc = "except"]
    BY <1>1, <1>5, <2>1 DEF TaskAnswer, Moves, ReqType, Recording, OfTask
  <2>2. CASE req' = [req EXCEPT ![r] = [@ EXCEPT !.pc = "record", !.status = "success"]]
    BY <1>1, <1>5, <2>2 DEF TaskAnswer, Moves, ReqType, Recording, OfTask
  <2> QED BY <1>5, <2>1, <2>2 DEF TaskAnswer
<1>6. CASE RecordUsage(r)
  BY <1>1, <1>6 DEF RecordUsage, Moves, ReqType, Recording, OfTask
<1>7. CASE HandlerExit(r)
  BY <1>1, <1>7 DEF HandlerExit, Moves, ReqType, Recording, OfTask
<1>8. CASE TaskDeadline(r)
  <2> DEFINE q == [req[r] EXCEPT !.pc = "mark"]
  <2>1. q \in ReqType /\ q.kills = req[r].kills /\ q.pc = "mark" /\ q.status = req[r].status
    BY <1>1 DEF ReqType
  <2>2. req'[r] = Killed(q)
    BY <1>1, <1>8 DEF TaskDeadline
  <2> HIDE DEF q
  <2>3. /\ req'[r] \in ReqType /\ req'[r].kills = req[r].kills + 1
        /\ req'[r].pc = "mark" /\ req'[r].status = req[r].status
    BY <2>1, <2>2, KilledIs
  <2> QED BY <1>1, <1>8, <2>3 DEF TaskDeadline, Moves, Recording, OfTask
<1>9. CASE ProcessDies(r)
  <2> DEFINE q == Abandoned(req[r], "done")
  <2>1. /\ q \in ReqType /\ q.kills = req[r].kills
        /\ \/ q.pc = "queued" /\ q.status = "pending" /\ Route[r] = "agent_task"
           \/ q.pc = "done" /\ q.status = req[r].status
    BY <1>1 DEF Abandoned, Requeued, ReqType
  <2>2. req'[r] = Killed(q)
    BY <1>1, <1>9 DEF ProcessDies
  <2> HIDE DEF q
  <2>3. /\ req'[r] \in ReqType /\ req'[r].kills = req[r].kills + 1
        /\ req'[r].pc = q.pc /\ req'[r].status = q.status
    BY <2>1, <2>2, KilledIs
  <2> QED BY <1>1, <1>9, <2>1, <2>3 DEF ProcessDies, Moves, Recording, OfTask
<1>10. CASE ExceptClause(r)
  <2>1. CASE req' = [req EXCEPT ![r].pc = "mark"]
    BY <1>1, <1>10, <2>1 DEF ExceptClause, Moves, ReqType, Recording, OfTask
  <2>2. CASE req' = [req EXCEPT ![r] = [@ EXCEPT !.pc = "reap", !.status = "failed"]]
    BY <1>1, <1>10, <2>2 DEF ExceptClause, Moves, ReqType, Recording, OfTask
  <2> QED BY <1>10, <2>1, <2>2 DEF ExceptClause
<1>11. CASE WorkerMarks(r)
  <2>1. CASE req' = [req EXCEPT ![r] = Abandoned(@, "adrift")]
    BY <1>1, <1>11, <2>1 DEF WorkerMarks, Abandoned, Requeued, Moves, ReqType, Recording, OfTask
  <2>2. CASE req' = [req EXCEPT ![r] = [@ EXCEPT !.pc = "reap", !.status = "failed"]]
    BY <1>1, <1>11, <2>2 DEF WorkerMarks, Moves, ReqType, Recording, OfTask
  <2> QED BY <1>11, <2>1, <2>2 DEF WorkerMarks
<1>12. CASE WorkerReaps(r)
  <2>1. CASE req' = [req EXCEPT ![r] = Failed(@)]
    BY <1>1, <1>12, <2>1, FailedIs DEF WorkerReaps, Moves, Recording, OfTask
  <2>2. CASE req' = [req EXCEPT ![r] = Abandoned(@, "done")]
    BY <1>1, <1>12, <2>2 DEF WorkerReaps, Abandoned, Moves, ReqType, Recording, OfTask
  <2> QED BY <1>12, <2>1, <2>2 DEF WorkerReaps
<1> QED BY <1>2, <1>3, <1>4, <1>5, <1>6, <1>7, <1>8, <1>9, <1>10, <1>11, <1>12

\* The write of a bill, or its failure.
LEMMA BillStep ==
    ASSUME ChatInv, NEW r \in Requests, Bill(r)
    PROVE  ChatInv'
<1>1. /\ req \in [Requests -> ReqType] /\ req[r] \in ReqType /\ bills \in Seq(BillType)
      /\ req[r].pc = "bill" /\ req[r].status = "success" /\ Route[r] = "agent_task"
  BY DEF ChatInv, ChatTyped, Staged, Recording, OfTask, Bill
<1>2. CASE req' = [req EXCEPT ![r].pc = "except"] /\ UNCHANGED bills
  <2>1. Moves(r)
    BY <1>1, <1>2 DEF Moves, ReqType, Recording, OfTask
  <2> QED BY <2>1, MovesSafe
<1>3. CASE /\ bills' = Append(bills, [req |-> r, amount |-> CalculateCost(Spent[r])])
           /\ req' = [req EXCEPT ![r].pc = "exit"]
  <2> DEFINE b == [req |-> r, amount |-> CalculateCost(Spent[r])]
             m == Len(bills) + 1
  <2>1. b \in BillType /\ b.req = r /\ b.amount = CalculateCost(Spent[r])
    BY DEF BillType
  <2>2. /\ bills' \in Seq(BillType) /\ DOMAIN bills = 1 .. Len(bills) /\ m \notin DOMAIN bills
        /\ DOMAIN bills' = DOMAIN bills \cup {m} /\ bills'[m] = b
        /\ \A i \in DOMAIN bills : bills'[i] = bills[i]
    <3> HIDE DEF b
    <3> QED BY <1>1, <1>3, <2>1 DEF b
  <2>3. /\ req' \in [Requests -> ReqType] /\ req'[r].pc = "exit" /\ req'[r].status = "success"
        /\ req'[r].kills = req[r].kills
        /\ \A x \in Requests \ {r} : req'[x] = req[x]
    BY <1>1, <1>3 DEF ReqType
  <2> HIDE DEF b, m
  <2>4. ChatTyped'
    BY <2>1, <2>2, <2>3 DEF ChatInv, ChatTyped
  <2>5. Staged'
    BY <1>1, <2>3 DEF ChatInv, Staged, Recording
  <2>6. BillsOf(r)' = BillsOf(r) \cup {m} /\ m \notin BillsOf(r)
    BY <2>1, <2>2 DEF BillsOf
  <2>7. \A x \in Requests \ {r} : BillsOf(x)' = BillsOf(x)
    BY <2>1, <2>2 DEF BillsOf
  <2>8. Cardinality(BillsOf(r)') = Cardinality(BillsOf(r)) + 1
    <3>1. IsFiniteSet(BillsOf(r))
      BY <1>1, BillsFinite
    <3> DEFINE S == BillsOf(r)
    <3>2. IsFiniteSet(S) /\ m \notin S /\ BillsOf(r)' = S \cup {m}
      BY <2>6, <3>1
    <3>3. Cardinality(S \cup {m}) = Cardinality(S) + 1
      <4> HIDE DEF S
      <4> QED BY <3>2, FS_AddElement
    <3> QED BY <3>2, <3>3
  <2>9. Billed(req'[r], Cardinality(BillsOf(r)'))
    <3>1. Billed(req[r], Cardinality(BillsOf(r))) /\ Cardinality(BillsOf(r)) \in Nat
      BY <1>1, BillsFinite DEF ChatInv, Counting
    <3> DEFINE n == Cardinality(BillsOf(r))
    <3>2. n \in Nat /\ Billed(req[r], n) /\ Cardinality(BillsOf(r)') = n + 1
      BY <2>8, <3>1
    <3> HIDE DEF n
    <3> QED BY <1>1, <2>3, <3>2 DEF Billed, ReqType
  <2>10. Counting'
    BY <2>3, <2>7, <2>9 DEF ChatInv, Counting
  <2> QED BY <2>4, <2>5, <2>10 DEF ChatInv
<1> QED BY <1>2, <1>3 DEF Bill

\* Every step.
LEMMA StepChat == ChatInv /\ [ChatNext]_chatVars => ChatInv'
<1> SUFFICES ASSUME ChatInv, [ChatNext]_chatVars PROVE ChatInv'
  OBVIOUS
<1>1. CASE UNCHANGED <<req, bills>>
  BY <1>1 DEF ChatInv, ChatTyped, Staged, Counting, BillsOf
<1>2. ASSUME NEW r \in Requests, Bill(r) PROVE ChatInv'
  BY <1>2, BillStep
<1>3. ASSUME NEW r \in Requests,
             \/ ChatRequest(r) \/ RouteAnswer(r) \/ TaskClaim(r) \/ TaskAnswer(r)
             \/ RecordUsage(r) \/ ExceptClause(r) \/ WorkerMarks(r) \/ WorkerReaps(r)
             \/ HandlerExit(r) \/ TaskDeadline(r) \/ ProcessDies(r)
      PROVE  ChatInv'
  BY <1>3, OtherSteps, MovesSafe
<1> QED BY <1>1, <1>2, <1>3 DEF ChatNext, chatVars, Midnight

-----------------------------------------------------------------------------
(* Sums.  A sum of natural numbers over a finite set is counted unit by    *)
(* unit, so that equal numbers of units give equal sums.                   *)

\* A set of natural numbers has a least one.
LEMMA LeastNumber ==
    ASSUME NEW S, S \subseteq Nat, S # {}
    PROVE  \E x \in S : \A y \in S : x <= y
<1> DEFINE Less == {p \in Nat \X Nat : p[1] < p[2]}
<1>1. IsWellFoundedOn(Less, Nat)
  BY NatLessThanWellFounded DEF OpToRel
<1>2. PICK x \in S : \A y \in S : ~(<<y, x>> \in Less)
  <2> HIDE DEF Less
  <2> QED BY <1>1, WFMin
<1>3. \A y \in S : y < x => <<y, x>> \in Less
  OBVIOUS
<1> HIDE DEF Less
<1>4. \A y \in S : ~(y < x)
  BY <1>2, <1>3
<1> QED BY <1>4

\* What f counts over T, unit by unit: a sum is the number of its units.
Units(f, T) == {p \in T \X Nat : p[2] \in 1 .. f[p[1]]}

\* One index has as many units as its value.
LEMMA UnitsOfOne ==
    ASSUME NEW f, NEW x, f[x] \in Nat
    PROVE  IsFiniteSet(Units(f, {x})) /\ Cardinality(Units(f, {x})) = f[x]
<1> DEFINE n == f[x]
           U == Units(f, {x})
           g == [k \in 1 .. n |-> <<x, k>>]
<1>1. \A k \in 1 .. n : g[k] \in U
  BY DEF Units
<1>2. \A u \in U : \E k \in 1 .. n : g[k] = u
  BY DEF Units
<1>3. \A j, k \in 1 .. n : g[j] = g[k] => j = k
  OBVIOUS
<1>4. g \in [1 .. n -> U]
  BY <1>1
<1>5. IsFiniteSet(1 .. n) /\ Cardinality(1 .. n) = n
  <2>1. n \in Nat
    OBVIOUS
  <2> HIDE DEF n
  <2> QED BY <2>1, FS_Interval
<1> HIDE DEF g, U, n
<1>6. g \in Bijection(1 .. n, U)
  BY <1>2, <1>3, <1>4 DEF Bijection, Injection, Surjection, IsInjective
<1>7. IsFiniteSet(U) /\ Cardinality(U) = n
  BY <1>5, <1>6, FS_Bijection DEF ExistsBijection
<1> QED BY <1>7 DEF U, n

\* The units of a finite set are finitely many.
LEMMA UnitsFinite ==
    ASSUME NEW T, IsFiniteSet(T), NEW f, \A x \in T : f[x] \in Nat
    PROVE  IsFiniteSet(Units(f, T)) /\ Cardinality(Units(f, T)) \in Nat
<1> DEFINE P == {Units(f, {x}) : x \in T}
           g == [x \in T |-> Units(f, {x})]
<1>1. g \in Surjection(T, P)
  BY DEF Surjection
<1>2. \A u \in P : IsFiniteSet(u)
  BY UnitsOfOne
<1>3. Units(f, T) = UNION P
  <2>1. ASSUME NEW p \in Units(f, T) PROVE p \in UNION P
    <3>1. p[1] \in T /\ p \in Units(f, {p[1]})
      BY DEF Units
    <3> QED BY <3>1
  <2>2. ASSUME NEW p \in UNION P PROVE p \in Units(f, T)
    <3>1. PICK x \in T : p \in Units(f, {x})
      OBVIOUS
    <3> QED BY <3>1 DEF Units
  <2> QED BY <2>1, <2>2
<1> HIDE DEF P, g
<1>4. IsFiniteSet(P)
  BY <1>1, FS_Surjection
<1>5. IsFiniteSet(UNION P)
  BY <1>2, <1>4, FS_UNION
<1> QED BY <1>3, <1>5, FS_CardinalityType

\* One index more.
LEMMA UnitsSplit ==
    ASSUME NEW T, IsFiniteSet(T), NEW f, \A x \in T : f[x] \in Nat, NEW x \in T
    PROVE  Cardinality(Units(f, T)) = f[x] + Cardinality(Units(f, T \ {x}))
<1> DEFINE A == Units(f, {x})
           B == Units(f, T \ {x})
<1>1. Units(f, T) = A \cup B /\ A \cap B = {}
  <2>1. A \cap B = {}
    BY DEF Units
  <2>2. Units(f, T) = A \cup B
    BY DEF Units
  <2> QED BY <2>1, <2>2
<1>2. IsFiniteSet(A) /\ Cardinality(A) = f[x]
  BY UnitsOfOne
<1>3. IsFiniteSet(B) /\ Cardinality(B) \in Nat
  <2>1. IsFiniteSet(T \ {x})
    BY FS_RemoveElement
  <2> QED BY <2>1, UnitsFinite
<1> HIDE DEF A, B
<1>4. Cardinality(A \cup B) = Cardinality(A) + Cardinality(B) - Cardinality(A \cap B)
  BY <1>2, <1>3, FS_Union
<1>5. Cardinality(A \cap B) = 0
  BY <1>1, FS_EmptySet
<1>6. Cardinality(A \cup B) = f[x] + Cardinality(B)
  BY <1>2, <1>3, <1>4, <1>5
<1> QED BY <1>1, <1>6 DEF A, B

\* The sum is the number of units, in whatever order it is taken.
LEMMA SumIsUnits ==
    ASSUME NEW S, IsFiniteSet(S), NEW f \in [S -> Nat]
    PROVE  SumFunction(f) = Cardinality(Units(f, S))
<1> DEFINE Any(T) == CHOOSE x \in T : TRUE
           sum == CHOOSE iter : iter = [T \in SUBSET S |->
                        IF T = {} THEN 0 ELSE f[Any(T)] + iter[T \ {Any(T)}]]
           u == [T \in SUBSET S |-> Cardinality(Units(f, T))]
<1>1. SumFunction(f) = sum[S]
  <2>1. DOMAIN f = S
    OBVIOUS
  <2> QED BY <2>1 DEF SumFunction, SumFunctionOnSet, FoldFunctionOnSet, MapThenFoldSet
<1>2. \A T \in SUBSET S : T # {} => Any(T) \in T /\ T \ {Any(T)} \in SUBSET S
  OBVIOUS
<1>3. \A T \in SUBSET S : IsFiniteSet(T) /\ Cardinality(T) \in Nat
  BY FS_Subset, FS_CardinalityType
<1> HIDE DEF Any
<1>4. ASSUME NEW T \in SUBSET S
      PROVE  u[T] = IF T = {} THEN 0 ELSE f[Any(T)] + u[T \ {Any(T)}]
  <2>1. CASE T = {}
    <3>1. Units(f, T) = {}
      BY <2>1 DEF Units
    <3> QED BY <2>1, <3>1, FS_EmptySet
  <2>2. CASE T # {}
    <3>1. \A x \in T : f[x] \in Nat
      OBVIOUS
    <3>2. Cardinality(Units(f, T)) = f[Any(T)] + Cardinality(Units(f, T \ {Any(T)}))
      BY <1>2, <1>3, <2>2, <3>1, UnitsSplit
    <3> QED BY <1>2, <2>2, <3>2
  <2> QED BY <2>1, <2>2
<1>5. u = [T \in SUBSET S |-> IF T = {} THEN 0 ELSE f[Any(T)] + u[T \ {Any(T)}]]
  <2> HIDE DEF u
  <2>1. u \in [SUBSET S -> {u[T] : T \in SUBSET S}]
    BY DEF u
  <2> QED BY <1>4, <2>1
<1> HIDE DEF u
<1>6. sum = [T \in SUBSET S |-> IF T = {} THEN 0 ELSE f[Any(T)] + sum[T \ {Any(T)}]]
  BY <1>5
<1> HIDE DEF sum
<1>7. \A T \in SUBSET S : sum[T] = u[T]
  <2> DEFINE Bad == {T \in SUBSET S : sum[T] # u[T]}
             Sizes == {Cardinality(T) : T \in Bad}
  <2>1. SUFFICES ASSUME Bad # {} PROVE FALSE
    OBVIOUS
  <2>2. Sizes \subseteq Nat /\ Sizes # {}
    BY <1>3, <2>1
  <2>3. PICK n \in Sizes : \A m \in Sizes : n <= m
    <3> HIDE DEF Sizes
    <3> QED BY <2>2, LeastNumber
  <2>4. PICK T \in Bad : Cardinality(T) = n
    OBVIOUS
  <2>5. T \in SUBSET S /\ sum[T] # u[T]
    OBVIOUS
  <2>6. sum[T] = IF T = {} THEN 0 ELSE f[Any(T)] + sum[T \ {Any(T)}]
    BY <1>6, <2>5
  <2>7. T # {}
    BY <1>4, <2>5, <2>6
  <2> DEFINE R == T \ {Any(T)}
  <2>8. R \in SUBSET S /\ Cardinality(R) = n - 1
    BY <1>2, <1>3, <2>4, <2>5, <2>7, FS_RemoveElement
  <2>9. R \notin Bad
    <3>1. R \in Bad => Cardinality(R) \in Sizes
      OBVIOUS
    <3> HIDE DEF Bad, Sizes
    <3>2. n \in Nat /\ (Cardinality(R) \in Sizes => n <= Cardinality(R))
      BY <2>2, <2>3
    <3> QED BY <2>8, <3>1, <3>2
  <2>10. sum[R] = u[R]
    BY <2>8, <2>9
  <2> QED BY <1>4, <2>5, <2>6, <2>7, <2>10
<1>8. u[S] = Cardinality(Units(f, S))
  BY DEF u
<1> QED BY <1>1, <1>7, <1>8

\* Renaming the indices does not change a sum.
LEMMA SumRenamed ==
    ASSUME NEW S, IsFiniteSet(S), NEW T, NEW b \in Bijection(S, T),
           NEW f \in [S -> Nat], NEW g \in [T -> Nat], \A x \in S : f[x] = g[b[x]]
    PROVE  SumFunction(f) = SumFunction(g)
<1>1. IsFiniteSet(T)
  BY FS_Bijection DEF ExistsBijection
<1>2. /\ b \in [S -> T] /\ \A x, y \in S : b[x] = b[y] => x = y
      /\ \A y \in T : \E x \in S : b[x] = y
  BY DEF Bijection, Injection, Surjection, IsInjective
<1> DEFINE A == Units(f, S)
           B == Units(g, T)
           h == [p \in A |-> <<b[p[1]], p[2]>>]
<1>3. \A p \in A : p[1] \in S /\ p[2] \in 1 .. f[p[1]] /\ p = <<p[1], p[2]>>
  BY DEF Units
<1>4. \A p \in A : h[p] \in B
  BY <1>2, <1>3 DEF Units
<1>5. \A p, q \in A : h[p] = h[q] => p = q
  BY <1>2, <1>3
<1>6. ASSUME NEW r \in B PROVE \E p \in A : h[p] = r
  <2>1. r[1] \in T /\ r[2] \in Nat /\ r[2] \in 1 .. g[r[1]] /\ r = <<r[1], r[2]>>
    BY DEF Units
  <2>2. PICK x \in S : b[x] = r[1]
    BY <1>2, <2>1
  <2>3. <<x, r[2]>> \in A
    BY <2>1, <2>2 DEF Units
  <2>4. h[<<x, r[2]>>] = r
    BY <2>1, <2>2, <2>3
  <2> QED BY <2>3, <2>4
<1>7. h \in [A -> B]
  BY <1>4
<1>8. IsFiniteSet(A)
  <2>1. \A x \in S : f[x] \in Nat
    OBVIOUS
  <2> QED BY <2>1, UnitsFinite
<1> HIDE DEF A, B, h
<1>9. h \in Bijection(A, B)
  BY <1>5, <1>6, <1>7 DEF Bijection, Injection, Surjection, IsInjective
<1>10. Cardinality(A) = Cardinality(B)
  BY <1>8, <1>9, FS_Bijection DEF ExistsBijection
<1>11. SumFunction(f) = Cardinality(A) /\ SumFunction(g) = Cardinality(B)
  BY <1>1, SumIsUnits DEF A, B
<1> QED BY <1>10, <1>11

-----------------------------------------------------------------------------
(* The two statements about bills.                                         *)

\* Row by row, the invariant's counts are the counts of BillsFair.
LEMMA CountsAreFair == ChatInv => BillsFair
<1> SUFFICES ASSUME ChatInv PROVE BillsFair
  OBVIOUS
<1> SUFFICES ASSUME NEW r \in Requests
             PROVE  /\ \A i \in BillsOf(r) : bills[i].amount = CalculateCost(Spent[r])
                    /\ Cardinality(BillsOf(r)) <= 1 + req[r].kills
                    /\ req[r].pc \in {"done", "adrift"} /\ req[r].kills = 0 =>
                          Cardinality(BillsOf(r)) = IF r \in Answered THEN 1 ELSE 0
  BY DEF BillsFair
<1> DEFINE n == Cardinality(BillsOf(r))
<1>1. n \in Nat /\ Billed(req[r], n) /\ req[r] \in ReqType
  BY BillsFinite DEF ChatInv, ChatTyped, Counting
<1>2. \A i \in BillsOf(r) : bills[i].amount = CalculateCost(Spent[r])
  BY DEF ChatInv, ChatTyped, BillsOf
<1> HIDE DEF n
<1>3. /\ n <= 1 + req[r].kills
      /\ req[r].pc \in {"done", "adrift"} /\ req[r].kills = 0 => n = IF r \in Answered THEN 1 ELSE 0
  BY <1>1 DEF Billed, ReqType, Answered
<1> QED BY <1>2, <1>3 DEF n

\* A billing row is of a request and has its price.
LEMMA BillRows ==
    ASSUME ChatInv
    PROVE  \A i \in DOMAIN bills : /\ bills[i].req \in Requests
                                   /\ bills[i].amount = CalculateCost(Spent[bills[i].req])
<1>1. \A i \in DOMAIN bills : bills[i] \in BillType
  BY DEF ChatInv, ChatTyped
<1>2. \A i \in DOMAIN bills : bills[i].req \in Requests
  BY <1>1 DEF BillType
<1> QED BY <1>2 DEF ChatInv, ChatTyped

\* When no request is in flight and none was killed, the bills are one for each
\* answer that stays visible, and no other.
LEMMA BillsMatchAnswers ==
    ASSUME ChatInv, Settled, \A r \in Requests : req[r].kills = 0
    PROVE  [i \in DOMAIN bills |-> bills[i].req] \in Bijection(DOMAIN bills, Answered)
<1> DEFINE b == [i \in DOMAIN bills |-> bills[i].req]
<1>1. \A i \in DOMAIN bills : bills[i].req \in Requests
  BY BillRows
<1>2. ASSUME NEW r \in Requests
      PROVE  /\ r \in Answered => \E i : BillsOf(r) = {i}
             /\ r \notin Answered => BillsOf(r) = {}
  <2>1. /\ IsFiniteSet(BillsOf(r)) /\ Billed(req[r], Cardinality(BillsOf(r)))
        /\ req[r] \in ReqType /\ req[r].kills = 0 /\ req[r].pc \in {"new", "refused", "done", "adrift"}
    BY BillsFinite DEF ChatInv, ChatTyped, Counting, Settled
  <2> DEFINE S == BillsOf(r)
  <2>2. /\ r \in Answered => Cardinality(S) = 1
        /\ r \notin Answered => Cardinality(S) = 0
    BY <2>1 DEF Billed, Answered
  <2>3. IsFiniteSet(S)
    BY <2>1
  <2> HIDE DEF S
  <2>4. Cardinality(S) = 0 => S = {}
    BY <2>3, FS_EmptySet
  <2>5. Cardinality(S) = 1 => \E i : S = {i}
    BY <2>3, FS_Singleton
  <2> QED BY <2>2, <2>4, <2>5 DEF S
<1>3. \A i \in DOMAIN bills : i \in BillsOf(bills[i].req)
  BY DEF BillsOf
<1>4. \A i \in DOMAIN bills : bills[i].req \in Answered
  BY <1>1, <1>2, <1>3
<1>5. \A i, j \in DOMAIN bills : bills[i].req = bills[j].req => i = j
  <2> SUFFICES ASSUME NEW i \in DOMAIN bills, NEW j \in DOMAIN bills, bills[i].req = bills[j].req
               PROVE  i = j
    OBVIOUS
  <2>1. PICK k : BillsOf(bills[i].req) = {k}
    BY <1>1, <1>2, <1>4
  <2>2. i \in {k} /\ j \in {k}
    BY <1>3, <2>1
  <2> QED BY <2>2
<1>6. \A r \in Answered : \E i \in DOMAIN bills : bills[i].req = r
  <2> SUFFICES ASSUME NEW r \in Answered PROVE \E i \in DOMAIN bills : bills[i].req = r
    OBVIOUS
  <2>1. PICK i : BillsOf(r) = {i}
    BY <1>2 DEF Answered
  <2> QED BY <2>1 DEF BillsOf
<1>7. /\ b \in [DOMAIN bills -> Answered]
      /\ \A i, j \in DOMAIN bills : b[i] = b[j] => i = j
      /\ \A r \in Answered : \E i \in DOMAIN bills : b[i] = r
  BY <1>4, <1>5, <1>6
<1> HIDE DEF b
<1>8. b \in Bijection(DOMAIN bills, Answered)
  BY <1>7 DEF Bijection, Injection, Surjection, IsInjective
<1> QED BY <1>8 DEF b

\* The dashboard's cost then is what the visible answers cost: get_usage_summary
\* adds up the rows of agent_task_handler.
LEMMA CostOfAnswers ==
    ASSUME ChatInv, Settled, \A r \in Requests : req[r].kills = 0
    PROVE  TotalCost = SumFunction([r \in Answered |-> CalculateCost(Spent[r])])
<1> DEFINE S == DOMAIN bills
           T == Answered
           b == [i \in S |-> bills[i].req]
           f == [i \in S |-> bills[i].amount]
           g == [r \in T |-> CalculateCost(Spent[r])]
<1>1. IsFiniteSet(S)
  <2>1. Len(bills) \in Nat /\ S = 1 .. Len(bills)
    BY DEF ChatInv, ChatTyped
  <2> QED BY <2>1, FS_Interval
<1>2. b \in Bijection(S, T)
  BY BillsMatchAnswers
<1>3. \A r \in Requests : CalculateCost(Spent[r]) \in Nat
  BY ChatAssumption DEF CalculateCost
<1>4. \A i \in S : bills[i].req \in Requests /\ bills[i].amount = CalculateCost(Spent[bills[i].req])
  BY BillRows
<1>5. \A i \in S : bills[i].req \in T
  BY <1>2 DEF Bijection, Injection
<1>6. f \in [S -> Nat] /\ g \in [T -> Nat]
  BY <1>3, <1>4 DEF Answered
<1>7. \A i \in S : f[i] = g[b[i]]
  BY <1>4, <1>5
<1> HIDE DEF S, T, b, f, g
<1>8. SumFunction(f) = SumFunction(g)
  BY <1>1, <1>2, <1>6, <1>7, SumRenamed
<1> QED BY <1>8 DEF TotalCost, S, T, f, g

\* BilledOnce: whatever fails and is retried, the handler bills every answer that
\* stays visible exactly once and no failed task, so the dashboard's cost is the
\* cost of those answers; an answer is free only if its bill and both FAILED writes
\* after it failed, and every bill beyond that is paid for by a handler that was
\* killed (BillsFair).
THEOREM BillsAddUp == ChatSpec => []BilledOnce
<1>1. ChatInv => BilledOnce
  BY CountsAreFair, CostOfAnswers DEF BilledOnce
<1> QED BY <1>1, InitChat, StepChat, PTL DEF ChatSpec

-----------------------------------------------------------------------------
(* Types, where the invariants above do not say them already.              *)

\* The corpus, the run and what it has written keep their types.
THEOREM TrainingTypes == TrainingSpec => []TrainingTypeOK
<1>1. TrainingInv => TrainingTypeOK
  BY DEF TrainingInv, TrainingTyped
<1> QED BY <1>1, InitTraining, StepTraining, PTL DEF TrainingSpec

\* The flag and the counters of the knowledge base, which KnowledgeInv leaves open.
KnowledgeCounted ==
    /\ gap \in BOOLEAN /\ releases \in 0 .. MaxReleases /\ troubles \in 0 .. MaxKnowledgeFaults

\* The release, the vectors, the rebuilds and the migration keep their types: in
\* particular a vector has one of the four tenants.
THEOREM KnowledgeTypes == KnowledgeSpec => []KnowledgeTypeOK
<1>1. KnowledgeInit => KnowledgeCounted
  <2>1. KnowledgeInit => gap \in BOOLEAN /\ releases = 0 /\ troubles = 0
    BY DEF KnowledgeInit
  <2> QED BY <2>1, KnowledgeAssumption DEF KnowledgeCounted
<1>2. ASSUME KnowledgeCounted, [KnowledgeNext]_knowVars PROVE KnowledgeCounted'
  <2> USE KnowledgeAssumption DEF KnowledgeCounted
  <2>1. ASSUME NEW b \in BOOLEAN, Trouble(b) PROVE troubles' \in 0 .. MaxKnowledgeFaults
    BY <1>2, <2>1 DEF Trouble
  <2>2. CASE Bootstrap \/ BootstrapCheck \/ ContainerDies \/ MigrateDies
    BY <1>2, <2>1, <2>2 DEF Bootstrap, BootstrapCheck, ContainerDies, MigrateDies
  <2>3. CASE Release
    BY <1>2, <2>3 DEF Release
  <2>4. ASSUME NEW p \in Refreshers, RefreshRequest(p) PROVE KnowledgeCounted'
    BY <1>2, <2>4 DEF RefreshRequest
  <2>5. ASSUME NEW p \in Everyone, LoadDocuments(p) PROVE KnowledgeCounted'
    BY <1>2, <2>1, <2>5 DEF LoadDocuments
  <2>6. ASSUME NEW p \in Everyone, DeletePublic(p) PROVE KnowledgeCounted'
    BY <1>2, <2>1, <2>6 DEF DeletePublic
  <2>7. ASSUME NEW p \in Everyone, AddPublic(p) PROVE KnowledgeCounted'
    BY <1>2, <2>1, <2>7 DEF AddPublic
  <2>8. ASSUME NEW i, PrivateStore(i) \/ PrivateDelete(i) \/ MigrateRow(i) PROVE KnowledgeCounted'
    BY <1>2, <2>8 DEF PrivateStore, PrivateDelete, MigrateRow
  <2>9. CASE MigrateScan \/ UNCHANGED knowVars
    BY <1>2, <2>9 DEF MigrateScan, knowVars
  <2> QED BY <1>2, <2>2, <2>3, <2>4, <2>5, <2>6, <2>7, <2>8, <2>9 DEF KnowledgeNext
<1>3. KnowledgeInv /\ KnowledgeCounted => KnowledgeTypeOK
  BY DEF KnowledgeInv, Shelf, ReleaseTyped, VectorType, KnowledgeJob, KnowledgeCounted, KnowledgeTypeOK
<1> QED BY <1>1, <1>2, <1>3, InitKnowledge, StepKnowledge, PTL DEF KnowledgeSpec

\* The retries, the plan and the counters that ChatInv leaves open.
Budgeted ==
    /\ chatDay \in 0 .. LastChatDay /\ plan \in Slugs /\ limited \in BOOLEAN
    /\ chatFaults \in 0 .. MaxChatFaults
    /\ \A r \in Requests : req[r].retries <= ChatRetries

\* What a request's retries become.
LEMMA RetriesWithin ==
    ASSUME NEW q \in ReqType, q.retries <= ChatRetries
    PROVE  /\ Failed(q) \in ReqType /\ Failed(q).retries <= ChatRetries
           /\ Requeued(q) \in ReqType /\ Requeued(q).retries = q.retries
           /\ Killed(q) \in ReqType /\ Killed(q).retries = q.retries
           /\ \A p \in {"done", "adrift"} :
                Abandoned(q, p) \in ReqType /\ Abandoned(q, p).retries = q.retries
<1>1. Requeued(q) \in ReqType /\ Requeued(q).retries = q.retries
  BY DEF ReqType, Requeued
<1>2. Killed(q) \in ReqType /\ Killed(q).retries = q.retries
  BY DEF ReqType, Killed
<1>3. ASSUME q.retries < ChatRetries
      PROVE  Failed(q) \in ReqType /\ Failed(q).retries <= ChatRetries
  <2>1. Failed(q) = [Requeued(q) EXCEPT !.retries = @ + 1]
    BY <1>3 DEF Failed
  <2> QED BY <1>1, <1>3, <2>1, ChatAssumption DEF ReqType
<1>4. ASSUME ~(q.retries < ChatRetries)
      PROVE  Failed(q) \in ReqType /\ Failed(q).retries <= ChatRetries
  <2>1. Failed(q) = [q EXCEPT !.pc = "done", !.status = "failed"]
    BY <1>4 DEF Failed
  <2> QED BY <2>1 DEF ReqType
<1>5. ASSUME NEW p \in {"done", "adrift"}
      PROVE  Abandoned(q, p) \in ReqType /\ Abandoned(q, p).retries = q.retries
  <2>1. [q EXCEPT !.pc = p] \in ReqType /\ [q EXCEPT !.pc = p].retries = q.retries
    BY DEF ReqType
  <2> QED BY <1>1, <2>1 DEF Abandoned
<1> QED BY <1>1, <1>2, <1>3, <1>4, <1>5

\* A request takes a retry only while the budget lasts, and the counters stay in
\* their bounds.
THEOREM ChatTypes == ChatSpec => []ChatTypeOK
<1>1. ChatInit => Budgeted
  BY ChatAssumption DEF ChatInit, Budgeted
<1>2. ASSUME ChatInv, Budgeted, [ChatNext]_chatVars PROVE Budgeted'
  <2>0. req \in [Requests -> ReqType] /\ \A r \in Requests : req[r].retries <= ChatRetries
    BY <1>2 DEF ChatInv, ChatTyped, Budgeted
  <2>1. ASSUME NEW r \in Requests, NEW q \in ReqType, q.retries <= ChatRetries,
               req' = [req EXCEPT ![r] = q], UNCHANGED <<chatDay, plan, limited>>,
               ChatFault \/ UNCHANGED chatFaults
        PROVE  Budgeted'
    <3>1. chatFaults' \in 0 .. MaxChatFaults
      BY <1>2, <2>1, ChatAssumption DEF Budgeted, ChatFault
    <3>2. \A s \in Requests : req'[s].retries <= ChatRetries
      BY <2>0, <2>1
    <3> QED BY <1>2, <2>1, <3>1, <3>2 DEF Budgeted
  <2>2. ASSUME NEW r \in Requests, NEW pc, NEW status
        PROVE  [[req[r] EXCEPT !.pc = pc] EXCEPT !.status = status].retries <= ChatRetries
    BY <2>0 DEF ReqType
  <2>3. ASSUME NEW r \in Requests, ChatRequest(r) PROVE Budgeted'
    <3>1. req[r] \in ReqType /\ req[r].retries <= ChatRetries
      BY <2>0
    <3>2. PICK q \in ReqType : q.retries <= ChatRetries /\ req' = [req EXCEPT ![r] = q]
      BY <2>3, <3>1 DEF ChatRequest, ReqType
    <3> QED BY <2>1, <2>3, <3>2 DEF ChatRequest
  <2>4. ASSUME NEW r \in Requests, RouteAnswer(r) \/ TaskClaim(r) PROVE Budgeted'
    <3>1. req[r] \in ReqType /\ req[r].retries <= ChatRetries
      BY <2>0
    <3>2. PICK q \in ReqType : q.retries <= ChatRetries /\ req' = [req EXCEPT ![r] = q]
      BY <2>4, <3>1 DEF RouteAnswer, TaskClaim, ReqType
    <3> QED BY <2>1, <2>4, <3>2 DEF RouteAnswer, TaskClaim
  <2>5. ASSUME NEW r \in Requests, TaskAnswer(r) \/ Bill(r) \/ ExceptClause(r) PROVE Budgeted'
    <3>1. req[r] \in ReqType /\ req[r].retries <= ChatRetries
      BY <2>0
    <3>2. PICK q \in ReqType : q.retries <= ChatRetries /\ req' = [req EXCEPT ![r] = q]
      BY <2>5, <3>1 DEF TaskAnswer, Bill, ExceptClause, ReqType
    <3> QED BY <2>1, <2>5, <3>2 DEF TaskAnswer, Bill, ExceptClause
  <2>6. ASSUME NEW r \in Requests, RecordUsage(r) \/ HandlerExit(r) PROVE Budgeted'
    <3>1. req[r] \in ReqType /\ req[r].retries <= ChatRetries
      BY <2>0
    <3>2. PICK q \in ReqType : q.retries <= ChatRetries /\ req' = [req EXCEPT ![r] = q]
      BY <2>6, <3>1 DEF RecordUsage, HandlerExit, ReqType
    <3> QED BY <2>1, <2>6, <3>2 DEF RecordUsage, HandlerExit
  <2>7. ASSUME NEW r \in Requests, WorkerMarks(r) \/ WorkerReaps(r) PROVE Budgeted'
    <3>1. req[r] \in ReqType /\ req[r].retries <= ChatRetries
      BY <2>0
    <3>2. [req[r] EXCEPT !.pc = "reap", !.status = "failed"] \in ReqType
          /\ [req[r] EXCEPT !.pc = "reap", !.status = "failed"].retries <= ChatRetries
      BY <3>1 DEF ReqType
    <3>3. \/ req' = [req EXCEPT ![r] = [req[r] EXCEPT !.pc = "reap", !.status = "failed"]]
          \/ req' = [req EXCEPT ![r] = Abandoned(req[r], "adrift")]
          \/ req' = [req EXCEPT ![r] = Abandoned(req[r], "done")]
          \/ req' = [req EXCEPT ![r] = Failed(req[r])]
      BY <2>0, <2>7 DEF WorkerMarks, WorkerReaps
    <3> QED BY <2>1, <2>7, <3>1, <3>2, <3>3, RetriesWithin DEF WorkerMarks, WorkerReaps
  <2>8. ASSUME NEW r \in Requests, TaskDeadline(r) PROVE Budgeted'
    <3>1. req[r] \in ReqType /\ req[r].retries <= ChatRetries
      BY <2>0
    <3> DEFINE e == [req[r] EXCEPT !.pc = "mark"]
    <3>2. e \in ReqType /\ e.retries <= ChatRetries
      BY <3>1 DEF ReqType
    <3>3. req' = [req EXCEPT ![r] = Killed(e)]
      BY <2>0, <2>8 DEF TaskDeadline
    <3> HIDE DEF e
    <3>4. Killed(e) \in ReqType /\ Killed(e).retries <= ChatRetries
      BY <3>2, RetriesWithin
    <3> QED BY <2>1, <2>8, <3>3, <3>4 DEF TaskDeadline
  <2>9. ASSUME NEW r \in Requests, ProcessDies(r) PROVE Budgeted'
    <3>1. req[r] \in ReqType /\ req[r].retries <= ChatRetries
      BY <2>0
    <3> DEFINE e == Abandoned(req[r], "done")
    <3>2. e \in ReqType /\ e.retries <= ChatRetries
      BY <3>1, RetriesWithin
    <3>3. req' = [req EXCEPT ![r] = Killed(e)]
      BY <2>0, <2>9 DEF ProcessDies
    <3> HIDE DEF e
    <3>4. Killed(e) \in ReqType /\ Killed(e).retries <= ChatRetries
      BY <3>2, RetriesWithin
    <3> QED BY <2>1, <2>9, <3>3, <3>4 DEF ProcessDies
  <2>10. CASE Midnight
    BY <1>2, <2>10, ChatAssumption DEF Midnight, Budgeted
  <2>11. CASE UNCHANGED chatVars
    BY <1>2, <2>11 DEF chatVars, Budgeted
  <2> QED BY <1>2, <2>3, <2>4, <2>5, <2>6, <2>7, <2>8, <2>9, <2>10, <2>11 DEF ChatNext
<1>3. ChatInv /\ Budgeted => ChatTypeOK
  BY ChatAssumption DEF ChatInv, ChatTyped, Staged, ReqType, Budgeted, ChatTypeOK
<1> QED BY <1>1, <1>2, <1>3, InitChat, StepChat, PTL DEF ChatSpec

\* A transaction holds a provider and a model that exist.
TxNamed == \A s \in Servers : tx[s] # NoTx => tx[s].provider \in ProviderSet /\ tx[s].model \in Models
\* So does a row.
RowsNamed == \A r \in rows : r.provider \in ProviderSet /\ r.model \in Models
\* And the key file is absent, empty or of a server.
SettingsFiled ==
    /\ keyFile \in {"absent", "empty"} \cup Servers /\ stamp \in 0 .. MaxStamp
    /\ TxNamed /\ RowsNamed

\* The rows of the settings name existing providers and models, one row for each provider
\* and one default at most, whatever transactions read before the others committed.
THEOREM SettingsTypes == SettingsSpec => []SettingsTypeOK
<1>1. SettingsInit => SettingsFiled
  BY SettingsAssumption DEF SettingsInit, SettingsFiled, TxNamed, RowsNamed
<1>2. ASSUME SettingsInv, SettingsFiled, [SettingsNext]_setVars PROVE SettingsFiled'
  <2>1. ASSUME NEW s \in Servers, KeyCreate(s) \/ KeyWrite(s) \/ KeyLoad(s) \/ RuntimeSettings(s)
        PROVE  SettingsFiled'
    BY <1>2, <2>1 DEF SettingsFiled, TxNamed, RowsNamed, KeyCreate, KeyWrite, KeyLoad, RuntimeSettings
  <2>2. ASSUME NEW s \in Servers, SettingsBegin(s) PROVE SettingsFiled'
    <3>1. tx = [u \in Servers |-> tx[u]]
      BY <1>2 DEF SettingsInv, KeyShared
    <3>2. \E t : tx' = [tx EXCEPT ![s] = t] /\ t.provider \in ProviderSet /\ t.model \in Models
      <4>1. \A p, op, m, key : TxRead(op, p, m, key).provider = p /\ TxRead(op, p, m, key).model = m
        BY DEF TxRead
      <4>2. PICK p \in ProviderSet, op \in {"upsert", "default", "delete"}, m \in Models, key \in BOOLEAN :
               tx' = [tx EXCEPT ![s] = TxRead(op, p, m, key)]
        BY <2>2 DEF SettingsBegin
      <4>3. TxRead(op, p, m, key).provider \in ProviderSet /\ TxRead(op, p, m, key).model \in Models
        BY <4>1, <4>2
      <4> QED BY Zenon, <4>2, <4>3
    <3>3. TxNamed'
      BY <1>2, <3>1, <3>2 DEF SettingsFiled, TxNamed
    <3> QED BY <1>2, <2>2, <3>3 DEF SettingsBegin, SettingsFiled, RowsNamed
  <2>3. ASSUME NEW s \in Servers, SettingsCommit(s) PROVE SettingsFiled'
    <3>0. /\ tx = [u \in Servers |-> tx[u]] /\ tx[s] # NoTx /\ stamp < MaxStamp /\ stamp \in 0 .. MaxStamp
          /\ MaxStamp \in Nat /\ tx[s].provider \in ProviderSet /\ tx[s].model \in Models
          /\ \A r \in rows : RowShape(r)
      BY <1>2, <2>3, SettingsAssumption DEF SettingsInv, KeyShared, SettingsCommit, SettingsFiled, TxNamed, Tidy
    <3>1. TxNamed'
      BY <1>2, <2>3, <3>0 DEF SettingsCommit, SettingsFiled, TxNamed
    <3>2. stamp' \in 0 .. MaxStamp
      BY <2>3, <3>0 DEF SettingsCommit
    <3> DEFINE OK(S) == \A r \in S : r.provider \in ProviderSet /\ r.model \in Models
    <3>4. OK(Inserted(s, tx[s]))
      BY <1>2, <3>0 DEF Inserted, SettingsFiled, RowsNamed
    <3>5. OK(Updated(s, tx[s]))
      BY <1>2, <3>0 DEF Updated, SettingsFiled, RowsNamed, RowShape
    <3>6. OK(Selected(tx[s]))
      BY <1>2, <3>0 DEF Selected, SettingsFiled, RowsNamed, RowShape
    <3>7. OK(Deleted(tx[s]))
      <4> DEFINE left == {r \in rows : r.id # tx[s].id}
                 new == {IF r.provider = PreferredOf(left)
                         THEN [r EXCEPT !.default = TRUE, !.revision = Fresh] ELSE r : r \in left}
      <4>1. OK(left)
        BY <1>2 DEF SettingsFiled, RowsNamed
      <4>2. OK(new)
        BY <1>2, <3>0 DEF SettingsFiled, RowsNamed, RowShape
      <4> QED BY <4>1, <4>2 DEF Deleted
    <3>8. OK(rows')
      <4>1. rows' \in {rows, Deleted(tx[s]), Selected(tx[s]), Inserted(s, tx[s]), Updated(s, tx[s])}
        BY <2>3 DEF SettingsCommit
      <4>2. OK(rows)
        BY <1>2 DEF SettingsFiled, RowsNamed
      <4> HIDE DEF OK
      <4> QED BY <3>4, <3>5, <3>6, <3>7, <4>1, <4>2
    <3> QED BY <1>2, <2>3, <3>1, <3>2, <3>8 DEF SettingsCommit, SettingsFiled, RowsNamed
  <2>4. CASE UNCHANGED setVars
    BY <1>2, <2>4 DEF setVars, SettingsFiled, TxNamed, RowsNamed
  <2> QED BY <1>2, <2>1, <2>2, <2>3, <2>4 DEF SettingsNext
<1>3. ASSUME SettingsInv, SettingsFiled PROVE SettingsTypeOK
  <2> DEFINE D == {r \in rows : r.default}
  <2>1. \A r, q \in D : r = q
    BY <1>3 DEF SettingsFiled, SettingsInv, Constrained
  <2>2. Cardinality(D) <= 1
    <3>1. CASE D = {}
      BY <3>1, FS_EmptySet
    <3>2. ASSUME NEW r \in D PROVE Cardinality(D) <= 1
      <4>1. D = {r}
        BY <2>1, <3>2
      <4> HIDE DEF D
      <4> QED BY <4>1, FS_Singleton
    <3> QED BY <3>1, <3>2
  <2> QED BY <1>3, <2>2 DEF SettingsFiled, RowsNamed, SettingsInv, KeyShared, Constrained, SettingsTypeOK
<1> QED BY <1>1, <1>2, <1>3, InitSettings, StepSettings, PTL DEF SettingsSpec
=============================================================================
