--------------------------- MODULE SamplingProofs ---------------------------
(***************************************************************************)
(* Proofs about what happens to a request: Sampling, for any settings,      *)
(* configurations and requests; Filters, for any settings and URLs;         *)
(* Handlers, for any number of them and any links; and Metadata, for any    *)
(* headers.                                                                 *)
(***************************************************************************)
EXTENDS MCSampling, TokenBucketProofs, SequenceTheorems, WellFoundedInduction

\* A setting in the store: with the override flag nothing was added to what was sent.
Sound(s) ==
  /\ s \in Setting
  /\ Override(s) => s.flags \subseteq s.originalFlags /\ s.value <= s.sent

SoundStore == \A s \in store \cup used : Sound(s)

\* The decision before the entry event.
Consistent ==
  /\ decision.trace /\ EntryKind = "triggered" => decision.rsp = "ok" /\ "TRIGGER" \in decision.flags
  /\ decision.rsp = "ok" => decision.trace /\ EntryKind = "triggered"
  /\ decision.rsp \in {"rate-exceeded", "tracing-disabled", "trigger-tracing-disabled",
                       "settings-not-available"} => ~decision.trace
  /\ decision.rsp = "not-requested" => ~Requested
  /\ decision.trace /\ tMode = "invalid" => Given = "sampled"

\* What the stages leave behind for the next one.
Stages ==
  /\ stage \in {"new", "parsed", "decided"} => entered = "none"
  /\ stage \in {"new", "parsed"} => used = {} /\ ~decision.trace /\ decision.rate = -1
  /\ stage # "new" => /\ auth \notin {"none", "ok"} => tMode = "invalid"
                      /\ tMode = "invalid" => ~ignored
  /\ stage = "decided" => Given # "unsampled" /\ Consistent

SamplingInv == SamplingTypeOK /\ SoundStore /\ Stages /\ NeverWidened /\ AnswerTruthful

-----------------------------------------------------------------------------
\* Neither the local configuration nor a URL filter widens a setting with the override flag.
LEMMA MergeSound ==
  ASSUME local \in LocalConfig, NEW flags \in SUBSET Flags, NEW rate \in Int, NEW token \in BOOLEAN
  PROVE  Sound(MergeLocalSetting(Received(flags, rate, token)))
  <1> USE SamplingAssumption
  <1> DEFINE s == Received(flags, rate, token)
  <1>1. /\ s \in Setting /\ s.flags = flags /\ s.originalFlags = flags /\ s.value = s.sent
        /\ s.sent \in 0..MaxRate
    BY DEF Received, AdjustSampleRate, Setting
  <1> HIDE DEF s
  <1>2. /\ ToFlags(local.mode) \subseteq Flags /\ local.rate \in 0..MaxRate
        /\ local.configured \in BOOLEAN /\ local.trigger \in BOOLEAN
    BY DEF ToFlags, Flags, LocalConfig
  <1> DEFINE m == MergeLocalSetting(s)
             f == IF ~local.configured THEN s.flags
                  ELSE ToFlags(local.mode) \cap (IF Override(s) THEN s.flags ELSE Flags)
             v == IF ~local.configured \/ (Override(s) /\ s.value <= local.rate)
                  THEN s.value ELSE local.rate
             g == IF local.trigger THEN f ELSE f \ {"TRIGGER"}
  <1>3. f \subseteq Flags /\ (Override(s) => f \subseteq s.flags)
    BY <1>1, <1>2
  <1>4. g \subseteq Flags /\ (Override(s) => g \subseteq s.flags)
    BY <1>3
  <1>5. v \in 0..MaxRate /\ (Override(s) => v <= s.sent)
    BY <1>1, <1>2
  <1>6. m = [s EXCEPT !.value = v, !.flags = g]
    BY DEF MergeLocalSetting
  <1> HIDE DEF m, v, g, f
  <1>7. m \in Setting /\ m.originalFlags = s.originalFlags /\ m.flags = g /\ m.value = v /\ m.sent = s.sent
    BY <1>1, <1>4, <1>5, <1>6 DEF Setting
  <1>8. Override(m) = Override(s)
    BY <1>7 DEF Override
  <1>9. Sound(m)
    BY <1>1, <1>4, <1>5, <1>7, <1>8 DEF Sound
  <1> QED
    BY <1>9 DEF m, s

LEMMA FilterSound ==
  ASSUME NEW s, Sound(s), request \in AnyRequest
  PROVE  /\ MergeURLSetting(s) \in SUBSET Flags
         /\ Override(s) => MergeURLSetting(s) \subseteq s.originalFlags
  BY DEF Sound, Setting, MergeURLSetting, ToFlags, Flags

LEMMA SamplingInvInit == SampleInit => SamplingInv
  <1> SUFFICES ASSUME SampleInit PROVE SamplingInv
    OBVIOUS
  <1> USE SamplingAssumption
  <1>1. SamplingTypeOK
    <2>1. NoDecision \in Decision
      BY DEF NoDecision, Decision, Responses
    <2>2. response \in [ctx : {"null", "sampled", "unsampled"}, ok : BOOLEAN, header : BOOLEAN,
                        rsp : Responses, auth : Auths, ignored : BOOLEAN]
      BY DEF SampleInit, NoResponse, Responses, Auths
    <2>3. /\ local \in Locals /\ store \in SUBSET Setting /\ updates \in 0..MaxUpdates
          /\ request \in RequestKinds /\ used \in SUBSET Setting
      BY DEF SampleInit
    <2>4. auth \in Auths
      BY DEF SampleInit, Auths
    <2> QED
      BY <2>1, <2>2, <2>3, <2>4 DEF SampleInit, SamplingTypeOK
  <1>2. SoundStore /\ Stages /\ NeverWidened /\ AnswerTruthful
    BY DEF SampleInit, SoundStore, Stages, NeverWidened, AnswerTruthful, NoDecision
  <1> QED
    BY <1>1, <1>2 DEF SamplingInv

\* A change of the settings leaves the request in flight alone.
LEMMA SettingsInv ==
  ASSUME SamplingInv, UNCHANGED <<local, inFlightVars>>, updates' \in 0..MaxUpdates,
         \A s \in store' : Sound(s)
  PROVE  SamplingInv'
  <1>1. SoundStore'
    BY DEF SamplingInv, SoundStore, inFlightVars, decisionVars, Sound, Override
  <1>2. SamplingTypeOK'
    BY <1>1 DEF SamplingInv, SamplingTypeOK, inFlightVars, parseVars, decisionVars, SoundStore, Sound
  <1>3. UNCHANGED <<stage, request, tMode, auth, ignored, decision, used, entered, response>>
    BY DEF inFlightVars, parseVars, decisionVars
  <1>4. Stages' /\ NeverWidened' /\ AnswerTruthful'
    BY <1>3 DEF SamplingInv, Stages, NeverWidened, AnswerTruthful, Consistent, EntryKind, Triggering,
       Requested, Continued, Explicit, Given, Override
  <1> QED
    BY <1>1, <1>2, <1>4 DEF SamplingInv

LEMMA ParseInv ==
  ASSUME SamplingInv, ParseTriggerTraceFlag
  PROVE  SamplingInv'
  <1> USE DEF SamplingInv
  <1>1. /\ stage = "new" /\ stage' = "parsed" /\ used = {} /\ entered = "none"
        /\ UNCHANGED <<local, store, updates, request, decision, used, entered, response>>
    BY DEF ParseTriggerTraceFlag, decisionVars, Stages
  <1>2. request \in AnyRequest
    BY SamplingAssumption DEF SamplingTypeOK
  <1>3. auth' \in Auths /\ tMode' \in {"absent", "invalid", "relaxed", "strict"} /\ ignored' \in BOOLEAN
    BY <1>2 DEF ParseTriggerTraceFlag, Authenticate, Auths, AnyRequest
  <1>4. SamplingTypeOK'
    BY <1>1, <1>3 DEF SamplingTypeOK
  <1>5. (auth' \notin {"none", "ok"} => tMode' = "invalid") /\ (tMode' = "invalid" => ~ignored')
    BY DEF ParseTriggerTraceFlag
  <1>6. Stages'
    BY <1>1, <1>5 DEF Stages
  <1>7. SoundStore' /\ NeverWidened' /\ AnswerTruthful'
    BY <1>1 DEF SoundStore, NeverWidened, AnswerTruthful, Sound, Override
  <1> QED
    BY <1>4, <1>6, <1>7

\* Return ends the request, well if the answer is true.
LEMMA ReturnInv ==
  ASSUME SamplingInv, NEW outcome \in {"null", "sampled", "unsampled"}, NEW ok \in BOOLEAN,
         NEW header \in BOOLEAN, NEW rsp \in Responses, Return(outcome, ok, header, rsp),
         UNCHANGED <<local, store, updates, parseVars>>,
         stage # "new", decision' \in Decision,
         \A s \in used' : Sound(s), NeverWidened',
         entered' \in {"none", "regular", "triggered"},
         \* The answer.
         entered' = "triggered" => rsp = "ok" /\ Triggering,
         rsp = "ok" => /\ Triggering /\ (request.entry => entered' = "triggered")
                       /\ outcome = "sampled" \/ (outcome = "null" /\ ~request.entry),
         rsp \in {"rate-exceeded", "tracing-disabled", "trigger-tracing-disabled",
                  "settings-not-available"} => outcome # "sampled",
         rsp = "not-requested" => ~Requested,
         tMode = "invalid" /\ outcome = "sampled" => Given = "sampled",
         Given = "unsampled" => outcome = "unsampled",
         ok /\ Given # "unsampled" => header = (request.opts # "absent")
  PROVE  SamplingInv'
  <1> USE DEF SamplingInv
  <1>1. UNCHANGED <<request, tMode, auth, ignored>>
    BY DEF parseVars
  <1>2. stage' \in {"done", "panicked"}
    BY DEF Return
  <1>3. SoundStore'
    BY DEF SoundStore, Sound, Override
  <1>4. auth \in Auths /\ ignored \in BOOLEAN
    BY DEF SamplingTypeOK
  <1>5. SamplingTypeOK'
    <2>1. response' \in [ctx : {"null", "sampled", "unsampled"}, ok : BOOLEAN, header : BOOLEAN,
                         rsp : Responses, auth : Auths, ignored : BOOLEAN]
      BY <1>4 DEF Return, SamplingTypeOK, Auths
    <2>2. used' \in SUBSET Setting
      BY DEF Sound
    <2> QED
      BY <1>1, <1>2, <2>1, <2>2 DEF SamplingTypeOK
  <1>6. Stages'
    BY <1>1, <1>2 DEF Stages
  <1>7. AnswerTruthful'
    <2> SUFFICES ASSUME stage' = "done" PROVE AnswerTruthful'
      BY DEF AnswerTruthful
    <2>1. response' = [ctx |-> outcome, ok |-> ok, header |-> header, rsp |-> rsp,
                       auth |-> IF header THEN auth ELSE "none", ignored |-> ignored]
      BY DEF Return
    <2>2. /\ response'.ctx = outcome /\ response'.header = header /\ response'.rsp = rsp
          /\ response'.ignored = ignored /\ response'.ok = ok
          /\ response'.auth = IF header THEN auth ELSE "none"
      BY <2>1
    <2>3. Given' = Given /\ Triggering' = Triggering /\ Requested' = Requested
      BY <1>1 DEF Given, Triggering, Requested
    <2>4. response'.auth \notin {"none", "ok"} => ~ignored /\ tMode = "invalid"
      BY <2>2 DEF Stages
    <2>5. tMode = "invalid" => ~Triggering
      BY DEF Triggering
    <2> QED
      BY <1>1, <2>2, <2>3, <2>4, <2>5 DEF AnswerTruthful
  <1> QED
    BY <1>3, <1>5, <1>6, <1>7

\* A decision that is consistent and widens nothing.
LEMMA DecideInv ==
  ASSUME SamplingInv, NEW d \in Decision, NEW u, Decide(d, u), Consistent',
         \A s \in u : /\ Sound(s)
                      /\ Override(s) => /\ d.flags \subseteq s.originalFlags
                                        /\ d.rate <= s.sent
                                        /\ d.trace => s.originalFlags \cap {"START", "THROUGH", "ALWAYS", "TRIGGER"} # {}
  PROVE  SamplingInv'
  <1> USE DEF SamplingInv
  <1>1. /\ stage = "parsed" /\ stage' = "decided" /\ decision' = d /\ used' = u /\ Given # "unsampled"
        /\ UNCHANGED <<local, store, updates, request, tMode, auth, ignored, entered, response>>
    BY DEF Decide, parseVars
  <1>2. entered = "none"
    BY <1>1 DEF Stages
  <1>3. SoundStore'
    BY <1>1 DEF SoundStore, Sound, Override
  <1>4. SamplingTypeOK'
    BY <1>1 DEF SamplingTypeOK, Sound
  <1>5. Given' = Given
    BY <1>1 DEF Given
  <1>6. Stages'
    BY <1>1, <1>2, <1>5 DEF Stages
  <1>7. NeverWidened'
    BY <1>1, <1>2 DEF NeverWidened, Override
  <1>8. AnswerTruthful'
    BY <1>1 DEF AnswerTruthful
  <1> QED
    BY <1>3, <1>4, <1>6, <1>7, <1>8

\* What the trigger bucket answers is consistent with the trace.
LEMMA TriggerInv == ASSUME SamplingInv, DecideTrigger PROVE SamplingInv'
  <1> USE SamplingAssumption
  <1>1. PICK s \in store :
          /\ ~Explicit /\ NewTrigger
          /\ \E counted \in Counted(Triggering /\ "TRIGGER" \in MergeURLSetting(s), TRUE) :
               Decide([trace |-> counted, enabled |-> FlagsEnabled(MergeURLSetting(s)), rate |-> -1,
                       flags |-> MergeURLSetting(s), bucket |-> Bucket,
                       rsp |-> TriggerResponse(MergeURLSetting(s), counted)], {s})
    BY DEF DecideTrigger
  <1> DEFINE flags == MergeURLSetting(s)
             rsp(c) == TriggerResponse(flags, c)
  <1>2. PICK counted \in Counted(Triggering /\ "TRIGGER" \in flags, TRUE) :
          Decide([trace |-> counted, enabled |-> FlagsEnabled(flags), rate |-> -1,
                  flags |-> flags, bucket |-> Bucket, rsp |-> rsp(counted)], {s})
    BY <1>1
  <1> DEFINE d == [trace |-> counted, enabled |-> FlagsEnabled(flags), rate |-> -1,
                   flags |-> flags, bucket |-> Bucket, rsp |-> rsp(counted)]
  <1>3. Sound(s) /\ request \in AnyRequest /\ MaxRate \in Nat
        /\ tMode \in {"absent", "invalid", "relaxed", "strict"}
    BY DEF SamplingInv, SoundStore, SamplingTypeOK
  <1>4. flags \in SUBSET Flags /\ (Override(s) => flags \subseteq s.originalFlags)
    BY <1>3, FilterSound
  <1>5. counted \in BOOLEAN /\ (counted => Triggering /\ "TRIGGER" \in flags)
    BY <1>2 DEF Counted
  <1> HIDE DEF flags
  <1>6. /\ rsp(counted) \in Responses
        /\ rsp(counted) = "ok" => counted
        /\ rsp(counted) \in {"rate-exceeded", "tracing-disabled", "trigger-tracing-disabled",
                             "settings-not-available"} => ~counted
        /\ rsp(counted) # "not-requested"
        /\ counted => rsp(counted) = "ok"
    BY <1>5 DEF TriggerResponse, Responses
  <1> HIDE DEF rsp
  <1>7. d \in Decision
    <2>1. Bucket \in {"none", "regular", "relaxed", "strict"}
      BY <1>3 DEF Bucket, Triggering
    <2>2. FlagsEnabled(flags) \in BOOLEAN /\ -1 \in -1..MaxRate
      BY <1>3 DEF FlagsEnabled
    <2> QED
      BY <1>4, <1>5, <1>6, <2>1, <2>2 DEF Decision
  <1>8. /\ d.trace = counted /\ d.flags = flags /\ d.rate = -1 /\ d.rsp = rsp(counted)
    OBVIOUS
  <1>9. Decide(d, {s})
    BY <1>2
  <1> HIDE DEF d
  <1>10. decision' = d /\ UNCHANGED <<tMode, request>>
    BY <1>9 DEF Decide, parseVars
  <1>11. Triggering => EntryKind' = "triggered"
    BY <1>1, <1>10 DEF NewTrigger, EntryKind, Triggering, Continued, Explicit
  <1>12. Requested' = Requested /\ (tMode = "invalid" => ~Triggering)
    BY <1>10 DEF Requested, Triggering
  <1>13. Consistent'
    BY <1>5, <1>6, <1>8, <1>10, <1>11, <1>12 DEF Consistent
  <1>14. Override(s) => d.flags \subseteq s.originalFlags /\ d.rate <= s.sent
           /\ (d.trace => s.originalFlags \cap {"START", "THROUGH", "ALWAYS", "TRIGGER"} # {})
    BY <1>3, <1>4, <1>5, <1>8 DEF Sound, Setting
  <1> QED
    BY <1>3, <1>7, <1>9, <1>13, <1>14, DecideInv

LEMMA RegularInv == ASSUME SamplingInv, DecideRegular PROVE SamplingInv'
  <1> USE SamplingAssumption
  <1>1. PICK s \in store :
          /\ ~Explicit /\ ~NewTrigger
          /\ \E lucky \in ShouldSample(s.value) :
             \E counted \in Counted(Wanted(MergeURLSetting(s), lucky), ~Continued) :
               Decide([trace |-> counted, enabled |-> FlagsEnabled(MergeURLSetting(s)),
                       rate |-> s.value, flags |-> MergeURLSetting(s), bucket |-> Bucket,
                       rsp |-> IF Requested THEN "ignored" ELSE "not-requested"], {s})
    BY DEF DecideRegular
  <1> DEFINE flags == MergeURLSetting(s)
             rsp == IF Requested THEN "ignored" ELSE "not-requested"
  <1>a. PICK lucky \in ShouldSample(s.value) :
          \E counted \in Counted(Wanted(flags, lucky), ~Continued) :
             Decide([trace |-> counted, enabled |-> FlagsEnabled(flags), rate |-> s.value,
                     flags |-> flags, bucket |-> Bucket, rsp |-> rsp], {s})
    BY <1>1
  <1>2. PICK counted \in Counted(Wanted(flags, lucky), ~Continued) :
          Decide([trace |-> counted, enabled |-> FlagsEnabled(flags), rate |-> s.value,
                  flags |-> flags, bucket |-> Bucket, rsp |-> rsp], {s})
    BY <1>a
  <1> DEFINE d == [trace |-> counted, enabled |-> FlagsEnabled(flags), rate |-> s.value,
                   flags |-> flags, bucket |-> Bucket, rsp |-> rsp]
  <1>3. Sound(s) /\ request \in AnyRequest /\ MaxRate \in Nat
        /\ tMode \in {"absent", "invalid", "relaxed", "strict"}
    BY DEF SamplingInv, SoundStore, SamplingTypeOK
  <1>4. flags \in SUBSET Flags /\ (Override(s) => flags \subseteq s.originalFlags)
    BY <1>3, FilterSound
  <1> HIDE DEF flags
  <1>5. counted \in BOOLEAN /\ (counted => Wanted(flags, lucky))
    BY <1>2 DEF Counted
  <1>6. counted => flags \cap {"START", "THROUGH", "ALWAYS", "TRIGGER"} # {}
    BY <1>5 DEF Wanted
  <1>7. /\ rsp \in {"ignored", "not-requested"} /\ rsp \in Responses
        /\ rsp = "not-requested" => ~Requested
    BY DEF Responses
  <1> HIDE DEF rsp
  <1>8. s.value \in 0..MaxRate /\ s.sent \in 0..MaxRate /\ (Override(s) => s.value <= s.sent)
    BY <1>3 DEF Sound, Setting
  <1>9. d \in Decision
    <2>1. Bucket \in {"none", "regular", "relaxed", "strict"}
      BY <1>3 DEF Bucket, Triggering
    <2>2. FlagsEnabled(flags) \in BOOLEAN /\ s.value \in -1..MaxRate
      BY <1>3, <1>8 DEF FlagsEnabled
    <2> QED
      BY <1>4, <1>5, <1>7, <2>1, <2>2 DEF Decision
  <1>10. d.trace = counted /\ d.flags = flags /\ d.rate = s.value /\ d.rsp = rsp
    OBVIOUS
  <1>11. Decide(d, {s})
    BY <1>2
  <1> HIDE DEF d
  <1>12. decision' = d /\ UNCHANGED <<tMode, request>>
    BY <1>11 DEF Decide, parseVars
  <1>13. EntryKind' # "triggered" /\ Requested' = Requested
    BY <1>1, <1>12 DEF NewTrigger, EntryKind, Triggering, Requested, Continued, Explicit
  <1>14. tMode = "invalid" => Given' = "sampled"
    BY <1>1, <1>12 DEF NewTrigger, Requested, Continued, Given
  <1>15. Consistent'
    BY <1>7, <1>10, <1>12, <1>13, <1>14 DEF Consistent
  <1>16. Override(s) => d.flags \subseteq s.originalFlags /\ d.rate <= s.sent
           /\ (d.trace => s.originalFlags \cap {"START", "THROUGH", "ALWAYS", "TRIGGER"} # {})
    BY <1>4, <1>6, <1>8, <1>10
  <1> QED
    BY <1>3, <1>9, <1>11, <1>15, <1>16, DecideInv

\* The decisions that need no setting.
LEMMA PlainDecisionInv ==
  ASSUME SamplingInv, DecideExplicit \/ DecideWithoutSetting
  PROVE  SamplingInv'
  <1> USE SamplingAssumption
  <1> DEFINE d1 == [NoDecision EXCEPT !.trace = TRUE, !.enabled = FALSE]
             d2 == [NoDecision EXCEPT !.enabled = FALSE, !.rsp = "settings-not-available"]
  <1>1. /\ d1 \in Decision /\ d1.trace /\ d1.rsp = ""
        /\ d2 \in Decision /\ ~d2.trace /\ d2.rsp = "settings-not-available"
    <2>1. NoDecision \in Decision /\ ~NoDecision.trace /\ NoDecision.rsp = ""
      BY DEF NoDecision, Decision, Responses
    <2>2. d1 \in Decision /\ d1.trace /\ d1.rsp = ""
      BY <2>1 DEF Decision
    <2>3. "settings-not-available" \in Responses
      BY DEF Responses
    <2>4. d2 \in Decision /\ ~d2.trace /\ d2.rsp = "settings-not-available"
      BY <2>1, <2>3 DEF Decision
    <2> QED
      BY <2>2, <2>4
  <1>2. CASE DecideExplicit
    <2>1. Explicit /\ Decide(d1, {})
      BY <1>2 DEF DecideExplicit
    <2> HIDE DEF d1
    <2>2. decision' = d1 /\ UNCHANGED <<tMode, request>>
      BY <2>1 DEF Decide, parseVars
    <2>3. EntryKind' # "triggered" /\ Given' = "sampled"
      BY <2>1, <2>2 DEF EntryKind, Explicit, Given
    <2>4. Consistent'
      BY <1>1, <2>2, <2>3 DEF Consistent
    <2> QED
      BY <1>1, <2>1, <2>4, DecideInv
  <1>3. CASE DecideWithoutSetting
    <2>1. Decide(d2, {})
      BY <1>3 DEF DecideWithoutSetting
    <2> HIDE DEF d2
    <2>2. decision' = d2
      BY <2>1 DEF Decide
    <2>3. Consistent'
      BY <1>1, <2>2 DEF Consistent
    <2> QED
      BY <1>1, <2>1, <2>3, DecideInv
  <1> QED
    BY <1>2, <1>3

\* The parent's decision not to sample, and the explicit one.
LEMMA UnsampledInv ==
  ASSUME SamplingInv, ContinueUnsampled \/ ExplicitUnsampled
  PROVE  SamplingInv'
  <1> USE SamplingAssumption
  <1>1. /\ stage = "parsed" /\ entered = "none" /\ used = {}
        /\ UNCHANGED <<local, store, updates, parseVars, entered>>
        /\ Given = "unsampled" /\ request \in AnyRequest
    BY DEF ContinueUnsampled, ExplicitUnsampled, SamplingInv, Stages, SamplingTypeOK, Given
  <1>2. decision \in Decision /\ MaxRate \in Nat
    BY DEF SamplingInv, SamplingTypeOK
  <1>3. CASE ExplicitUnsampled
    <2>1. Return("unsampled", TRUE, FALSE, "") /\ UNCHANGED <<decision, used>>
      BY <1>3 DEF ExplicitUnsampled, decisionVars
    <2>2. NeverWidened'
      BY <1>1, <2>1 DEF NeverWidened
    <2>3. "" \in Responses
      BY DEF Responses
    <2> QED
      BY <1>1, <1>2, <2>1, <2>2, <2>3, ReturnInv
  <1>4. CASE ContinueUnsampled
    <2> DEFINE header == request.opts # "absent"
    <2>1. CASE /\ SetHeaders("unsampled", FALSE, "settings-not-available")
               /\ UNCHANGED decisionVars
      <3>1. Return("unsampled", FALSE, header, "settings-not-available") /\ UNCHANGED <<decision, used>>
        BY <2>1 DEF SetHeaders, decisionVars
      <3>2. NeverWidened'
        BY <1>1, <3>1 DEF NeverWidened
      <3>3. "settings-not-available" \in Responses /\ header \in BOOLEAN
        BY DEF Responses
      <3> QED
        BY <1>1, <1>2, <3>1, <3>2, <3>3, ReturnInv
    <2>2. CASE \E s \in store :
                 /\ decision' = [decision EXCEPT !.enabled = FlagsEnabled(MergeURLSetting(s)),
                                                 !.flags = MergeURLSetting(s)]
                 /\ used' = {s}
                 /\ SetHeaders("unsampled", TRUE, IF Requested THEN "ignored" ELSE "not-requested")
      <3> DEFINE rsp == IF Requested THEN "ignored" ELSE "not-requested"
      <3>1. PICK s \in store :
              /\ decision' = [decision EXCEPT !.enabled = FlagsEnabled(MergeURLSetting(s)),
                                              !.flags = MergeURLSetting(s)]
              /\ used' = {s}
              /\ Return("unsampled", TRUE, header, rsp)
        BY <2>2 DEF SetHeaders
      <3>2. Sound(s)
        BY DEF SamplingInv, SoundStore
      <3>3. /\ MergeURLSetting(s) \in SUBSET Flags
            /\ Override(s) => MergeURLSetting(s) \subseteq s.originalFlags
            /\ FlagsEnabled(MergeURLSetting(s)) \in BOOLEAN
        BY <1>1, <3>2, FilterSound DEF FlagsEnabled
      <3>4. decision' \in Decision
        BY <1>2, <3>1, <3>3 DEF Decision
      <3>5. NeverWidened'
        <4>1. ~decision.trace /\ decision.rate = -1
          BY <1>1 DEF SamplingInv, Stages
        <4>2. /\ decision'.flags = MergeURLSetting(s) /\ decision'.trace = decision.trace
              /\ decision'.rate = decision.rate
          BY <1>2, <3>1 DEF Decision
        <4>3. s.sent \in Nat
          BY <1>2, <3>2 DEF Sound, Setting
        <4> QED
          BY <1>1, <3>1, <3>3, <4>1, <4>2, <4>3 DEF NeverWidened, Override
      <3>6. rsp \in Responses /\ header \in BOOLEAN /\ rsp \in {"ignored", "not-requested"}
            /\ (rsp = "not-requested" => ~Requested)
        BY DEF Responses
      <3> HIDE DEF rsp, header
      <3> QED
        BY <1>1, <3>1, <3>2, <3>4, <3>5, <3>6, ReturnInv DEF header
    <2> QED
      BY <1>4, <2>1, <2>2 DEF ContinueUnsampled
  <1> QED
    BY <1>3, <1>4

\* The end of the request after a decision.
LEMMA ReportInv ==
  ASSUME SamplingInv, ReportEntry \/ ReportNothing
  PROVE  SamplingInv'
  <1> USE SamplingAssumption
  <1> DEFINE header == request.opts # "absent"
             outcome == IF decision.trace THEN "sampled" ELSE "unsampled"
  <1>1. /\ stage = "decided" /\ entered = "none" /\ Consistent /\ Given # "unsampled"
        /\ UNCHANGED <<local, store, updates, parseVars, decision, used>>
        /\ decision \in Decision
        /\ \A s \in used' : Sound(s)
    BY DEF ReportEntry, ReportNothing, decisionVars, SamplingInv, Stages, SamplingTypeOK, SoundStore
  <1>2. decision.rsp \in Responses /\ "" \in Responses /\ header \in BOOLEAN /\ decision.trace \in BOOLEAN
    BY <1>1 DEF Decision, Responses
  <1>3. EntryKind \in {"regular", "triggered"} /\ (EntryKind = "triggered" => Triggering)
    BY DEF EntryKind
  <1>4. ASSUME entered' \in {"none", EntryKind},
               entered' = "triggered" => decision.trace /\ EntryKind = "triggered"
        PROVE  NeverWidened'
    BY <1>1, <1>4 DEF SamplingInv, NeverWidened, Override, Consistent
  <1>5. CASE ReportNothing
    <2>0. PICK got \in Contexts(outcome) :
            Return(got, TRUE, header, decision.rsp) /\ entered' = entered /\ ~(decision.trace /\ request.entry)
      BY <1>5 DEF ReportNothing, SetHeaders
    <2>1. Return(got, TRUE, header, decision.rsp) /\ entered' = entered /\ ~(decision.trace /\ request.entry)
      BY <2>0
    <2>2. NeverWidened'
      BY <1>1, <1>4, <2>1
    <2>3. /\ decision.rsp = "ok" => outcome = "sampled" /\ Triggering /\ ~request.entry
          /\ decision.rsp \in {"rate-exceeded", "tracing-disabled", "trigger-tracing-disabled",
                               "settings-not-available"} => outcome = "unsampled"
          /\ decision.rsp = "not-requested" => ~Requested
          /\ tMode = "invalid" /\ outcome = "sampled" => Given = "sampled"
      BY <1>1, <1>3, <2>1 DEF Consistent
    <2>4. got = outcome \/ got = "null"
      BY DEF Contexts
    <2>5. /\ got \in {"null", "sampled", "unsampled"} /\ outcome \in {"sampled", "unsampled"}
          /\ decision.rsp = "ok" => /\ Triggering /\ ~request.entry
                                    /\ got = "sampled" \/ (got = "null" /\ ~request.entry)
          /\ outcome = "unsampled" => got # "sampled"
      BY <2>3, <2>4
    <2> HIDE DEF outcome, header
    <2> QED
      BY <1>1, <1>2, <2>1, <2>2, <2>3, <2>4, <2>5, ReturnInv DEF header
  <1>6. CASE ReportEntry
    <2>1. decision.trace /\ request.entry
      BY <1>6 DEF ReportEntry
    <2>2. CASE entered' = EntryKind /\ SetHeaders("sampled", TRUE, decision.rsp)
      <3>1. Return("sampled", TRUE, header, decision.rsp)
        BY <2>2 DEF SetHeaders
      <3>2. NeverWidened'
        BY <1>4, <2>1, <2>2
      <3>3. /\ decision.rsp = "ok" => EntryKind = "triggered"
            /\ EntryKind = "triggered" => decision.rsp = "ok"
            /\ decision.rsp \notin {"rate-exceeded", "tracing-disabled", "trigger-tracing-disabled",
                                    "settings-not-available"}
            /\ decision.rsp = "not-requested" => ~Requested
            /\ tMode = "invalid" => Given = "sampled"
        BY <1>1, <2>1 DEF Consistent
      <3> HIDE DEF header
      <3> QED
        BY <1>1, <1>2, <1>3, <2>1, <2>2, <3>1, <3>2, <3>3, ReturnInv DEF header
    <2>3. CASE Return("null", FALSE, FALSE, "") /\ UNCHANGED entered
      <3>1. NeverWidened'
        BY <1>1, <1>4, <2>3
      <3> QED
        BY <1>1, <1>2, <2>3, <3>1, ReturnInv
    <2> QED
      BY <1>6, <2>2, <2>3 DEF ReportEntry
  <1> QED
    BY <1>5, <1>6

LEMMA SamplingInvNext == SamplingInv /\ [SampleNext]_sampleVars => SamplingInv'
  <1> SUFFICES ASSUME SamplingInv, [SampleNext]_sampleVars PROVE SamplingInv'
    OBVIOUS
  <1> USE SamplingAssumption
  <1>1. local \in LocalConfig /\ updates \in 0..MaxUpdates
    BY DEF SamplingInv, SamplingTypeOK
  <1>2. ASSUME NEW flags \in RemoteFlags, NEW rate \in RemoteRates, NEW token \in BOOLEAN,
               UpdateSetting(flags, rate, token)
        PROVE  SamplingInv'
    <2>1. store' = {MergeLocalSetting(Received(flags, rate, token))} /\ updates' \in 0..MaxUpdates
          /\ UNCHANGED <<local, inFlightVars>>
      BY <1>1, <1>2 DEF UpdateSetting
    <2>2. \A s \in store' : Sound(s)
      BY <1>1, <2>1, MergeSound
    <2> QED
      BY <2>1, <2>2, SettingsInv
  <1>3. CASE ExpireSetting
    BY <1>1, <1>3, SettingsInv DEF ExpireSetting
  <1>4. CASE UNCHANGED sampleVars
    <2>1. UNCHANGED <<local, inFlightVars>> /\ updates' = updates /\ store' = store
      BY <1>4 DEF sampleVars
    <2> QED
      BY <1>1, <2>1, SettingsInv DEF SamplingInv, SoundStore
  <1> QED
    BY <1>2, <1>3, <1>4, ParseInv, UnsampledInv, PlainDecisionInv, TriggerInv, RegularInv, ReportInv
       DEF SampleNext

LEMMA SamplingInvariant == SampleSpec => []SamplingInv
  BY SamplingInvInit, SamplingInvNext, PTL DEF SampleSpec

\* Whatever rates are sent and configured, a rate stays between nothing and everything.
THEOREM SamplingTypeCorrect == SampleSpec => []SamplingTypeOK
  BY SamplingInvariant, PTL DEF SamplingInv

\* Neither the configuration nor a filter widens what the collector allows.
THEOREM SamplingNeverWidened == SampleSpec => []NeverWidened
  BY SamplingInvariant, PTL DEF SamplingInv

\* The answer to the client is true, whatever happens to the settings meanwhile.
THEOREM SamplingAnswerTruthful == SampleSpec => []AnswerTruthful
  BY SamplingInvariant, PTL DEF SamplingInv

-----------------------------------------------------------------------------
(* The first of several. *)

Below == {p \in Nat \X Nat : p[1] < p[2]}

LEMMA BelowIsWellFounded == IsWellFoundedOn(Below, Nat)
  BY NatLessThanWellFounded DEF OpToRel, Below

\* Every set of numbers that is not empty has a least one.
LEMMA LeastExists ==
  ASSUME NEW S \in SUBSET Nat, S # {}
  PROVE  Min(S) \in S /\ \A x \in S : Min(S) <= x
  <1>1. PICK x \in S : \A y \in S : ~(<<y, x>> \in Below)
    BY BelowIsWellFounded, WFMin
  <1>2. ASSUME NEW y \in S PROVE x <= y
    <2>1. x \in Nat /\ y \in Nat /\ <<y, x>> \in Nat \X Nat
      OBVIOUS
    <2>2. y < x => <<y, x>> \in Below
      BY <2>1 DEF Below
    <2> QED
      BY <1>1, <2>1, <2>2
  <1> QED
    BY <1>2 DEF Min

\* Every set of numbers up to some number that is not empty has a greatest one.
LEMMA GreatestExists ==
  ASSUME NEW n \in Nat, NEW S \in SUBSET (1..n), S # {}
  PROVE  Max(S) \in S /\ \A x \in S : x <= Max(S)
  <1> DEFINE T == {n - x : x \in S}
  <1>1. T \in SUBSET Nat /\ T # {}
    <2>1. \A x \in S : n - x \in Nat
      OBVIOUS
    <2> QED
      BY <2>1
  <1>2. PICK x \in S : n - x = Min(T)
    BY <1>1, LeastExists
  <1>3. \A y \in S : n - x <= n - y
    BY <1>1, <1>2, LeastExists
  <1>4. \A y \in S : y <= x
    BY <1>3
  <1> QED
    BY <1>4 DEF Max

-----------------------------------------------------------------------------
(* Filters. *)

AllLegal(list) == \A i \in DOMAIN list : Legal(list[i])
Bad(list) == {i \in DOMAIN list : list[i].regex = BadPattern}
Matching(list, url) ==
  {i \in DOMAIN list : url \in UNION ({list[i].regex, list[i].extensions} \ {NoPattern, BadPattern})}

\* What a request is to be told, as FilterAnswers says it.
Right(list, url, told) ==
  IF url = NoURL \/ ~AllLegal(list) THEN told = "unknown"
  ELSE CASE told = "panicked" -> \E i \in Bad(list) : \A j \in Matching(list, url) : i < j
         [] told = "unknown" -> Matching(list, url) = {} /\ Bad(list) = {}
         [] OTHER -> Matching(list, url) # {} /\ told = list[Min(Matching(list, url))].tracing

FilterInv ==
  /\ settings \in FilterSettings /\ filters = LoadedFilters(settings)
  /\ pending \in [Askers -> Urls \cup {NoURL}]
  /\ answer \in [Askers -> [url : Urls \cup {NoURL}, mode : {"unknown", "enabled", "disabled", "panicked"}]]
  /\ \A a \in Askers :
       answer[a].mode = IF answer[a].url = NoURL \/ filters = <<>> THEN "unknown" ELSE Lookup(answer[a].url)
  /\ DOMAIN cache \subseteq Urls
  /\ \A url \in DOMAIN cache : filters # <<>> /\ cache[url] = Lookup(url) /\ cache[url] # "panicked"
  /\ \A a \in Askers : pending[a] # NoURL =>
       pending[a] = answer[a].url /\ filters # <<>> /\ Lookup(pending[a]) # "panicked"

LEMMA FiltersTypes ==
  ASSUME NEW list \in FilterSettings
  PROVE  /\ Len(list) \in Nat /\ DOMAIN list = 1..Len(list)
         /\ \A i \in DOMAIN list : list[i] \in TransactionSetting
  <1>1. list \in Seq(TransactionSetting)
    BY FiltersAssumption
  <1> QED
    BY <1>1, LenProperties

\* What a filter does, by the setting it is made of.
LEMMA OneFilter ==
  ASSUME NEW f \in TransactionSetting, Legal(f)
  PROVE  LET match == IF f.regex # NoPattern THEN f.regex ELSE f.extensions
             patterns == {f.regex, f.extensions} \ {NoPattern, BadPattern}
         IN /\ match = BadPattern <=> f.regex = BadPattern
            /\ match = BadPattern => patterns = {}
            /\ match # BadPattern => patterns = {match}
            /\ f.tracing \in {"enabled", "disabled"}
  BY FiltersAssumption DEF TransactionSetting, Legal, Pattern

LEMMA LookupRight ==
  ASSUME NEW list \in FilterSettings, NEW url \in Urls, AllLegal(list), filters = LoadedFilters(list)
  PROVE  /\ Lookup(url) \in {"unknown", "enabled", "disabled", "panicked"}
         /\ Right(list, url, Lookup(url))
  <1> DEFINE stops == {i \in DOMAIN filters : filters[i].match = BadPattern \/ url \in filters[i].match}
             bad == Bad(list)
             matching == Matching(list, url)
             first == Min(stops)
  <1>1. /\ Len(list) \in Nat /\ DOMAIN list = 1..Len(list)
        /\ \A i \in DOMAIN list : list[i] \in TransactionSetting /\ Legal(list[i])
    BY FiltersTypes DEF AllLegal
  <1>2. filters = [i \in DOMAIN list |->
                     [match |-> IF list[i].regex # NoPattern THEN list[i].regex ELSE list[i].extensions,
                      mode |-> list[i].tracing]]
    BY DEF LoadedFilters, AllLegal
  <1>3. /\ DOMAIN filters = DOMAIN list
        /\ \A i \in DOMAIN list : /\ filters[i].mode = list[i].tracing
                                  /\ filters[i].mode \in {"enabled", "disabled"}
                                  /\ filters[i].match = BadPattern <=> i \in bad
                                  /\ i \in matching <=> filters[i].match # BadPattern /\ url \in filters[i].match
    <2>1. ASSUME NEW i \in DOMAIN list
          PROVE  /\ filters[i].mode = list[i].tracing
                 /\ filters[i].mode \in {"enabled", "disabled"}
                 /\ filters[i].match = BadPattern <=> i \in bad
                 /\ i \in matching <=> filters[i].match # BadPattern /\ url \in filters[i].match
      <3> DEFINE patterns == {list[i].regex, list[i].extensions} \ {NoPattern, BadPattern}
      <3>1. /\ filters[i].match = IF list[i].regex # NoPattern THEN list[i].regex ELSE list[i].extensions
            /\ filters[i].mode = list[i].tracing
        BY <1>2
      <3>2. /\ filters[i].match = BadPattern <=> list[i].regex = BadPattern
            /\ filters[i].match = BadPattern => patterns = {}
            /\ filters[i].match # BadPattern => patterns = {filters[i].match}
            /\ list[i].tracing \in {"enabled", "disabled"}
        BY <1>1, <3>1, OneFilter
      <3>3. (i \in bad <=> list[i].regex = BadPattern) /\ (i \in matching <=> url \in UNION patterns)
        BY DEF Bad, Matching
      <3> HIDE DEF patterns, bad, matching
      <3> QED
        BY <3>1, <3>2, <3>3
    <2> QED
      BY <1>2, <2>1
  <1>4. stops = bad \cup matching /\ bad \cap matching = {}
        /\ bad \subseteq DOMAIN list /\ matching \subseteq DOMAIN list
    BY <1>3 DEF Bad, Matching
  <1>5. stops \in SUBSET Nat /\ matching \in SUBSET Nat
    BY <1>1, <1>4
  <1>6. Lookup(url) = IF stops = {} THEN "unknown"
                      ELSE IF filters[first].match = BadPattern THEN "panicked" ELSE filters[first].mode
    BY DEF Lookup
  <1>7. url # NoURL
    BY FiltersAssumption
  <1> HIDE DEF stops, bad, matching
  <1>8. CASE stops = {}
    BY <1>4, <1>6, <1>7, <1>8 DEF Right, bad, matching
  <1>9. CASE stops # {}
    <2>1. first \in stops /\ \A i \in stops : first <= i
      BY <1>5, <1>9, LeastExists
    <2> HIDE DEF first
    <2>2. CASE first \in bad
      <3>1. Lookup(url) = "panicked"
        BY <1>3, <1>4, <1>6, <1>9, <2>2
      <3>2. \A j \in matching : first < j
        BY <1>4, <1>5, <2>1, <2>2
      <3> QED
        BY <1>7, <2>2, <3>1, <3>2 DEF Right, bad, matching
    <2>3. CASE first \in matching
      <3>1. Lookup(url) = list[first].tracing /\ Lookup(url) \in {"enabled", "disabled"}
        BY <1>3, <1>4, <1>6, <1>9, <2>3
      <3>2. Min(matching) = first
        <4>1. Min(matching) \in matching /\ \A i \in matching : Min(matching) <= i
          BY <1>5, <2>3, LeastExists
        <4> QED
          BY <1>4, <1>5, <2>1, <2>3, <4>1
      <3> QED
        BY <1>7, <2>3, <3>1, <3>2 DEF Right, bad, matching
    <2> QED
      BY <1>4, <2>1, <2>2, <2>3
  <1> QED
    BY <1>8, <1>9

LEMMA FilterInvInit == FiltersInit => FilterInv
  <1> SUFFICES ASSUME FiltersInit PROVE FilterInv
    OBVIOUS
  <1>1. DOMAIN cache = {}
    BY DEF FiltersInit, Empty
  <1> QED
    BY <1>1 DEF FiltersInit, FilterInv, NoAnswer

\* Filters that exist are made of legal settings.
LEMMA LookupTypes ==
  ASSUME settings \in FilterSettings, filters = LoadedFilters(settings), filters # <<>>,
         NEW url \in Urls
  PROVE  Lookup(url) \in {"unknown", "enabled", "disabled", "panicked"}
  <1>1. AllLegal(settings)
    BY DEF LoadedFilters, AllLegal
  <1> QED
    BY <1>1, LookupRight

LEMMA FilterInvNext == FilterInv /\ [FiltersNext]_filterVars => FilterInv'
  <1> SUFFICES ASSUME FilterInv, [FiltersNext]_filterVars PROVE FilterInv'
    OBVIOUS
  <1> USE DEF FilterInv
  <1>1. ASSUME UNCHANGED <<settings, filters>> PROVE \A url : Lookup(url)' = Lookup(url)
    BY <1>1 DEF Lookup
  <1>2. CASE Reload
    <2>1. /\ settings' \in FilterSettings /\ filters' = LoadedFilters(settings')
          /\ cache' = Empty /\ pending' = pending /\ pending = [a \in Askers |-> NoURL]
          /\ answer' = [a \in Askers |-> NoAnswer]
      BY <1>2 DEF Reload
    <2>2. DOMAIN cache' = {}
      BY <2>1 DEF Empty
    <2> QED
      BY <2>1, <2>2 DEF NoAnswer
  <1>3. ASSUME NEW a \in Askers, NEW url \in Urls \cup {NoURL}, AskCached(a, url) PROVE FilterInv'
    <2>1. UNCHANGED <<settings, filters, cache, pending>> /\ pending[a] = NoURL
      BY <1>3 DEF AskCached
    <2>2. PICK told : /\ answer' = [answer EXCEPT ![a] = [url |-> url, mode |-> told]]
                      /\ told \in {"unknown", "enabled", "disabled"}
                      /\ told = IF url = NoURL \/ filters = <<>> THEN "unknown" ELSE Lookup(url)
      <3>1. CASE (filters = <<>> \/ url = NoURL) /\ Answer(a, url, "unknown")
        BY <3>1 DEF Answer
      <3>2. CASE filters # <<>> /\ url \in DOMAIN cache /\ Answer(a, url, Mode(cache[url]))
        <4>1. url \in Urls /\ cache[url] = Lookup(url) /\ Lookup(url) # "panicked" /\ url # NoURL
          BY <3>2, FiltersAssumption
        <4>2. Lookup(url) \in {"unknown", "enabled", "disabled"}
          BY <3>2, <4>1, LookupTypes
        <4>3. Mode(cache[url]) = Lookup(url)
          BY <4>1, <4>2 DEF Mode
        <4> QED
          BY <3>2, <4>1, <4>2, <4>3 DEF Answer
      <3> QED
        BY <1>3, <3>1, <3>2 DEF AskCached
    <2>3. \A u : Lookup(u)' = Lookup(u)
      BY <1>1, <2>1
    <2>4. \A b \in Askers : answer'[b] = IF b = a THEN [url |-> url, mode |-> told] ELSE answer[b]
      BY <2>2
    <2>5. answer' \in [Askers -> [url : Urls \cup {NoURL}, mode : {"unknown", "enabled", "disabled", "panicked"}]]
      BY <2>2
    <2> QED
      BY <2>1, <2>2, <2>3, <2>4, <2>5
  <1>4. ASSUME NEW a \in Askers, NEW url \in Urls \cup {NoURL}, AskFilters(a, url) PROVE FilterInv'
    <2>1. UNCHANGED <<settings, filters, cache>> /\ pending[a] = NoURL /\ filters # <<>> /\ url # NoURL
      BY <1>4 DEF AskFilters
    <2>2. answer' = [answer EXCEPT ![a] = [url |-> url, mode |-> Lookup(url)]]
      BY <1>4 DEF AskFilters, Answer
    <2>3. pending' = [pending EXCEPT ![a] = IF Lookup(url) = "panicked" THEN NoURL ELSE url]
      BY <1>4 DEF AskFilters
    <2>4. url \in Urls /\ Lookup(url) \in {"unknown", "enabled", "disabled", "panicked"}
      BY <2>1, LookupTypes
    <2>5. \A u : Lookup(u)' = Lookup(u)
      BY <1>1, <2>1
    <2>6. /\ answer' \in [Askers -> [url : Urls \cup {NoURL}, mode : {"unknown", "enabled", "disabled", "panicked"}]]
          /\ \A b \in Askers : answer'[b] = IF b = a THEN [url |-> url, mode |-> Lookup(url)] ELSE answer[b]
      BY <2>2, <2>4
    <2>7. /\ pending' \in [Askers -> Urls \cup {NoURL}]
          /\ \A b \in Askers : pending'[b] = IF b # a THEN pending[b]
                                             ELSE IF Lookup(url) = "panicked" THEN NoURL ELSE url
      BY <2>3, <2>4
    <2> QED
      BY <2>1, <2>4, <2>5, <2>6, <2>7
  <1>5. ASSUME NEW a \in Askers, Store(a) PROVE FilterInv'
    <2>1. /\ UNCHANGED <<settings, filters, answer>> /\ pending[a] # NoURL
          /\ pending' = [pending EXCEPT ![a] = NoURL]
          /\ cache' = [u \in DOMAIN cache \cup {pending[a]} |->
                         IF u = pending[a] THEN answer[a].mode ELSE cache[u]]
      BY <1>5 DEF Store
    <2>2. /\ pending[a] \in Urls /\ filters # <<>> /\ Lookup(pending[a]) # "panicked"
          /\ answer[a].mode = Lookup(pending[a])
      BY <2>1
    <2>3. \A u : Lookup(u)' = Lookup(u)
      BY <1>1, <2>1
    <2>4. \A u \in DOMAIN cache' : u \in Urls /\ cache'[u] = Lookup(u) /\ cache'[u] # "panicked"
      BY <2>1, <2>2
    <2>5. /\ pending' \in [Askers -> Urls \cup {NoURL}]
          /\ \A b \in Askers : pending'[b] = IF b = a THEN NoURL ELSE pending[b]
      BY <2>1
    <2> QED
      BY <2>1, <2>2, <2>3, <2>4, <2>5
  <1>6. ASSUME NEW url \in Urls, Evict(url) PROVE FilterInv'
    <2>1. UNCHANGED <<settings, filters, pending, answer>> /\ cache' = [u \in DOMAIN cache \ {url} |-> cache[u]]
      BY <1>6 DEF Evict
    <2>2. \A u : Lookup(u)' = Lookup(u)
      BY <1>1, <2>1
    <2> QED
      BY <2>1, <2>2
  <1>7. CASE UNCHANGED filterVars
    <2>1. UNCHANGED <<settings, filters, cache, pending, answer>>
      BY <1>7 DEF filterVars
    <2>2. \A u : Lookup(u)' = Lookup(u)
      BY <1>1, <2>1
    <2> QED
      BY <2>1, <2>2
  <1> QED
    BY <1>2, <1>3, <1>4, <1>5, <1>6, <1>7 DEF FiltersNext

\* Whoever asks, and whatever is cached or evicted meanwhile, is told what the first matching
\* setting says.
THEOREM FiltersAnswer == FiltersSpec => []FilterAnswers
  <1>1. FilterInv => FilterAnswers
    <2> SUFFICES ASSUME FilterInv, NEW a \in Askers
                 PROVE  Right(settings, answer[a].url, answer[a].mode)
      BY DEF FilterAnswers, Right, AllLegal, Bad, Matching
    <2>1. /\ settings \in FilterSettings /\ filters = LoadedFilters(settings)
          /\ answer[a].url \in Urls \cup {NoURL}
          /\ answer[a].mode = IF answer[a].url = NoURL \/ filters = <<>> THEN "unknown"
                              ELSE Lookup(answer[a].url)
      BY DEF FilterInv
    <2>2. CASE answer[a].url = NoURL \/ ~AllLegal(settings)
      <3>1. ~AllLegal(settings) => filters = <<>>
        BY <2>1 DEF LoadedFilters, AllLegal
      <3> QED
        BY <2>1, <2>2, <3>1 DEF Right
    <2>3. CASE answer[a].url # NoURL /\ AllLegal(settings) /\ filters # <<>>
      BY <2>1, <2>3, LookupRight
    <2>4. CASE answer[a].url # NoURL /\ AllLegal(settings) /\ filters = <<>>
      <3>1. DOMAIN settings = {}
        <4>1. DOMAIN filters = DOMAIN settings
          BY <2>1, <2>4 DEF LoadedFilters, AllLegal
        <4> QED
          BY <2>4, <4>1
      <3>2. Bad(settings) = {} /\ Matching(settings, answer[a].url) = {}
        BY <3>1 DEF Bad, Matching
      <3> QED
        BY <2>1, <2>4, <3>2 DEF Right
    <2> QED
      BY <2>2, <2>3, <2>4
  <1> QED
    BY <1>1, FilterInvInit, FilterInvNext, PTL DEF FiltersSpec

-----------------------------------------------------------------------------
(* Handlers. *)

HandlerTypes ==
  /\ HandlersTypeOK
  /\ link \in [HopSet -> {"wrap", "client", "forward"}] /\ link[1] = "forward"
  /\ live \in [HopSet -> BOOLEAN] /\ status \in [HopSet -> Nat] /\ writes \in [HopSet -> 0..MaxWrites]
  /\ DOMAIN exitEvent = HopSet /\ DOMAIN sent = HopSet
  /\ ids \in Nat
  /\ measured \in Seq([hop : HopSet, status : Nat])

\* A handler that is not refused is live until it leaves.
Lives ==
  \A h \in HopSet : /\ h > called => exitEvent[h] = NoMD
                    /\ h <= depth => (live[h] <=> exitEvent[h] # NoMD)

\* Until a handler leaves, the status observed and the one sent are the same.
Observed ==
  \A h \in HopSet : link[h] # "wrap" /\ (h <= depth \/ h > called) =>
    /\ writes[h] = 0 => status[h] = 200 /\ sent[h] = NotSent
    /\ writes[h] = 1 => status[h] = sent[h].status /\ sent[h] # NotSent

\* Who is measured has left.
Left == \A i \in 1..Len(measured) : measured[i].hop \in depth + 1..called

HandlerInv == HandlerTypes /\ Lives /\ Observed /\ Left /\ MeasuredOnce

LEMMA HandlerInvInit == HandlersInit => HandlerInv
  <1> SUFFICES ASSUME HandlersInit PROVE HandlerInv
    OBVIOUS
  <1> USE HandlersAssumption
  <1>1. measured = <<>> /\ Len(measured) = 0 /\ measured \in Seq([hop : HopSet, status : Nat])
    BY EmptySeq DEF HandlersInit
  <1>2. HandlerTypes
    BY <1>1 DEF HandlersInit, HandlerTypes, HandlersTypeOK
  <1>3. Lives /\ Observed
    BY DEF HandlersInit, Lives, Observed, HopSet
  <1>4. Left /\ MeasuredOnce
    BY <1>1 DEF HandlersInit, Left, MeasuredOnce, Ended, HopSet
  <1> QED
    BY <1>2, <1>3, <1>4 DEF HandlerInv

\* The next handler is called.
LEMMA EnterInv ==
  ASSUME HandlerInv, depth = called, NEW h \in HopSet, h = called + 1,
         NEW log, NEW md, NEW accepted \in BOOLEAN, Enter(h, log, md, accepted)
  PROVE  HandlerInv'
  <1> USE HandlersAssumption DEF HopSet
  <1> DEFINE trace == IF md = NoMD THEN h ELSE md.trace
  <1>1. /\ called \in 0..Hops /\ depth \in 0..called /\ ids \in Nat
        /\ live \in [HopSet -> BOOLEAN] /\ DOMAIN exitEvent = HopSet
    BY DEF HandlerInv, HandlerTypes, HandlersTypeOK
  <1>2. /\ called' = h /\ depth' = h /\ ids' = ids + 3
        /\ live' = [live EXCEPT ![h] = accepted]
        /\ exitEvent' = [exitEvent EXCEPT ![h] = IF accepted THEN NewMD(trace, 3) ELSE NoMD]
        /\ UNCHANGED <<link, mode, status, sent, writes, measured>>
    BY DEF Enter
  <1>3. NewMD(trace, 3) # NoMD
    <2>1. NewMD(trace, 3).id # NoMD.id
      BY <1>1 DEF NewMD, NoMD
    <2> QED
      BY <2>1
  <1> HIDE DEF trace
  <1>4. /\ \A k \in HopSet \ {h} : live'[k] = live[k] /\ exitEvent'[k] = exitEvent[k]
        /\ live'[h] = accepted /\ (accepted <=> exitEvent'[h] # NoMD)
    BY <1>1, <1>2, <1>3
  <1>5. Len(measured) = 0
    <2>1. Len(measured) \in Nat
      BY LenProperties DEF HandlerInv, HandlerTypes
    <2>2. \A i \in 1..Len(measured) : FALSE
      BY <1>1 DEF HandlerInv, Left
    <2> QED
      BY <2>1, <2>2
  <1>6. HandlersTypeOK'
    BY <1>1, <1>2, <1>4 DEF HandlerInv, HandlerTypes, HandlersTypeOK
  <1>7. HandlerTypes'
    BY <1>1, <1>2, <1>6 DEF HandlerInv, HandlerTypes
  <1>8. Lives'
    BY <1>1, <1>2, <1>4 DEF HandlerInv, Lives
  <1>9. Observed'
    BY <1>1, <1>2 DEF HandlerInv, Observed
  <1>10. Left' /\ MeasuredOnce'
    BY <1>1, <1>2, <1>5 DEF Left, MeasuredOnce, Ended
  <1> QED
    BY <1>7, <1>8, <1>9, <1>10 DEF HandlerInv

\* The writer that a handler got from the server.
LEMMA BaseOf ==
  ASSUME HandlerTypes, NEW h \in HopSet
  PROVE  /\ Base(h) \in 1..h /\ Base(h) \in HopSet /\ link[Base(h)] # "wrap"
         /\ \A k \in Base(h)..h : link[k] # "wrap" => k = Base(h)
  <1> DEFINE S == {b \in 1..h : link[b] # "wrap"}
  <1>1. h \in Nat /\ h \in 1..Hops
    BY HandlersAssumption DEF HopSet
  <1>2. S \in SUBSET (1..h) /\ 1 \in S
    BY <1>1 DEF HandlerTypes
  <1>3. Max(S) \in S /\ \A x \in S : x <= Max(S)
    BY <1>1, <1>2, GreatestExists
  <1>4. Base(h) = Max(S)
    BY DEF Base
  <1>5. \A k \in Base(h)..h : link[k] # "wrap" => k \in S
    BY <1>1, <1>2, <1>3, <1>4
  <1>6. Base(h) \in 1..h /\ Base(h) \in HopSet /\ link[Base(h)] # "wrap"
    BY <1>1, <1>3, <1>4, HandlersAssumption DEF HopSet
  <1> QED
    BY <1>1, <1>3, <1>4, <1>5, <1>6

LEMMA WriteInv ==
  ASSUME HandlerInv, NEW h \in HopSet, NEW s \in Statuses, WriteHeader(h, s)
  PROVE  HandlerInv'
  <1> USE HandlersAssumption
  <1> DEFINE b == Base(h)
  <1>1. /\ depth = h /\ writes[b] < MaxWrites
        /\ writes' = [writes EXCEPT ![b] = @ + 1]
        /\ status' = [k \in HopSet |-> IF k \in b..h THEN s ELSE status[k]]
        /\ UNCHANGED <<link, called, depth, mode, live, exitEvent, measured, ids>>
        /\ \E md : sent' = IF sent[b] = NotSent THEN [sent EXCEPT ![b] = [md |-> md, status |-> s]] ELSE sent
    BY DEF WriteHeader
  <1>2. /\ called \in 0..Hops /\ writes \in [HopSet -> 0..MaxWrites] /\ status \in [HopSet -> Nat]
        /\ DOMAIN sent = HopSet /\ s \in Nat /\ s # 0 /\ h \in Nat /\ h <= called /\ MaxWrites \in Nat
    BY <1>1 DEF HandlerInv, HandlerTypes, HandlersTypeOK, HopSet
  <1>3. /\ b \in 1..h /\ b \in HopSet /\ link[b] # "wrap"
        /\ \A k \in b..h : link[k] # "wrap" => k = b
    BY BaseOf DEF HandlerInv
  <1> HIDE DEF b
  <1>4. b \in Nat /\ b <= h
    BY <1>2, <1>3
  <1>5. status' \in [HopSet -> Nat] /\ writes' \in [HopSet -> 0..MaxWrites] /\ DOMAIN sent' = HopSet
    BY <1>1, <1>2, <1>3
  <1>6. HandlerTypes'
    BY <1>1, <1>5 DEF HandlerInv, HandlerTypes, HandlersTypeOK
  <1>7. ASSUME NEW k \in HopSet, k # b, link[k] # "wrap" \/ k > h
        PROVE  status'[k] = status[k] /\ sent'[k] = sent[k] /\ writes'[k] = writes[k]
    <2>1. k \notin b..h
      BY <1>2, <1>3, <1>4, <1>7
    <2> QED
      BY <1>1, <1>2, <1>7, <2>1
  <1>8. /\ status'[b] = s /\ writes'[b] = writes[b] + 1
        /\ sent'[b] # NotSent /\ (sent[b] = NotSent => sent'[b].status = s)
    <2>1. b \in b..h
      BY <1>2, <1>4
    <2>2. \A md : [md |-> md, status |-> s] # NotSent
      <3>1. \A md : [md |-> md, status |-> s].status # NotSent.status
        BY <1>2 DEF NotSent
      <3> QED
        BY <3>1
    <2> QED
      BY <1>1, <1>2, <1>3, <2>1, <2>2
  <1>9. Observed'
    <2>1. writes[b] \in Nat /\ (writes[b] = 0 => sent[b] = NotSent)
      BY <1>1, <1>2, <1>3, <1>4 DEF HandlerInv, Observed
    <2>2. writes'[b] # 0 /\ (writes'[b] = 1 => status'[b] = sent'[b].status /\ sent'[b] # NotSent)
      BY <1>8, <2>1
    <2> QED
      BY <1>1, <1>7, <2>2 DEF HandlerInv, Observed
  <1>10. Lives' /\ Left'
    BY <1>1 DEF HandlerInv, Lives, Left
  <1>11. MeasuredOnce'
    <2>1. ASSUME NEW i \in 1..Len(measured)
          PROVE  LET k == measured[i].hop
                 IN status'[k] = status[k] /\ sent'[k] = sent[k] /\ writes'[k] = writes[k]
      <3>1. measured[i].hop \in h + 1..called /\ measured[i].hop \in HopSet
        BY <1>1, <1>2 DEF HandlerInv, Left, HopSet
      <3>2. measured[i].hop > h /\ measured[i].hop # b
        BY <1>2, <1>4, <3>1
      <3> QED
        BY <1>7, <3>1, <3>2
    <2>2. \A k \in HopSet : Ended(k)' <=> Ended(k)
      BY <1>1 DEF Ended
    <2> QED
      BY <1>1, <2>1, <2>2 DEF HandlerInv, MeasuredOnce
  <1> QED
    BY <1>6, <1>9, <1>10, <1>11 DEF HandlerInv

LEMMA LeaveInv ==
  ASSUME HandlerInv, NEW h \in HopSet, NEW panics \in BOOLEAN, Leave(h, panics)
  PROVE  HandlerInv'
  <1> USE HandlersAssumption
  <1> DEFINE entry == [hop |-> h, status |-> status[h]]
  <1>1. /\ depth = h /\ depth' = h - 1 /\ ids' = ids + 1
        /\ mode' \in {"run", "panic", "answer"}
        /\ measured' = IF Measured(h) THEN Append(measured, entry) ELSE measured
        /\ live' = [live EXCEPT ![h] = FALSE]
        /\ UNCHANGED <<link, called, exitEvent, status, writes>>
    BY DEF Leave
  <1>2. \E md : sent' = IF link[h] # "wrap" /\ ~panics /\ sent[h] = NotSent
                        THEN [sent EXCEPT ![h] = [md |-> md, status |-> 200]] ELSE sent
    BY DEF Leave
  <1>3. /\ called \in 0..Hops /\ h \in 1..called /\ h \in Nat /\ ids \in Nat
        /\ status \in [HopSet -> Nat] /\ writes \in [HopSet -> 0..MaxWrites]
        /\ live \in [HopSet -> BOOLEAN] /\ DOMAIN sent = HopSet
        /\ measured \in Seq([hop : HopSet, status : Nat])
    BY <1>1 DEF HandlerInv, HandlerTypes, HandlersTypeOK, HopSet
  <1>4. entry \in [hop : HopSet, status : Nat] /\ entry.hop = h /\ entry.status = status[h]
    BY <1>3
  <1> DEFINE Entries == [hop : HopSet, status : Nat]
  <1>a. measured \in Seq(Entries) /\ entry \in Entries
    BY <1>3, <1>4
  <1> HIDE DEF entry, Entries
  <1>5. Len(measured) \in Nat
    BY <1>a, LenProperties
  <1>6. /\ measured' \in Seq([hop : HopSet, status : Nat])
        /\ Len(measured') = Len(measured) + (IF Measured(h) THEN 1 ELSE 0)
        /\ \A i \in 1..Len(measured) : measured'[i] = measured[i]
        /\ Measured(h) => measured'[Len(measured) + 1] = entry
    <2>1. CASE Measured(h)
      <3>1. measured' = Append(measured, entry)
        BY <1>1, <2>1
      <3>2. /\ measured' \in Seq(Entries) /\ Len(measured') = Len(measured) + 1
            /\ \A i \in 1..Len(measured) : measured'[i] = measured[i]
            /\ measured'[Len(measured) + 1] = entry
        BY <1>a, <3>1, AppendProperties
      <3> QED
        BY <2>1, <3>2 DEF Entries
    <2>2. CASE ~Measured(h)
      <3>1. measured' = measured
        BY <1>1, <2>2
      <3> QED
        BY <1>3, <1>5, <2>2, <3>1
    <2> QED
      BY <2>1, <2>2
  <1>7. \A i \in 1..Len(measured') : i \in 1..Len(measured) \/ (Measured(h) /\ i = Len(measured) + 1)
    BY <1>5, <1>6
  <1>8. HandlerTypes'
    <2>1. DOMAIN sent' = HopSet /\ live' \in [HopSet -> BOOLEAN] /\ ids' \in Nat
      BY <1>1, <1>2, <1>3
    <2>2. depth' \in 0..called
      BY <1>1, <1>3
    <2>3. \A k \in HopSet : live'[k] => k \in 1..depth' /\ exitEvent'[k] # NoMD
      <3>1. \A k \in HopSet : live'[k] => k # h /\ live[k]
        BY <1>1, <1>3
      <3>2. \A k \in HopSet : live[k] => k \in 1..h /\ exitEvent[k] # NoMD
        BY <1>1 DEF HandlerInv, HandlerTypes, HandlersTypeOK
      <3>3. \A k \in 1..h : k # h => k \in 1..(h - 1)
        BY <1>3
      <3> QED
        BY <1>1, <3>1, <3>2, <3>3
    <2> QED
      BY <1>1, <1>6, <2>1, <2>2, <2>3 DEF HandlerInv, HandlerTypes, HandlersTypeOK
  <1>b. depth = h /\ depth' = h - 1 /\ called' = called /\ h \in Nat /\ called \in Nat
    BY <1>1, <1>3
  <1>c. \A k \in HopSet : /\ k <= depth' => k # h /\ k <= depth
                          /\ k > called' => k # h /\ k > called
    <2>1. \A k \in HopSet : k \in Nat
      BY DEF HopSet
    <2> QED
      BY <1>3, <1>b, <2>1
  <1>d. \A k \in HopSet : k # h => live'[k] = live[k]
    BY <1>1, <1>3
  <1>9. Lives'
    BY <1>1, <1>c, <1>d DEF HandlerInv, Lives
  <1>10. \A k \in HopSet : k # h => sent'[k] = sent[k]
    BY <1>2, <1>3
  <1>11. Observed'
    <2>1. UNCHANGED <<link, status, writes>>
      BY <1>1
    <2> QED
      BY <1>10, <1>c, <2>1 DEF HandlerInv, Observed
  <1>12. \A i \in 1..Len(measured) : measured[i].hop \in h + 1..called /\ measured[i].hop # h
    <2>1. \A i \in 1..Len(measured) : measured[i].hop \in h + 1..called
      BY <1>b DEF HandlerInv, Left
    <2>2. \A x \in h + 1..called : x # h
      BY <1>b
    <2> QED
      BY <2>1, <2>2
  <1>13. Left'
    <2>1. \A k \in h + 1..called : k \in (h - 1) + 1..called
      BY <1>3
    <2>2. h \in (h - 1) + 1..called
      BY <1>3
    <2> QED
      BY <1>1, <1>4, <1>6, <1>7, <1>12, <2>1, <2>2 DEF Left
  <1>14. MeasuredOnce'
    <2>1. ASSUME NEW i \in 1..Len(measured'), NEW j \in 1..Len(measured'),
                 measured'[i].hop = measured'[j].hop
          PROVE  i = j
      BY <1>4, <1>6, <1>7, <1>12, <2>1 DEF HandlerInv, MeasuredOnce
    <2>2. ASSUME NEW i \in 1..Len(measured')
          PROVE  LET k == measured'[i].hop
                 IN /\ link'[k] # "wrap"
                    /\ sent'[k] # NotSent /\ writes'[k] <= 1 => measured'[i].status = sent'[k].status
      <3>1. CASE i \in 1..Len(measured)
        <4>1. measured'[i] = measured[i] /\ measured[i].hop \in HopSet /\ measured[i].hop # h
          <5>1. \A k \in h + 1..called : k \in HopSet
            BY <1>3 DEF HopSet
          <5>2. measured'[i] = measured[i]
            BY <1>6, <3>1
          <5> QED
            BY <1>12, <3>1, <5>1, <5>2
        <4>2. sent'[measured[i].hop] = sent[measured[i].hop]
          BY <1>10, <4>1
        <4> QED
          BY <1>1, <3>1, <4>1, <4>2 DEF HandlerInv, MeasuredOnce
      <3>2. CASE Measured(h) /\ i = Len(measured) + 1
        <4>1. measured'[i] = entry /\ link[h] # "wrap"
          BY <1>6, <3>2 DEF Measured
        <4>2. /\ writes[h] = 0 => status[h] = 200 /\ sent[h] = NotSent
              /\ writes[h] = 1 => status[h] = sent[h].status /\ sent[h] # NotSent
          BY <1>1, <1>3, <4>1 DEF HandlerInv, Observed
        <4>3. writes[h] <= 1 => writes[h] = 0 \/ writes[h] = 1
          BY <1>3
        <4>4. sent'[h] # NotSent => IF sent[h] = NotSent THEN sent'[h].status = 200 ELSE sent'[h] = sent[h]
          BY <1>2, <1>3
        <4> QED
          BY <1>1, <1>4, <4>1, <4>2, <4>3, <4>4
      <3> QED
        BY <1>7, <3>1, <3>2
    <2>3. ASSUME NEW k \in HopSet, Ended(k)', link'[k] # "wrap"
          PROVE  \E i \in 1..Len(measured') : measured'[i].hop = k
      <3>1. CASE k = h
        <4>1. live[h]
          BY <1>1, <2>3, <3>1 DEF HandlerInv, Lives, Ended, HopSet
        <4>2. Measured(h) /\ Len(measured) + 1 \in 1..Len(measured')
          BY <1>1, <1>5, <1>6, <2>3, <3>1, <4>1 DEF Measured
        <4> QED
          BY <1>4, <1>6, <3>1, <4>2
      <3>2. CASE k # h
        <4>1. Ended(k) /\ link[k] # "wrap"
          BY <1>1, <1>3, <2>3, <3>2 DEF Ended, HopSet
        <4>2. PICK i \in 1..Len(measured) : measured[i].hop = k
          BY <4>1 DEF HandlerInv, MeasuredOnce
        <4>3. i \in 1..Len(measured') /\ measured'[i].hop = k
          BY <1>5, <1>6, <4>2
        <4> QED
          BY <4>3
      <3> QED
        BY <3>1, <3>2
    <2> QED
      BY <2>1, <2>2, <2>3 DEF MeasuredOnce
  <1> QED
    BY <1>8, <1>9, <1>11, <1>13, <1>14 DEF HandlerInv

LEMMA HandlerInvNext == HandlerInv /\ [HandlersNext]_handlerVars => HandlerInv'
  <1> SUFFICES ASSUME HandlerInv, [HandlersNext]_handlerVars PROVE HandlerInv'
    OBVIOUS
  <1>1. ASSUME UNCHANGED <<link, called, depth, live, exitEvent, status, sent, writes, measured>>,
               mode' \in {"run", mode}, ids' \in {ids, ids + 2}
        PROVE  HandlerInv'
    BY <1>1 DEF HandlerInv, HandlerTypes, HandlersTypeOK, Lives, Observed, Left, MeasuredOnce, Ended
  <1>2. CASE FirstRequest
    <2>1. called = 0 /\ depth = 0 /\ 1 \in HopSet
      BY <1>2, HandlersAssumption DEF FirstRequest, HandlerInv, HandlerTypes, HandlersTypeOK, HopSet
    <2>2. PICK accepted \in BOOLEAN : Enter(1, events, NoMD, accepted)
      BY <1>2 DEF FirstRequest, Accepted
    <2> QED
      BY <2>1, <2>2, EnterInv
  <1>3. ASSUME NEW h \in HopSet, Call(h) PROVE HandlerInv'
    <2>1. depth = called /\ h = called /\ h + 1 \in HopSet
      BY <1>3, HandlersAssumption DEF Call, HopSet
    <2>2. \E log, md : \E accepted \in BOOLEAN : Enter(h + 1, log, md, accepted)
      BY <1>3 DEF Call, Accepted
    <2> QED
      BY <2>1, <2>2, EnterInv
  <1>4. ASSUME NEW h \in HopSet, TakeResponse(h) PROVE HandlerInv'
    BY <1>1, <1>4 DEF TakeResponse
  <1>5. CASE UNCHANGED handlerVars
    BY <1>1, <1>5 DEF handlerVars, traceVars, headerVars, historyVars
  <1> QED
    BY <1>2, <1>3, <1>4, <1>5, WriteInv, LeaveInv DEF HandlersNext

\* However many handlers wrap each other, forward, write or panic: a request to a process is
\* measured once, with the status that went out.
THEOREM HandlersMeasuredOnce == HandlersSpec => []MeasuredOnce
  <1>1. HandlerInv => MeasuredOnce
    BY DEF HandlerInv
  <1> QED
    BY <1>1, HandlerInvInit, HandlerInvNext, PTL DEF HandlersSpec

-----------------------------------------------------------------------------
(* The exit events of handlers are connected. *)

MDs == [trace : Nat, id : Nat]
Reports == [md : MDs, edges : SUBSET MDs]
SentResponses == [md : MDs, status : Nat]

HopTypes ==
  /\ ctx \in [HopSet -> MDs] /\ reqMD = ctx
  /\ exitEvent \in [HopSet -> MDs] /\ rspMD \in [HopSet -> MDs] /\ client \in [HopSet -> MDs]
  /\ endEdges \in [HopSet -> SUBSET MDs]
  /\ sent \in [HopSet -> SentResponses]
  /\ events \in Seq(Reports)
  /\ joined \subseteq 2..called
  /\ mode = "answer" => depth < called

\* A handler goes on with the trace of the one that called it, or starts one of its own.
SameTrace(h, k) ==
  exitEvent[h] # NoMD /\ exitEvent[k] # NoMD /\ exitEvent[h].trace = exitEvent[k].trace
Traces ==
  \A h \in HopSet :
    /\ ctx[h] = NoMD <=> exitEvent[h] = NoMD
    /\ exitEvent[h] # NoMD =>
         /\ ctx[h].trace = exitEvent[h].trace /\ exitEvent[h].trace \in 1..h
         /\ exitEvent[h].trace # h => SameTrace(h - 1, h)

\* The ids of exit events are their own, and are not reported before the handler has left.
Fresh ==
  /\ \A h \in HopSet : exitEvent[h].id <= ids
  /\ \A i \in 1..Len(events) : events[i].md.id <= ids
  /\ \A h, k \in HopSet : exitEvent[h] # NoMD /\ exitEvent[h] = exitEvent[k] => h = k
  /\ \A h \in HopSet, i \in 1..Len(events) : live[h] => events[i].md # exitEvent[h]

\* The header that was written has the exit event of the outermost trace.
Announced ==
  /\ \A h \in HopSet : exitEvent[h] # NoMD /\ writes[h] > 0 => sent[h].md = exitEvent[h]
  /\ \A h \in HopSet : h > called => writes[h] = 0

\* A proxy that has copied a response header still has it.
Copied ==
  \A h, n \in HopSet :
    /\ n = h + 1 /\ depth = h /\ mode = "run" /\ n <= called /\ n \notin failed \cup joined
    /\ link[n] = "forward" /\ writes[n] > 0 /\ exitEvent[n] # NoMD
    => rspMD[Base(h)] = exitEvent[n]

\* The i-th event, or one it has an edge to, has an edge to an earlier event with metadata md.
Leads(log, i, md) ==
  \E m \in 1..i - 1 :
    /\ log[m].md = md
    /\ \/ md \in log[i].edges
       \/ \E j \in m + 1..i - 1 : log[j].md \in log[i].edges /\ md \in log[j].edges

\* The edges of a trace lead to md, or to an event, as that of a client span, that has an edge to md.
Promise(log, edges, trace, md) ==
  \/ md \in edges
  \/ \E j, m \in 1..Len(log) : /\ m < j /\ log[m].md = md /\ md \in log[j].edges
                               /\ log[j].md \in edges /\ log[j].md.trace = trace

Has(log, md) == \E i \in 1..Len(log) : log[i].md = md

\* The edges of a running handler lead to the exit event of its callee if its response was used
\* and nothing on the way was refused.
Promised ==
  \A h, n \in HopSet : sampling /\ h <= depth /\ n = h + 1 /\ n \in joined /\ SameTrace(h, n) /\ Arrived(n)
                         => Promise(events, endEdges[h], exitEvent[h].trace, exitEvent[n])

\* So does the exit event of one that has left; and that is reported unless it was refused.
Linked ==
  \A h, n \in HopSet : sampling /\ h > depth /\ n = h + 1 /\ n \in joined /\ SameTrace(h, n) /\ Arrived(n) =>
    \A i \in 1..Len(events) : events[i].md = exitEvent[h] => Leads(events, i, exitEvent[n])

Told == \A h \in HopSet : sampling /\ Ended(h) /\ exitEvent[h] \notin dropped => Has(events, exitEvent[h])

\* A response is used once its handler has left, unless by a handler that wraps it.
Used ==
  /\ \A n \in joined : link[n] = "wrap" \/ n > depth
  /\ mode = "answer" => depth + 1 \notin joined

HopInv ==
  HopTypes /\ Traces /\ Fresh /\ Announced /\ Copied /\ Promised /\ Linked /\ Told /\ Used

\* One event more, with an id in lo..hi.
Grown(log, old, new) ==
  /\ log \in Seq(Reports) /\ Len(log) >= Len(old)
  /\ \A i \in 1..Len(old) : log[i] = old[i]
  /\ \A i \in Len(old) + 1..Len(log) : log[i].md \in new

ReportOf(md, edges) == [md |-> md, edges |-> {e \in edges : e.trace = md.trace}]

\* What Reported adds.
Added(more, log, report) ==
  /\ more \in Seq(Reports) /\ Len(more) = Len(log) + 1 /\ more[Len(log) + 1] = report
  /\ \A i \in 1..Len(log) : more[i] = log[i]

LEMMA ReportAdds ==
  ASSUME sampling, NEW log \in Seq(Reports), NEW md \in MDs, NEW edges \in SUBSET MDs,
         NEW lost, md \notin lost
  PROVE  Added(Reported(log, md, edges, lost), log, ReportOf(md, edges))
  <1> DEFINE report == ReportOf(md, edges)
  <1>1. report \in Reports
    BY DEF Reports, ReportOf
  <1>2. Reported(log, md, edges, lost) = Append(log, report)
    BY DEF Reported, ReportOf
  <1> HIDE DEF report
  <1>3. Added(Append(log, report), log, report)
    BY <1>1, AppendProperties DEF Added
  <1> QED
    BY <1>2, <1>3 DEF report

LEMMA ReportGrows ==
  ASSUME NEW old \in Seq(Reports), NEW log, NEW new, Grown(log, old, new),
         NEW md \in MDs, NEW edges \in SUBSET MDs, NEW lost
  PROVE  Grown(Reported(log, md, edges, lost), old, new \cup {md})
  <1> DEFINE more == Reported(log, md, edges, lost)
  <1>1. /\ log \in Seq(Reports) /\ Len(log) >= Len(old)
        /\ \A i \in 1..Len(old) : log[i] = old[i]
        /\ \A i \in Len(old) + 1..Len(log) : log[i].md \in new
    BY DEF Grown
  <1>2. Len(log) \in Nat /\ Len(old) \in Nat
    BY <1>1, LenProperties
  <1>3. CASE sampling /\ md \notin lost
    <2>1. Added(more, log, ReportOf(md, edges))
      BY <1>1, <1>3, ReportAdds
    <2> HIDE DEF more
    <2>2. \A i \in 1..Len(old) : more[i] = old[i]
      BY <1>1, <1>2, <2>1 DEF Added
    <2>3. \A i \in Len(old) + 1..Len(more) : more[i].md \in new \cup {md}
      BY <1>1, <1>2, <2>1 DEF Added, ReportOf
    <2>4. Grown(more, old, new \cup {md})
      BY <1>1, <1>2, <2>1, <2>2, <2>3 DEF Grown, Added
    <2> QED
      BY <2>4 DEF more
  <1>4. CASE ~(sampling /\ md \notin lost)
    <2>1. more = log
      BY <1>4 DEF Reported
    <2> QED
      BY <1>1, <2>1 DEF Grown
  <1> QED
    BY <1>3, <1>4

\* What is in the log, or leads to something, stays so.
LEMMA GrownKeeps ==
  ASSUME NEW old \in Seq(Reports), NEW log, NEW new, Grown(log, old, new)
  PROVE  /\ \A i, md : i \in 1..Len(old) /\ Leads(old, i, md) => Leads(log, i, md)
         /\ \A md : Has(old, md) => Has(log, md)
         /\ \A edges, more, trace, md :
              edges \subseteq more /\ Promise(old, edges, trace, md) => Promise(log, more, trace, md)
  <1>1. /\ Len(log) >= Len(old) /\ Len(log) \in Nat /\ Len(old) \in Nat
        /\ \A i \in 1..Len(old) : log[i] = old[i]
    BY LenProperties DEF Grown
  <1>2. ASSUME NEW i \in 1..Len(old), NEW md, Leads(old, i, md) PROVE Leads(log, i, md)
    BY <1>1, <1>2 DEF Leads
  <1>3. \A md : Has(old, md) => Has(log, md)
    BY <1>1 DEF Has
  <1>4. \A edges, more, trace, md :
          edges \subseteq more /\ Promise(old, edges, trace, md) => Promise(log, more, trace, md)
    BY <1>1 DEF Promise
  <1> QED
    BY <1>2, <1>3, <1>4

\* Metadata made in this step.
Later(n) == {m \in MDs : m.id \in ids + 1..ids + n}

LEMMA GrownWeaker ==
  ASSUME NEW old, NEW log, NEW new, NEW more, Grown(log, old, new), new \subseteq more
  PROVE  Grown(log, old, more)
  BY DEF Grown

LEMMA HopInvInit == HandlersInit => HopInv
  <1> SUFFICES ASSUME HandlersInit PROVE HopInv
    OBVIOUS
  <1> USE HandlersAssumption
  <1>1. events = <<>> /\ Len(events) = 0 /\ events \in Seq(Reports)
    BY EmptySeq DEF HandlersInit
  <1>2. NoMD \in MDs /\ NotSent \in SentResponses
    BY DEF NoMD, NotSent, MDs, SentResponses
  <1>3. HopTypes
    BY <1>1, <1>2 DEF HandlersInit, HopTypes
  <1>4. /\ \A h \in HopSet : exitEvent[h] = NoMD /\ ctx[h] = NoMD /\ writes[h] = 0
        /\ depth = 0 /\ called = 0 /\ joined = {}
    BY DEF HandlersInit
  <1>5. NoMD.id = 0 /\ ids = 0
    BY DEF HandlersInit, NoMD
  <1>6. Traces /\ Fresh /\ Announced
    BY <1>1, <1>4, <1>5 DEF HandlersInit, Traces, Fresh, Announced
  <1>7. Copied /\ Promised /\ Linked /\ Told /\ Used
    BY <1>1, <1>4 DEF Copied, Promised, Linked, Told, Ended, SameTrace, Used
  <1> QED
    BY <1>3, <1>6, <1>7 DEF HopInv

\* What has been reported has ids that were made.
LEMMA ReportedIds ==
  ASSUME events \in Seq(Reports), Fresh, ids \in Nat, NEW n \in Nat, NEW new \in SUBSET MDs,
         \A m \in new : m.id <= ids + n, NEW log, Grown(log, events, new)
  PROVE  \A i \in 1..Len(log) :
           /\ log[i].md.id \in Nat /\ log[i].md.id <= ids + n
           /\ \/ i \in 1..Len(events) /\ log[i] = events[i] /\ log[i].md.id <= ids
              \/ i \in Len(events) + 1..Len(log) /\ log[i].md \in new
  <1>1. Len(events) \in Nat /\ Len(log) \in Nat
    BY LenProperties DEF Grown
  <1>2. ASSUME NEW i \in 1..Len(events) PROVE events[i].md.id \in Nat /\ events[i].md.id <= ids
    <2>1. events[i] \in Reports
      BY ElementOfSeq
    <2> QED
      BY <2>1 DEF Reports, MDs, Fresh
  <1>3. \A m \in new : m.id \in Nat
    BY DEF MDs
  <1>4. ASSUME NEW i \in 1..Len(log), i \in 1..Len(events)
        PROVE  log[i] = events[i] /\ log[i].md.id \in Nat /\ log[i].md.id <= ids /\ log[i].md.id <= ids + n
    BY <1>2, <1>4 DEF Grown
  <1>5. ASSUME NEW i \in 1..Len(log), i \notin 1..Len(events)
        PROVE  i \in Len(events) + 1..Len(log) /\ log[i].md \in new
    BY <1>1, <1>5 DEF Grown
  <1> QED
    BY <1>3, <1>4, <1>5

\* The next handler is called, with metadata of the caller's trace or without any.
LEMMA EnterHop ==
  ASSUME HandlerInv, HopInv, depth = called, NEW h \in HopSet, h = called + 1,
         NEW log, Grown(log, events, Later(1)), NEW md \in MDs,
         md # NoMD => h > 1 /\ exitEvent[h - 1] # NoMD /\ md.trace = exitEvent[h - 1].trace,
         NEW accepted \in BOOLEAN, Enter(h, log, md, accepted),
         client' \in [HopSet -> MDs], \A k \in HopSet \ {h} : client'[k] = client[k]
  PROVE  HopInv'
  <1> USE HandlersAssumption
  <1> DEFINE trace == IF md = NoMD THEN h ELSE md.trace
             entry == IF accepted THEN NewMD(trace, 2) ELSE NoMD
             exit == IF accepted THEN NewMD(trace, 3) ELSE NoMD
  <1>0. ids \in Nat /\ ids' = ids + 3
    BY DEF Enter, HandlerInv, HandlerTypes
  <1>1. /\ called \in Nat /\ h \in Nat /\ h \in 1..Hops /\ ids \in Nat /\ called' = h /\ depth' = h
        /\ ids' = ids + 3 /\ mode' # "answer"
        /\ live' = [live EXCEPT ![h] = accepted]
        /\ ctx' = [ctx EXCEPT ![h] = entry] /\ reqMD' = [reqMD EXCEPT ![h] = entry]
        /\ exitEvent' = [exitEvent EXCEPT ![h] = exit]
        /\ rspMD' = IF accepted THEN [rspMD EXCEPT ![Base(h)] = exit] ELSE rspMD
        /\ events' = IF accepted THEN Reported(log, entry, {md}, {}) ELSE log
        /\ UNCHANGED <<sampling, link, endEdges, sent, writes, joined, failed, dropped>>
    BY DEF Enter, HandlerInv, HandlerTypes, HandlersTypeOK, HopInv, HopTypes, HopSet
  <1>2. /\ ctx \in [HopSet -> MDs] /\ reqMD = ctx
        /\ exitEvent \in [HopSet -> MDs] /\ rspMD \in [HopSet -> MDs]
        /\ endEdges \in [HopSet -> SUBSET MDs] /\ sent \in [HopSet -> SentResponses]
        /\ events \in Seq(Reports) /\ joined \subseteq 2..called /\ live \in [HopSet -> BOOLEAN]
    BY DEF HopInv, HopTypes, HandlerInv, HandlerTypes
  <1>3. /\ NoMD \in MDs /\ NoMD.id = 0 /\ NoMD.trace = 0
        /\ \A x \in Nat, n \in Nat : /\ NewMD(x, n) \in MDs /\ NewMD(x, n).trace = x
                                     /\ NewMD(x, n).id = ids + n
    BY <1>1 DEF MDs, NoMD, NewMD
  <1>4. trace \in Nat /\ md.trace \in Nat
    BY <1>1 DEF MDs
  <1>5. /\ entry \in MDs /\ exit \in MDs
        /\ accepted => entry.trace = trace /\ exit.trace = trace /\ entry.id = ids + 2 /\ exit.id = ids + 3
        /\ ~accepted => entry = NoMD /\ exit = NoMD
        /\ (accepted <=> entry # NoMD) /\ (accepted <=> exit # NoMD)
    <2>1. entry \in MDs /\ exit \in MDs
      BY <1>3, <1>4
    <2>2. CASE accepted
      <3>1. entry = NewMD(trace, 2) /\ exit = NewMD(trace, 3)
        BY <2>2
      <3> HIDE DEF trace, entry, exit
      <3>2. entry.trace = trace /\ exit.trace = trace /\ entry.id = ids + 2 /\ exit.id = ids + 3
        BY <1>3, <1>4, <3>1
      <3>3. ids + 2 # 0 /\ ids + 3 # 0
        BY <1>0
      <3>4. entry.id # NoMD.id /\ exit.id # NoMD.id
        BY <1>3, <3>2, <3>3
      <3> QED
        BY <2>1, <2>2, <3>2, <3>4
    <2> QED
      BY <2>1, <2>2
  <1>6. Grown(events', events, Later(2))
    <2>1. Later(1) \cup {entry} \subseteq Later(2) \/ ~accepted
      BY <1>1, <1>5 DEF Later
    <2>2. Later(1) \subseteq Later(2)
      BY <1>1 DEF Later
    <2> HIDE DEF trace, entry, exit
    <2>3. CASE accepted
      <3>1. Grown(Reported(log, entry, {md}, {}), events, Later(1) \cup {entry})
        BY <1>2, <1>5, ReportGrows
      <3> QED
        BY <1>1, <2>1, <2>3, <3>1, GrownWeaker
    <2>4. CASE ~accepted
      BY <1>1, <2>2, <2>4, GrownWeaker
    <2> QED
      BY <2>3, <2>4
  <1> HIDE DEF trace, entry, exit
  <1>7. /\ exitEvent'[h] = exit /\ ctx'[h] = entry /\ live'[h] = accepted
        /\ \A k \in HopSet \ {h} : exitEvent'[k] = exitEvent[k] /\ ctx'[k] = ctx[k] /\ live'[k] = live[k]
    BY <1>1, <1>2 DEF HopSet
  <1>8. HopTypes'
    <2>1. joined' \subseteq 2..called'
      BY <1>1, <1>2
    <2>2. rspMD' \in [HopSet -> MDs]
      BY <1>1, <1>2, <1>5
    <2>3. events' \in Seq(Reports)
      BY <1>6 DEF Grown
    <2>4. ctx' \in [HopSet -> MDs] /\ exitEvent' \in [HopSet -> MDs] /\ reqMD' = ctx'
      BY <1>1, <1>2, <1>5
    <2> QED
      BY <1>1, <1>2, <2>1, <2>2, <2>3, <2>4 DEF HopTypes
  <1>9. \A k \in HopSet : k > called => exitEvent[k] = NoMD /\ writes[k] = 0
    BY DEF HandlerInv, Lives, HopInv, Announced
  <1>10. Traces'
    <2> SUFFICES ASSUME NEW k \in HopSet
                 PROVE  /\ ctx'[k] = NoMD <=> exitEvent'[k] = NoMD
                        /\ exitEvent'[k] # NoMD =>
                             /\ ctx'[k].trace = exitEvent'[k].trace /\ exitEvent'[k].trace \in 1..k
                             /\ exitEvent'[k].trace # k => SameTrace(k - 1, k)'
      BY DEF Traces
    <2>1. CASE k = h
      <3>1. h > 1 => h - 1 \in HopSet \ {h}
        BY <1>1 DEF HopSet
      <3>2. md # NoMD => exitEvent'[h - 1] = exitEvent[h - 1] /\ exitEvent[h - 1].trace \in 1..h
        BY <1>1, <1>7, <3>1 DEF HopInv, Traces
      <3>3. trace \in 1..h /\ (trace # h => md # NoMD)
        BY <1>1, <3>2 DEF trace
      <3>4. trace # h /\ accepted => SameTrace(h - 1, h)'
        <4>1. trace # h => trace = exitEvent[h - 1].trace
          BY <3>3 DEF trace
        <4> QED
          BY <1>5, <1>7, <3>2, <3>3, <4>1 DEF SameTrace
      <3> QED
        BY <1>5, <1>7, <2>1, <3>3, <3>4
    <2>2. CASE k # h
      <3>1. exitEvent'[k] = exitEvent[k] /\ ctx'[k] = ctx[k]
        BY <1>7, <2>2
      <3>2. exitEvent[k] # NoMD => k < h
        BY <1>1, <1>9, <2>2 DEF HopSet
      <3>3. exitEvent[k] # NoMD /\ exitEvent[k].trace # k => k - 1 \in HopSet \ {h} /\ SameTrace(k - 1, k)
        BY <1>1, <3>2 DEF HopInv, Traces, HopSet
      <3>4. exitEvent[k] # NoMD /\ exitEvent[k].trace # k => SameTrace(k - 1, k)'
        BY <1>7, <3>1, <3>3 DEF SameTrace
      <3> QED
        BY <3>1, <3>4 DEF HopInv, Traces
    <2> QED
      BY <2>1, <2>2
  <1>11. Fresh'
    <2>1. \A k \in HopSet : exitEvent[k].id \in Nat /\ exitEvent[k].id <= ids
      <3>1. \A k \in HopSet : exitEvent[k] \in MDs
        BY <1>2
      <3> QED
        BY <3>1 DEF HopInv, Fresh, MDs
    <2>2. exit.id \in Nat /\ exit.id <= ids + 3 /\ (accepted => exit.id = ids + 3)
      BY <1>0, <1>3, <1>5
    <2>3. \A k \in HopSet : exitEvent'[k].id \in Nat /\ exitEvent'[k].id <= ids'
      BY <1>0, <1>7, <2>1, <2>2
    <2>4. \A k, m \in HopSet : exitEvent'[k] # NoMD /\ exitEvent'[k] = exitEvent'[m] => k = m
      <3>1. \A k \in HopSet : accepted => exitEvent[k].id # exit.id
        BY <1>0, <2>1, <2>2
      <3> QED
        BY <1>5, <1>7, <3>1 DEF HopInv, Fresh
    <2>5. \A m \in Later(2) : m.id \in Nat /\ m.id > ids /\ m.id <= ids + 2
      BY <1>0 DEF Later, MDs
    <2>6. \A i \in 1..Len(events') :
             /\ events'[i].md.id \in Nat /\ events'[i].md.id <= ids + 2
             /\ \/ i \in 1..Len(events) /\ events'[i] = events[i]
                \/ events'[i].md.id > ids
      <3>1. Later(2) \in SUBSET MDs
        BY DEF Later
      <3> QED
        BY <1>0, <1>2, <1>6, <2>5, <3>1, ReportedIds DEF HopInv
    <2>7. ASSUME NEW k \in HopSet, NEW i \in 1..Len(events'), live'[k]
          PROVE  events'[i].md # exitEvent'[k]
      <3>1. CASE k = h
        <4>1. exitEvent'[k].id = ids + 3
          BY <1>7, <2>2, <2>7, <3>1
        <4> QED
          BY <1>0, <2>6, <4>1
      <3>2. CASE k # h /\ i \in 1..Len(events) /\ events'[i] = events[i]
        BY <1>7, <2>7, <3>2 DEF HopInv, Fresh
      <3>3. CASE k # h /\ events'[i].md.id > ids
        <4>1. exitEvent'[k].id <= ids
          BY <1>7, <2>1, <3>3
        <4> QED
          BY <1>0, <2>3, <2>6, <3>3, <4>1
      <3> QED
        BY <2>6, <3>1, <3>2, <3>3
    <2>8. \A i \in 1..Len(events') : events'[i].md.id <= ids'
      BY <1>0, <2>6
    <2> QED
      BY <2>3, <2>4, <2>7, <2>8 DEF Fresh
  <1>12. Announced' /\ Copied'
    <2>1. \A k \in HopSet : k > h => k > called
      BY <1>1 DEF HopSet
    <2>2. Announced'
      BY <1>1, <1>7, <1>9, <2>1 DEF HopInv, Announced
    <2>3. Copied'
      BY <1>1 DEF Copied, HopSet
    <2> QED
      BY <2>2, <2>3
  <1>13. Promised'
    <2> SUFFICES ASSUME NEW k \in HopSet, NEW n \in HopSet, sampling, k <= h, n = k + 1, n \in joined,
                        SameTrace(k, n)', Arrived(n)'
                 PROVE  Promise(events', endEdges[k], exitEvent'[k].trace, exitEvent'[n])
      BY <1>1 DEF Promised
    <2>1. k # h /\ n # h /\ k <= depth
      BY <1>1, <1>2 DEF HopSet
    <2>2. /\ exitEvent'[k] = exitEvent[k] /\ exitEvent'[n] = exitEvent[n] /\ SameTrace(k, n)
          /\ Arrived(n)
      BY <1>1, <1>7, <2>1 DEF SameTrace, Arrived
    <2>3. Promise(events, endEdges[k], exitEvent[k].trace, exitEvent[n])
      BY <2>1, <2>2 DEF HopInv, Promised
    <2> QED
      BY <1>2, <1>6, <2>2, <2>3, GrownKeeps
  <1>14. Linked' /\ Told'
    BY <1>1, <1>2 DEF Linked, Told, Ended, HopSet
  <1>15. Used'
    <2>1. \A k \in joined : k # h /\ k <= depth
      BY <1>1, <1>2
    <2>2. \A k \in joined : k \in Nat /\ ~(k > depth)
      BY <1>1, <1>2, <2>1
    <2> QED
      BY <1>1, <2>2 DEF HopInv, Used
  <1> QED
    BY <1>8, <1>10, <1>11, <1>12, <1>13, <1>14, <1>15 DEF HopInv

\* The response is written.
LEMMA WriteHop ==
  ASSUME HandlerInv, HopInv, NEW h \in HopSet, NEW s \in Statuses, WriteHeader(h, s)
  PROVE  HopInv'
  <1> USE HandlersAssumption
  <1> DEFINE b == Base(h)
             tracing == {k \in b..h : live[k]}
             md == IF tracing = {} THEN rspMD[b] ELSE exitEvent[Min(tracing)]
             copied == {n \in {h + 1} : n <= called /\ link[n] = "forward" /\ writes[n] > 0 /\ n \notin failed}
  <1>1. /\ depth = h /\ mode = "run"
        /\ writes' = [writes EXCEPT ![b] = @ + 1]
        /\ endEdges' = [k \in HopSet |->
                          IF k \in tracing THEN endEdges[k] \cup ({Seen(k, h)} \ {NoMD, exitEvent[k]})
                          ELSE endEdges[k]]
        /\ rspMD' = [rspMD EXCEPT ![b] = md]
        /\ sent' = IF sent[b] = NotSent THEN [sent EXCEPT ![b] = [md |-> md, status |-> s]] ELSE sent
        /\ joined' = joined \cup (b + 1..h) \cup copied
        /\ UNCHANGED <<sampling, link, called, depth, mode, live, ctx, exitEvent, reqMD, client,
                       events, dropped, failed, ids>>
    BY DEF WriteHeader
  <1>2. /\ h \in Nat /\ h \in 1..called /\ called \in 0..Hops
        /\ live \in [HopSet -> BOOLEAN] /\ writes \in [HopSet -> 0..MaxWrites]
    BY <1>1 DEF HandlerInv, HandlerTypes, HandlersTypeOK, HopSet
  <1>3. /\ exitEvent \in [HopSet -> MDs] /\ rspMD \in [HopSet -> MDs]
        /\ endEdges \in [HopSet -> SUBSET MDs] /\ sent \in [HopSet -> SentResponses]
        /\ joined \subseteq 2..called
    BY DEF HopInv, HopTypes
  <1>4. b \in 1..h /\ b \in HopSet /\ link[b] # "wrap"
    BY BaseOf DEF HandlerInv
  <1>5. \A k \in HopSet : k <= h => (live[k] <=> exitEvent[k] # NoMD)
    BY <1>1 DEF HandlerInv, Lives
  <1> HIDE DEF b
  \* The first of the live writers.
  <1>6. ASSUME NEW k \in 1..h + 1, NEW live1, live1 = {j \in k..h : live[j]}, live1 # {}
        PROVE  Min(live1) \in live1 /\ (\A j \in live1 : Min(live1) <= j) /\ Min(live1) \in HopSet
    <2>1. live1 \in SUBSET Nat
      BY <1>2, <1>6
    <2>2. Min(live1) \in live1 /\ \A j \in live1 : Min(live1) <= j
      BY <1>6, <2>1, LeastExists
    <2> QED
      BY <1>2, <1>6, <2>2 DEF HopSet
  <1>7. tracing # {} => Min(tracing) \in tracing /\ (\A j \in tracing : Min(tracing) <= j) /\ Min(tracing) \in HopSet
    BY <1>2, <1>4, <1>6
  <1>8. md \in MDs
    BY <1>3, <1>4, <1>7
  <1>9. ASSUME NEW k \in tracing PROVE Seen(k, h) \in MDs
    <2> DEFINE inner == {j \in k + 1..h : live[j]}
    <2>1. k + 1 \in 1..h + 1
      BY <1>2, <1>4
    <2>2. Seen(k, h) = IF inner = {} THEN rspMD[b] ELSE exitEvent[Min(inner)]
      BY DEF Seen, b
    <2>3. inner # {} => Min(inner) \in HopSet
      BY <1>6, <2>1
    <2> QED
      BY <1>3, <1>4, <2>2, <2>3
  <1>10. \A k \in HopSet : endEdges'[k] \in SUBSET MDs /\ endEdges[k] \subseteq endEdges'[k]
    BY <1>1, <1>3, <1>9
  <1>11. HopTypes'
    <2>1. endEdges' \in [HopSet -> SUBSET MDs]
      BY <1>1, <1>10
    <2>2. sent' \in [HopSet -> SentResponses]
      <3>1. [md |-> md, status |-> s] \in SentResponses
        BY <1>8 DEF SentResponses
      <3> HIDE DEF md
      <3> QED
        BY <1>1, <1>3, <3>1
    <2>3. joined' \subseteq 2..called
      <3>1. b + 1..h \subseteq 2..called /\ copied \subseteq 2..called
        BY <1>2, <1>4
      <3> QED
        BY <1>1, <1>3, <3>1
    <2>4. rspMD' \in [HopSet -> MDs]
      BY <1>1, <1>3, <1>8
    <2> QED
      BY <1>1, <2>1, <2>2, <2>3, <2>4 DEF HopInv, HopTypes
  <1>12. Traces' /\ Fresh'
    BY <1>1 DEF HopInv, Traces, Fresh, SameTrace
  <1>13. Announced'
    <2>1. \A k \in HopSet \ {b} : writes'[k] = writes[k] /\ sent'[k] = sent[k]
      BY <1>1, <1>2, <1>3
    <2>2. exitEvent[b] # NoMD => sent'[b].md = exitEvent[b]
      <3> SUFFICES ASSUME exitEvent[b] # NoMD PROVE sent'[b].md = exitEvent[b]
        OBVIOUS
      <3>1. b \in tracing
        BY <1>2, <1>4, <1>5
      <3>2. Min(tracing) = b
        BY <1>2, <1>4, <1>7, <3>1
      <3>3. md = exitEvent[b]
        BY <3>1, <3>2
      <3>4. CASE sent[b] = NotSent
        <4>1. sent'[b] = [md |-> md, status |-> s]
          BY <1>1, <1>3, <1>4, <3>4
        <4> QED
          BY <3>3, <4>1
      <3>5. CASE sent[b] # NotSent
        <4>1. writes[b] # 0
          BY <1>1, <1>2, <1>4, <3>5 DEF HandlerInv, Observed
        <4>2. writes[b] > 0
          BY <1>2, <1>4, <4>1
        <4> QED
          BY <1>1, <1>4, <3>5, <4>2 DEF HopInv, Announced
      <3> QED
        BY <3>4, <3>5
    <2>3. \A k \in HopSet : k > called => k # b
      BY <1>2, <1>4
    <2>4. UNCHANGED <<called, exitEvent>>
      BY <1>1
    <2> HIDE DEF md, tracing, copied
    <2>5. \A k \in HopSet : exitEvent'[k] # NoMD /\ writes'[k] > 0 => sent'[k].md = exitEvent'[k]
      BY <2>1, <2>2, <2>4 DEF HopInv, Announced
    <2>6. \A k \in HopSet : k > called => writes'[k] = 0
      BY <2>1, <2>3 DEF HopInv, Announced
    <2> QED
      BY <2>4, <2>5, <2>6 DEF Announced
  <1>14. Copied'
    <2> SUFFICES ASSUME NEW n \in HopSet, n = h + 1, n <= called, n \notin failed, n \notin joined',
                        link[n] = "forward", writes'[n] > 0
                 PROVE  FALSE
      BY <1>1 DEF Copied
    <2>1. n # b
      BY <1>2, <1>4
    <2>2. writes[n] > 0
      BY <1>1, <1>2, <2>1
    <2>3. n \in copied
      BY <2>2
    <2> QED
      BY <1>1, <2>3
  <1>15. Promised'
    <2> SUFFICES ASSUME NEW k \in HopSet, NEW n \in HopSet, sampling, k <= h, n = k + 1, n \in joined',
                        SameTrace(k, n), Arrived(n)
                 PROVE  Promise(events, endEdges'[k], exitEvent[k].trace, exitEvent[n])
      BY <1>1 DEF Promised, SameTrace, Arrived
    <2>1. CASE n \in joined
      <3>1. Promise(events, endEdges[k], exitEvent[k].trace, exitEvent[n])
        BY <1>1, <2>1 DEF HopInv, Promised
      <3> QED
        BY <1>10, <3>1 DEF Promise
    <2>2. exitEvent[k] # NoMD /\ exitEvent[n] # NoMD /\ exitEvent[n] # exitEvent[k] /\ live[k] /\ k # n
      <3>1. k # n
        BY DEF HopSet
      <3> QED
        BY <1>5, <3>1 DEF SameTrace, HopInv, Fresh
    <2>3. ASSUME k \in b..h, Seen(k, h) = exitEvent[n]
          PROVE  exitEvent[n] \in endEdges'[k]
      <3>1. k \in tracing
        BY <2>2, <2>3
      <3>2. endEdges'[k] = endEdges[k] \cup ({Seen(k, h)} \ {NoMD, exitEvent[k]})
        BY <1>1, <3>1
      <3> QED
        BY <2>2, <2>3, <3>2
    <2>4. CASE n \in b + 1..h
      <3> DEFINE inner == {j \in k + 1..h : live[j]}
      <3>1. k \in b..h /\ n \in inner
        BY <1>2, <1>4, <1>5, <2>2, <2>4 DEF HopSet
      <3>2. k + 1 \in 1..h + 1
        BY <1>2 DEF HopSet
      <3>3. Min(inner) \in inner /\ \A j \in inner : Min(inner) <= j
        BY <1>6, <3>1, <3>2
      <3>4. Min(inner) = n
        BY <1>2, <3>1, <3>3 DEF HopSet
      <3>5. Seen(k, h) = exitEvent[n]
        BY <3>1, <3>4 DEF Seen
      <3> QED
        BY <2>3, <3>1, <3>5 DEF Promise
    <2>5. CASE n \in copied /\ n \notin joined
      <3>1. k = h /\ n <= called /\ link[n] = "forward" /\ writes[n] > 0 /\ n \notin failed
        BY <1>2, <2>5 DEF HopSet
      <3>2. rspMD[Base(h)] = exitEvent[n]
        BY <1>1, <2>2, <2>5, <3>1 DEF HopInv, Copied
      <3>3. {j \in k + 1..h : live[j]} = {}
        BY <1>2, <3>1
      <3>4. Seen(k, h) = exitEvent[n]
        BY <3>2, <3>3 DEF Seen
      <3>5. k \in b..h
        BY <1>2, <1>4, <3>1
      <3> QED
        BY <2>3, <3>4, <3>5 DEF Promise
    <2> QED
      BY <1>1, <2>1, <2>4, <2>5
  <1>16. Linked' /\ Told'
    <2>1. ASSUME NEW k \in HopSet, k > h, k + 1 \in joined' PROVE k + 1 \in joined
      <3>1. k + 1 \notin b + 1..h /\ k + 1 # h + 1
        BY <1>2, <1>4, <2>1 DEF HopSet
      <3> QED
        BY <1>1, <2>1, <3>1
    <2> QED
      BY <1>1, <2>1 DEF HopInv, Linked, Told, Ended, SameTrace, Arrived
  <1>17. Used'
    <2>1. \A k \in b + 1..h : link[k] = "wrap"
      <3>1. \A k \in b + 1..h : k \in b..h /\ k # b
        BY <1>2, <1>4
      <3> QED
        BY <3>1, BaseOf DEF HandlerInv, b
    <2>2. \A k \in copied : k > h
      BY <1>2
    <2> QED
      BY <1>1, <2>1, <2>2 DEF HopInv, Used
  <1> QED
    BY <1>11, <1>12, <1>13, <1>14, <1>15, <1>16, <1>17 DEF HopInv

\* Events are added; no handler gets other metadata.
LEMMA FreshGrows ==
  ASSUME HopTypes, Fresh, ids \in Nat, NEW n \in Nat, ids' = ids + n, exitEvent' = exitEvent,
         \A k \in HopSet : live'[k] => live[k],
         NEW new \in SUBSET MDs, \A m \in new : m.id <= ids + n,
         \A m \in new, k \in HopSet : live'[k] => m # exitEvent[k],
         Grown(events', events, new)
  PROVE  Fresh'
  <1>1. events \in Seq(Reports) /\ exitEvent \in [HopSet -> MDs]
    BY DEF HopTypes
  <1>2. \A i \in 1..Len(events') :
           /\ events'[i].md.id \in Nat /\ events'[i].md.id <= ids + n
           /\ \/ i \in 1..Len(events) /\ events'[i] = events[i]
              \/ events'[i].md \in new
    BY <1>1, ReportedIds
  <1>3. \A k \in HopSet : exitEvent[k].id \in Nat /\ exitEvent[k].id <= ids
    <2>1. \A k \in HopSet : exitEvent[k] \in MDs
      BY <1>1
    <2> QED
      BY <2>1 DEF Fresh, MDs
  <1>4. \A k \in HopSet : exitEvent'[k].id <= ids'
    BY <1>3
  <1>5. \A i \in 1..Len(events') : events'[i].md.id <= ids'
    BY <1>2
  <1>6. ASSUME NEW k \in HopSet, NEW i \in 1..Len(events'), live'[k] PROVE events'[i].md # exitEvent'[k]
    BY <1>2, <1>6 DEF Fresh
  <1> QED
    BY <1>4, <1>5, <1>6 DEF Fresh

\* The running handler leaves.
LEMMA LeaveHop ==
  ASSUME HandlerInv, HopInv, NEW h \in HopSet, NEW panics \in BOOLEAN, Leave(h, panics)
  PROVE  HopInv'
  <1> USE HandlersAssumption
  <1> DEFINE error == NewMD(ctx[h].trace, 1)
             final == IF panics THEN error ELSE ctx[h]
             edges == endEdges[h] \cup {final}
             new == {error} \cup {m \in {exitEvent[h]} : live[h]}
             LogOf(lost) == IF panics THEN Reported(events, error, {ctx[h]}, lost) ELSE events
  <1>0. ids \in Nat /\ ids' = ids + 1
    BY DEF Leave, HandlerInv, HandlerTypes
  <1>a. PICK lost : /\ dropped' = dropped \cup lost
                    /\ events' = IF live[h] THEN Reported(LogOf(lost), exitEvent[h], edges, lost)
                                 ELSE events
    BY DEF Leave
  <1> DEFINE log == LogOf(lost)
  <1>1. /\ depth = h /\ depth' = h - 1
        /\ events' = IF live[h] THEN Reported(log, exitEvent[h], edges, lost) ELSE events
        /\ dropped' = dropped \cup lost
        /\ live' = [live EXCEPT ![h] = FALSE]
        /\ sent' = IF link[h] # "wrap" /\ ~panics /\ sent[h] = NotSent
                   THEN [sent EXCEPT ![h] = [md |-> rspMD[h], status |-> 200]] ELSE sent
        /\ mode' = IF link[h] = "wrap" THEN IF panics THEN "panic" ELSE "run"
                   ELSE IF h = 1 THEN "run" ELSE "answer"
        /\ UNCHANGED <<sampling, link, called, ctx, exitEvent, endEdges, reqMD, rspMD,
                       client, writes, joined>>
    BY <1>a DEF Leave
  <1>2. /\ called \in 0..Hops /\ h \in 1..called /\ h \in Nat
        /\ live \in [HopSet -> BOOLEAN] /\ writes \in [HopSet -> 0..MaxWrites]
    BY <1>1 DEF HandlerInv, HandlerTypes, HandlersTypeOK, HopSet
  <1>3. /\ exitEvent \in [HopSet -> MDs] /\ rspMD \in [HopSet -> MDs] /\ ctx \in [HopSet -> MDs]
        /\ endEdges \in [HopSet -> SUBSET MDs] /\ sent \in [HopSet -> SentResponses]
        /\ joined \subseteq 2..called /\ events \in Seq(Reports)
    BY DEF HopInv, HopTypes
  <1>4. /\ \A k \in HopSet : live'[k] => k # h /\ live[k]
        /\ live[h] <=> exitEvent[h] # NoMD
        /\ \A k \in HopSet : live[k] => exitEvent[k] # NoMD
    BY <1>1, <1>2 DEF HandlerInv, HandlerTypes, HandlersTypeOK, Lives
  <1>5. error \in MDs /\ error.id = ids + 1 /\ final \in MDs /\ edges \in SUBSET MDs
    <2>1. ctx[h] \in MDs /\ ctx[h].trace \in Nat /\ endEdges[h] \in SUBSET MDs
      BY <1>3 DEF MDs
    <2>2. error \in MDs /\ error.id = ids + 1
      BY <1>0, <2>1 DEF NewMD, MDs
    <2> QED
      BY <2>1, <2>2
  <1> HIDE DEF error, final, edges
  <1>b. \A k \in HopSet : Arrived(k)' => Arrived(k)
    BY <1>1 DEF Arrived
  <1>6. \A k \in HopSet : exitEvent[k].id \in Nat /\ exitEvent[k].id <= ids
    <2>1. \A k \in HopSet : exitEvent[k] \in MDs
      BY <1>3
    <2> QED
      BY <2>1 DEF HopInv, Fresh, MDs
  <1>7. Grown(log, events, {error})
    <2>1. Grown(events, events, {})
      BY <1>3, LenProperties DEF Grown
    <2>2. Grown(events, events, {error})
      BY <2>1, GrownWeaker
    <2>3. events \in Seq(Reports) /\ error \in MDs /\ {ctx[h]} \in SUBSET MDs
      BY <1>3, <1>5
    <2>4. Grown(Reported(events, error, {ctx[h]}, lost), events, {} \cup {error})
      BY <2>1, <2>3, ReportGrows
    <2>5. Grown(Reported(events, error, {ctx[h]}, lost), events, {error})
      BY <2>4, GrownWeaker
    <2> QED
      BY <2>2, <2>5 DEF log
  <1> HIDE DEF log
  <1>8. Grown(events', events, new)
    <2>1. CASE live[h]
      <3>1. new = {error} \cup {exitEvent[h]}
        BY <2>1
      <3>2. Grown(Reported(log, exitEvent[h], edges, lost), events, {error} \cup {exitEvent[h]})
        BY <1>3, <1>5, <1>7, ReportGrows
      <3> QED
        BY <1>1, <2>1, <3>1, <3>2
    <2>2. CASE ~live[h]
      BY <1>1, <1>3, <2>2, LenProperties DEF Grown
    <2> QED
      BY <2>1, <2>2
  <1>9. HopTypes'
    <2>1. sent' \in [HopSet -> SentResponses]
      <3>1. [md |-> rspMD[h], status |-> 200] \in SentResponses
        BY <1>3 DEF SentResponses
      <3> QED
        BY <1>1, <1>3, <3>1
    <2>2. mode' = "answer" => depth' < called
      BY <1>1, <1>2
    <2>3. events' \in Seq(Reports)
      BY <1>8 DEF Grown
    <2> QED
      BY <1>1, <2>1, <2>2, <2>3 DEF HopInv, HopTypes
  <1>10. Traces'
    BY <1>1 DEF HopInv, Traces, SameTrace
  <1>11. Fresh'
    <2>1. new \in SUBSET MDs
      BY <1>3, <1>5
    <2>2. \A m \in new : m.id <= ids + 1
      BY <1>0, <1>5, <1>6
    <2>3. \A k \in HopSet : error # exitEvent[k]
      BY <1>0, <1>5, <1>6
    <2>4. \A m \in new, k \in HopSet : live'[k] => m # exitEvent[k]
      BY <1>4, <2>3 DEF HopInv, Fresh
    <2>5. HopTypes /\ Fresh /\ exitEvent' = exitEvent
      BY <1>1 DEF HopInv
    <2> HIDE DEF new
    <2> QED
      BY <1>0, <1>4, <1>8, <2>1, <2>2, <2>4, <2>5, FreshGrows
  <1>12. Announced'
    <2>1. \A k \in HopSet \ {h} : sent'[k] = sent[k]
      BY <1>1, <1>3
    <2>2. ASSUME exitEvent[h] # NoMD, writes[h] > 0 PROVE sent'[h].md = exitEvent[h]
      <3>1. sent[h].md = exitEvent[h]
        BY <2>2 DEF HopInv, Announced
      <3>2. sent[h] # NotSent
        BY <2>2, <3>1 DEF NotSent
      <3> QED
        BY <1>1, <3>1, <3>2
    <2>3. \A k \in HopSet : exitEvent[k] # NoMD /\ writes[k] > 0 => sent'[k].md = exitEvent[k]
      BY <2>1, <2>2 DEF HopInv, Announced
    <2> QED
      BY <1>1, <2>3 DEF HopInv, Announced
  <1>13. Copied'
    <2> SUFFICES ASSUME NEW k \in HopSet, NEW n \in HopSet, n = k + 1, depth' = k, mode' = "run",
                        link[n] = "forward"
                 PROVE  FALSE
      BY <1>1 DEF Copied
    <2>1. n = h /\ h # 1
      BY <1>1, <1>2 DEF HopSet
    <2> QED
      BY <1>1, <2>1
  <1>14. Promised'
    <2> SUFFICES ASSUME NEW k \in HopSet, NEW n \in HopSet, sampling, k <= h - 1, n = k + 1, n \in joined,
                        SameTrace(k, n), Arrived(n)
                 PROVE  Promise(events', endEdges[k], exitEvent[k].trace, exitEvent[n])
      BY <1>1, <1>b DEF Promised, SameTrace
    <2>1. k <= depth
      BY <1>1, <1>2 DEF HopSet
    <2>2. Promise(events, endEdges[k], exitEvent[k].trace, exitEvent[n])
      BY <2>1 DEF HopInv, Promised
    <2> QED
      BY <1>3, <1>8, <2>2, GrownKeeps
  <1>c. live[h] => \A i \in 1..Len(log) : log[i].md # exitEvent[h]
    <2>1. Len(log) \in Nat /\ Len(events) \in Nat /\ Len(log) >= Len(events)
      BY <1>3, <1>7, LenProperties DEF Grown
    <2>2. error # exitEvent[h]
      BY <1>0, <1>5, <1>6
    <2>3. live[h] => \A i \in 1..Len(events) : log[i].md # exitEvent[h]
      BY <1>7 DEF Grown, HopInv, Fresh
    <2>4. \A i \in Len(events) + 1..Len(log) : log[i].md # exitEvent[h]
      BY <1>7, <2>2 DEF Grown
    <2> QED
      BY <2>1, <2>3, <2>4
  \* The exit event is the final, and the only one with its metadata.
  <1>15. ASSUME sampling, live[h], exitEvent[h] \notin lost
         PROVE  /\ Len(events') \in Nat /\ Len(events') > Len(events) /\ Len(events) \in Nat
                /\ events'[Len(events')] = ReportOf(exitEvent[h], edges)
                /\ \A i \in 1..Len(events') : events'[i].md = exitEvent[h] => i = Len(events')
    <2>0. /\ events \in Seq(Reports) /\ exitEvent[h] \in MDs /\ edges \in SUBSET MDs
          /\ events' = Reported(log, exitEvent[h], edges, lost)
      BY <1>1, <1>3, <1>5, <1>15
    <2>1. /\ Len(events') = Len(log) + 1
          /\ events'[Len(events')] = ReportOf(exitEvent[h], edges)
          /\ \A i \in 1..Len(log) : events'[i] = log[i]
      <3>1. log \in Seq(Reports)
        BY <1>7 DEF Grown
      <3>2. Added(events', log, ReportOf(exitEvent[h], edges))
        BY <1>15, <2>0, <3>1, ReportAdds
      <3> QED
        BY <3>2 DEF Added
    <2>2. Len(log) \in Nat /\ Len(events) \in Nat /\ Len(log) >= Len(events)
      BY <1>3, <1>7, LenProperties DEF Grown
    <2> QED
      BY <1>15, <1>c, <2>1, <2>2
  <1>16. ASSUME NEW k \in HopSet, NEW n \in HopSet, sampling, k > h - 1, n = k + 1, n \in joined,
                SameTrace(k, n), Arrived(n), NEW i \in 1..Len(events'), events'[i].md = exitEvent[k]
         PROVE  Leads(events', i, exitEvent[n])
    <2>1. CASE k # h
      <3>1. k > depth
        BY <1>1, <1>2, <1>16, <2>1 DEF HopSet
      <3>2. i \in 1..Len(events)
        <4>1. error # exitEvent[k] /\ exitEvent[h] # exitEvent[k]
          BY <1>0, <1>5, <1>6, <1>16, <2>1 DEF HopInv, Fresh, SameTrace
        <4>2. events'[i].md \notin new
          BY <1>16, <4>1
        <4> QED
          BY <1>3, <1>8, <4>2, LenProperties DEF Grown
      <3>3. events[i].md = exitEvent[k]
        BY <1>8, <1>16, <3>2 DEF Grown
      <3>4. Leads(events, i, exitEvent[n])
        BY <1>16, <3>1, <3>2, <3>3 DEF HopInv, Linked
      <3> QED
        BY <1>3, <1>8, <3>2, <3>4, GrownKeeps
    <2>2. CASE k = h
      <3>1. live[h] /\ exitEvent[n] # NoMD /\ exitEvent[n].trace = exitEvent[h].trace
        BY <1>4, <1>16, <2>2 DEF SameTrace
      <3>a. exitEvent[h] \notin lost
        <4>1. exitEvent[h] \in lost => events' = log
          BY <1>1, <3>1 DEF Reported
        <4> QED
          BY <1>16, <1>c, <2>2, <3>1, <4>1
      <3>2. /\ i = Len(events') /\ Len(events') > Len(events) /\ Len(events) \in Nat /\ i \in Nat
            /\ events'[i].edges = {e \in edges : e.trace = exitEvent[h].trace}
        BY <1>15, <1>16, <2>2, <3>1, <3>a DEF ReportOf
      <3>3. endEdges[h] \subseteq edges
        BY DEF edges
      <3>4. \A j \in 1..Len(events) : events'[j] = events[j]
        BY <1>8 DEF Grown
      <3>5. Promise(events, endEdges[h], exitEvent[h].trace, exitEvent[n])
        BY <1>1, <1>2, <1>16, <2>2 DEF HopInv, Promised
      <3>6. CASE exitEvent[n] \in endEdges[h]
        <4>1. Ended(n)
          BY <1>1, <1>2, <1>3, <1>16, <2>2, <3>1 DEF Ended
        <4>2. PICK m \in 1..Len(events) : events[m].md = exitEvent[n]
          BY <1>16, <4>1 DEF HopInv, Told, Has, Arrived
        <4>3. m \in 1..i - 1 /\ events'[m].md = exitEvent[n] /\ exitEvent[n] \in events'[i].edges
          BY <3>1, <3>2, <3>3, <3>4, <3>6, <4>2
        <4> QED
          BY <4>3 DEF Leads
      <3>7. CASE exitEvent[n] \notin endEdges[h]
        <4>1. PICK j \in 1..Len(events), m \in 1..Len(events) :
                 /\ m < j /\ events[m].md = exitEvent[n] /\ exitEvent[n] \in events[j].edges
                 /\ events[j].md \in endEdges[h] /\ events[j].md.trace = exitEvent[h].trace
          BY <3>5, <3>7 DEF Promise
        <4>2. /\ m \in 1..i - 1 /\ j \in m + 1..i - 1 /\ events'[m].md = exitEvent[n]
              /\ exitEvent[n] \in events'[j].edges /\ events'[j].md \in events'[i].edges
          BY <3>2, <3>3, <3>4, <4>1
        <4> QED
          BY <4>2 DEF Leads
      <3> QED
        BY <3>6, <3>7
    <2> QED
      BY <2>1, <2>2
  <1>17. Linked'
    BY <1>1, <1>16, <1>b DEF Linked, SameTrace
  <1>18. Told'
    <2> SUFFICES ASSUME NEW k \in HopSet, sampling, k <= called, k > h - 1, exitEvent[k] # NoMD,
                        exitEvent[k] \notin dropped \cup lost
                 PROVE  Has(events', exitEvent[k])
      BY <1>1 DEF Told, Ended
    <2>1. CASE k = h
      <3>1. Len(events') \in 1..Len(events') /\ events'[Len(events')].md = exitEvent[k]
        BY <1>4, <1>15, <2>1 DEF ReportOf
      <3> QED
        BY <3>1 DEF Has
    <2>2. CASE k # h
      <3>1. Ended(k)
        BY <1>1, <1>2, <2>2 DEF Ended, HopSet
      <3>2. Has(events, exitEvent[k])
        BY <3>1 DEF HopInv, Told
      <3> QED
        BY <1>3, <1>8, <3>2, GrownKeeps
    <2> QED
      BY <2>1, <2>2
  <1>19. Used'
    <2>1. \A k \in joined : k \in Nat /\ (k > h => k > h - 1)
      BY <1>2, <1>3
    <2>2. link[h] # "wrap" => h \notin joined
      BY <1>1, <1>2 DEF HopInv, Used
    <2>3. depth' + 1 = h /\ (mode' = "answer" => link[h] # "wrap")
      BY <1>1, <1>2
    <2> QED
      BY <1>1, <2>1, <2>2, <2>3 DEF HopInv, Used
  <1> QED
    BY <1>9, <1>10, <1>11, <1>12, <1>13, <1>14, <1>17, <1>18, <1>19 DEF HopInv

\* The caller takes the response: what a client span adds, and what a proxy copies.
LEMMA TakeHop ==
  ASSUME HandlerInv, HopInv, NEW h \in HopSet, TakeResponse(h)
  PROVE  HopInv'
  <1> USE HandlersAssumption
  <1> DEFINE n == h + 1
             md == IF n \in failed THEN NoMD ELSE sent[n].md
             error == NewMD(ctx[h].trace, 1)
             exit == NewMD(ctx[h].trace, 2)
             LogOf(lost) == IF n \in failed THEN Reported(events, error, {client[n]}, lost) ELSE events
             final == IF n \in failed THEN error ELSE client[n]
  <1>0. ids \in Nat /\ ids' = ids + 2
    BY DEF TakeResponse, HandlerInv, HandlerTypes
  <1>a. PICK lost :
           /\ depth = h /\ mode = "answer" /\ mode' = "run"
           /\ \/ /\ link[n] = "client"
                 /\ events' = Reported(LogOf(lost), exit, {final, md}, lost)
                 /\ dropped' = dropped \cup lost
                 /\ client' = [client EXCEPT ![n] = exit]
                 /\ endEdges' = [endEdges EXCEPT ![h] = @ \cup {exit}]
                 /\ joined' = IF n \in failed \/ writes[n] = 0 THEN joined ELSE joined \cup {n}
                 /\ UNCHANGED rspMD
              \/ /\ link[n] = "client"
                 /\ UNCHANGED <<events, dropped, client, endEdges, joined, rspMD>>
              \/ /\ link[n] = "forward"
                 /\ rspMD' = IF md = NoMD THEN rspMD ELSE [rspMD EXCEPT ![Base(h)] = md]
                 /\ UNCHANGED <<events, dropped, client, endEdges, joined>>
           /\ UNCHANGED <<sampling, link, called, depth, live, ctx, exitEvent, reqMD, sent, writes, failed>>
    BY DEF TakeResponse
  <1> DEFINE log == LogOf(lost)
  <1>1. /\ depth = h /\ mode = "answer" /\ mode' = "run"
        /\ \/ /\ link[n] = "client"
              /\ events' = Reported(log, exit, {final, md}, lost)
              /\ dropped' = dropped \cup lost
              /\ client' = [client EXCEPT ![n] = exit]
              /\ endEdges' = [endEdges EXCEPT ![h] = @ \cup {exit}]
              /\ joined' = IF n \in failed \/ writes[n] = 0 THEN joined ELSE joined \cup {n}
              /\ UNCHANGED rspMD
           \/ /\ link[n] = "client"
              /\ UNCHANGED <<events, dropped, client, endEdges, joined, rspMD>>
           \/ /\ link[n] = "forward"
              /\ rspMD' = IF md = NoMD THEN rspMD ELSE [rspMD EXCEPT ![Base(h)] = md]
              /\ UNCHANGED <<events, dropped, client, endEdges, joined>>
        /\ UNCHANGED <<sampling, link, called, depth, live, ctx, exitEvent, reqMD, sent, writes, failed>>
    BY <1>a
  <1>2. /\ called \in 0..Hops /\ h \in Nat /\ n \in 2..called /\ n \in HopSet
        /\ writes \in [HopSet -> 0..MaxWrites]
    <2>1. depth = h /\ mode = "answer" /\ h \in 1..Hops
      BY <1>1 DEF HopSet
    <2>2. /\ called \in 0..Hops /\ depth \in 0..called /\ (mode = "answer" => depth + 1 <= called)
          /\ writes \in [HopSet -> 0..MaxWrites]
      BY DEF HandlerInv, HandlerTypes, HandlersTypeOK, HopInv, HopTypes
    <2>3. h \in Nat /\ n \in 2..called
      BY <2>1, <2>2
    <2> QED
      BY <2>2, <2>3 DEF HopSet
  <1>3. /\ exitEvent \in [HopSet -> MDs] /\ rspMD \in [HopSet -> MDs] /\ ctx \in [HopSet -> MDs]
        /\ endEdges \in [HopSet -> SUBSET MDs] /\ sent \in [HopSet -> SentResponses]
        /\ joined \subseteq 2..called /\ events \in Seq(Reports) /\ client \in [HopSet -> MDs]
    BY DEF HopInv, HopTypes
  <1>4. /\ error \in MDs /\ exit \in MDs /\ error.id = ids + 1 /\ exit.id = ids + 2
        /\ exit.trace = ctx[h].trace /\ md \in MDs /\ final \in MDs
    <2>1. ctx[h] \in MDs /\ ctx[h].trace \in Nat /\ client[n] \in MDs /\ sent[n] \in SentResponses
      BY <1>2, <1>3 DEF MDs
    <2>2. error \in MDs /\ exit \in MDs /\ error.id = ids + 1 /\ exit.id = ids + 2
          /\ exit.trace = ctx[h].trace
      BY <1>0, <2>1 DEF NewMD, MDs
    <2>3. md \in MDs
      BY <2>1 DEF SentResponses, NoMD, MDs
    <2> QED
      BY <2>1, <2>2, <2>3
  <1> HIDE DEF error, exit, final
  <1>5. Grown(log, events, Later(2)) /\ (n \notin failed => log = events)
    <2>1. Grown(events, events, {})
      BY <1>3, LenProperties DEF Grown
    <2>2. {client[n]} \in SUBSET MDs
      BY <1>2, <1>3
    <2>3. Grown(Reported(events, error, {client[n]}, lost), events, {} \cup {error})
      BY <1>3, <1>4, <2>1, <2>2, ReportGrows
    <2>4. {} \cup {error} \subseteq Later(2)
      BY <1>0, <1>4 DEF Later
    <2>5. Grown(events, events, Later(2))
      BY <2>1, GrownWeaker
    <2>6. Grown(Reported(events, error, {client[n]}, lost), events, Later(2))
      BY <2>3, <2>4, GrownWeaker
    <2> QED
      BY <2>5, <2>6
  <1> HIDE DEF log, md
  <1>6. Grown(events', events, Later(2))
    <2>1. Grown(Reported(log, exit, {final, md}, lost), events, Later(2))
      <3>1. {final, md} \in SUBSET MDs
        BY <1>4
      <3>2. Grown(Reported(log, exit, {final, md}, lost), events, Later(2) \cup {exit})
        BY <1>3, <1>4, <1>5, <3>1, ReportGrows
      <3>3. Later(2) \cup {exit} \subseteq Later(2)
        BY <1>0, <1>4 DEF Later
      <3> QED
        BY <3>2, <3>3, GrownWeaker
    <2>2. Grown(events, events, Later(2))
      BY <1>3, LenProperties DEF Grown
    <2> QED
      BY <1>1, <2>1, <2>2
  <1>7. \A k \in HopSet : endEdges[k] \subseteq endEdges'[k]
    BY <1>1, <1>3
  <1>b. \A k \in HopSet : k # n /\ Arrived(k)' => Arrived(k)
    BY <1>1, <1>2, <1>3 DEF Arrived
  <1>c. /\ dropped \subseteq dropped'
        /\ client' = client \/ client' = [client EXCEPT ![n] = exit]
    BY <1>1
  <1>8. HopTypes'
    <2>1. endEdges' \in [HopSet -> SUBSET MDs]
      BY <1>1, <1>3, <1>4
    <2>2. rspMD' \in [HopSet -> MDs]
      BY <1>1, <1>3, <1>4
    <2>3. joined' \subseteq 2..called
      <3>1. joined' \in {joined, joined \cup {n}}
        BY <1>1
      <3> QED
        BY <1>2, <1>3, <3>1
    <2>4. events' \in Seq(Reports) /\ client' \in [HopSet -> MDs]
      BY <1>3, <1>4, <1>6, <1>c DEF Grown
    <2> QED
      BY <1>1, <2>1, <2>2, <2>3, <2>4 DEF HopInv, HopTypes
  <1>9. Traces' /\ Announced'
    BY <1>1 DEF HopInv, Traces, SameTrace, Announced
  <1>10. \A k \in HopSet : exitEvent[k].id \in Nat /\ exitEvent[k].id <= ids
    <2>1. \A k \in HopSet : exitEvent[k] \in MDs
      BY <1>3
    <2> QED
      BY <2>1 DEF HopInv, Fresh, MDs
  <1>11. /\ Later(2) \in SUBSET MDs
         /\ \A m \in Later(2) : m.id \in Nat /\ m.id <= ids + 2 /\ m.id > ids
    BY <1>0 DEF Later, MDs
  <1>12. \A m \in Later(2), k \in HopSet : m # exitEvent[k]
    BY <1>0, <1>10, <1>11
  <1>13. Fresh'
    <2>1. HopTypes /\ Fresh /\ exitEvent' = exitEvent /\ \A k \in HopSet : live'[k] => live[k]
      BY <1>1 DEF HopInv
    <2> QED
      BY <1>0, <1>6, <1>11, <1>12, <2>1, FreshGrows
  <1>14. \A k \in HopSet : SameTrace(k, n) /\ writes[n] > 0 /\ n \notin failed => md = exitEvent[n]
    BY <1>2 DEF HopInv, Announced, SameTrace, md
  <1>15. Copied'
    <2> SUFFICES ASSUME link[n] = "forward", n \notin failed, writes[n] > 0, exitEvent[n] # NoMD
                 PROVE  rspMD'[Base(h)] = exitEvent[n]
      <3>1. /\ depth' = h /\ UNCHANGED <<link, called, exitEvent, writes, failed>>
            /\ \A k \in HopSet : Base(k)' = Base(k)
        BY <1>1 DEF Base
      <3> QED
        BY <3>1 DEF Copied
    <2>1. md = exitEvent[n]
      BY <1>2 DEF HopInv, Announced, md
    <2>2. Base(h) \in HopSet
      BY BaseOf DEF HandlerInv
    <2>3. rspMD' = [rspMD EXCEPT ![Base(h)] = md]
      BY <1>1, <2>1
    <2> QED
      BY <1>3, <2>1, <2>2, <2>3
  <1>16. Promised'
    <2> SUFFICES ASSUME NEW k \in HopSet, NEW m \in HopSet, sampling, k <= h, m = k + 1, m \in joined',
                        SameTrace(k, m), Arrived(m)'
                 PROVE  Promise(events', endEdges'[k], exitEvent[k].trace, exitEvent[m])
      BY <1>1 DEF Promised, SameTrace
    <2>1. CASE m \in joined
      <3>1. m # n
        BY <1>1, <2>1 DEF HopInv, Used
      <3>2. Arrived(m) /\ k <= depth
        BY <1>1, <1>b, <3>1
      <3>3. Promise(events, endEdges[k], exitEvent[k].trace, exitEvent[m])
        BY <2>1, <3>2 DEF HopInv, Promised
      <3> QED
        BY <1>3, <1>6, <1>7, <3>3, GrownKeeps
    <2>2. CASE m \notin joined
      <3>1. /\ m = n /\ k = h /\ n \notin failed /\ writes[n] > 0
            /\ events' = Reported(log, exit, {final, md}, lost) /\ exit \notin lost
            /\ exit \in endEdges'[h] /\ exitEvent[n] \notin dropped
        <4>a. joined' # joined
          BY <2>2
        <4>1. m = n /\ n \notin failed /\ writes[n] # 0
              /\ events' = Reported(log, exit, {final, md}, lost) /\ dropped' = dropped \cup lost
              /\ client' = [client EXCEPT ![n] = exit]
              /\ endEdges' = [endEdges EXCEPT ![h] = @ \cup {exit}]
          BY <1>1, <2>2, <4>a
        <4>2. writes[n] > 0 /\ k = h
          BY <1>2, <4>1 DEF HopSet
        <4>3. exit \notin lost /\ exitEvent[n] \notin dropped
          BY <1>1, <1>2, <1>3, <2>2, <4>1 DEF Arrived
        <4> QED
          BY <1>3, <4>1, <4>2, <4>3
      <3>2. md = exitEvent[n] /\ log = events
        BY <1>5, <1>14, <3>1
      <3>3. Added(events', events, ReportOf(exit, {final, md}))
        <4>1. {final, md} \in SUBSET MDs
          BY <1>4
        <4> QED
          BY <1>3, <1>4, <3>1, <3>2, <4>1, ReportAdds
      <3>4. exit.trace = exitEvent[h].trace /\ exitEvent[n].trace = exit.trace
        BY <1>4, <3>1 DEF SameTrace, HopInv, Traces
      <3>5. Has(events, exitEvent[n])
        <4>1. Ended(n)
          BY <1>1, <1>2, <3>1 DEF Ended, SameTrace
        <4> QED
          BY <1>2, <3>1, <4>1 DEF HopInv, Told
      <3>6. PICK i \in 1..Len(events) : events[i].md = exitEvent[n]
        BY <3>5 DEF Has
      <3> DEFINE j == Len(events) + 1
      <3>7. /\ j \in 1..Len(events') /\ i \in 1..Len(events') /\ i < j
            /\ events'[i].md = exitEvent[n]
        BY <1>3, <3>3, <3>6, LenProperties DEF Added
      <3>8. events'[j].md = exit /\ exitEvent[n] \in events'[j].edges
        BY <3>2, <3>3, <3>4 DEF Added, ReportOf
      <3> QED
        BY <3>1, <3>4, <3>7, <3>8 DEF Promise
    <2> QED
      BY <2>1, <2>2
  <1>17. Linked'
    <2> SUFFICES ASSUME NEW k \in HopSet, NEW m \in HopSet, sampling, k > h, m = k + 1, m \in joined',
                        SameTrace(k, m), Arrived(m)', NEW i \in 1..Len(events'), events'[i].md = exitEvent[k]
                 PROVE  Leads(events', i, exitEvent[m])
      BY <1>1 DEF Linked, SameTrace
    <2>1. m \in joined /\ Arrived(m)
      <3>1. m # n
        BY <1>2 DEF HopSet
      <3> QED
        BY <1>1, <1>b, <3>1
    <2>2. i \in 1..Len(events) /\ events'[i] = events[i]
      <3>1. events'[i].md \notin Later(2)
        BY <1>12
      <3> QED
        BY <1>3, <1>6, <3>1, LenProperties DEF Grown
    <2>3. Leads(events, i, exitEvent[m])
      BY <1>1, <2>1, <2>2 DEF HopInv, Linked
    <2> QED
      BY <1>3, <1>6, <2>2, <2>3, GrownKeeps
  <1>18. Told'
    <2> SUFFICES ASSUME NEW k \in HopSet, sampling, Ended(k), exitEvent[k] \notin dropped
                 PROVE  Has(events', exitEvent[k])
      BY <1>1, <1>c DEF Told, Ended
    <2>1. Has(events, exitEvent[k])
      BY DEF HopInv, Told
    <2> QED
      BY <1>3, <1>6, <2>1, GrownKeeps
  <1>19. Used'
    <2>1. \A k \in joined' : k \in joined \/ k = n
      BY <1>1
    <2>2. n > h
      BY <1>2
    <2> QED
      BY <1>1, <2>1, <2>2 DEF HopInv, Used
  <1> QED
    BY <1>8, <1>9, <1>13, <1>15, <1>16, <1>17, <1>18, <1>19 DEF HopInv

LEMMA HopInvNext == HandlerInv /\ HopInv /\ [HandlersNext]_handlerVars => HopInv'
  <1> SUFFICES ASSUME HandlerInv, HopInv, [HandlersNext]_handlerVars PROVE HopInv'
    OBVIOUS
  <1> USE HandlersAssumption
  <1>1. /\ ids \in Nat /\ events \in Seq(Reports) /\ ctx \in [HopSet -> MDs] /\ reqMD = ctx
        /\ client \in [HopSet -> MDs] /\ NoMD \in MDs
    BY DEF HandlerInv, HandlerTypes, HopInv, HopTypes, NoMD, MDs
  <1>2. Grown(events, events, Later(1))
    BY <1>1, LenProperties DEF Grown
  <1>3. CASE FirstRequest
    <2>1. called = 0 /\ depth = 0 /\ 1 \in HopSet /\ 1 = called + 1 /\ client' = client
      BY <1>3 DEF FirstRequest, HandlerInv, HandlerTypes, HandlersTypeOK, HopSet
    <2>2. PICK accepted \in BOOLEAN : Enter(1, events, NoMD, accepted)
      BY <1>3 DEF FirstRequest, Accepted
    <2> QED
      BY <1>1, <1>2, <2>1, <2>2, EnterHop
  <1>4. ASSUME NEW h \in HopSet, Call(h) PROVE HopInv'
    <2> DEFINE n == h + 1
               Log(span) == IF span = NoMD THEN events ELSE Reported(events, span, {ctx[h]}, {})
               MdOf(span) == IF link[n] = "client" THEN span ELSE reqMD[h]
    <2>1. mode = "run" /\ depth = h /\ called = h /\ n = called + 1 /\ n \in HopSet /\ n > 1 /\ n - 1 = h
      BY <1>4 DEF Call, HopSet
    <2>2. PICK span \in ClientSpans(h), accepted \in BOOLEAN :
             client' = [client EXCEPT ![n] = span] /\ Enter(n, Log(span), MdOf(span), accepted)
      BY <1>4 DEF Call, Accepted
    <2>a. span = NoMD \/ (live[h] /\ span = NewMD(ctx[h].trace, 1))
      BY DEF ClientSpans
    <2> DEFINE log == Log(span)
               md == MdOf(span)
    <2>3. ctx[h] \in MDs /\ ctx[h].trace \in Nat /\ reqMD[h] \in MDs
      BY <1>1 DEF MDs
    <2>4. span \in MDs /\ (span # NoMD => live[h] /\ span.trace = ctx[h].trace /\ span.id = ids + 1)
      BY <1>1, <2>a, <2>3 DEF NewMD, MDs
    <2>5. live[h] => exitEvent[h] # NoMD
      BY DEF HandlerInv, HandlerTypes, HandlersTypeOK
    <2>6. md \in MDs /\ (md # NoMD => exitEvent[h] # NoMD /\ md.trace = exitEvent[h].trace)
      BY <1>1, <2>3, <2>4, <2>5 DEF HopInv, Traces
    <2>7. Grown(log, events, Later(1))
      <3>1. {ctx[h]} \in SUBSET MDs
        BY <2>3
      <3>2. Grown(Reported(events, span, {ctx[h]}, {}), events, Later(1) \cup {span})
        BY <1>1, <1>2, <2>4, <3>1, ReportGrows
      <3>3. span # NoMD => Later(1) \cup {span} \subseteq Later(1)
        BY <1>1, <2>4 DEF Later
      <3> QED
        BY <1>2, <3>2, <3>3, GrownWeaker
    <2>8. client' \in [HopSet -> MDs] /\ \A k \in HopSet \ {n} : client'[k] = client[k]
      BY <1>1, <2>1, <2>2, <2>4
    <2>9. md # NoMD => n > 1 /\ exitEvent[n - 1] # NoMD /\ md.trace = exitEvent[n - 1].trace
      BY <2>1, <2>6
    <2>10. Enter(n, log, md, accepted)
      BY <2>2
    <2> HIDE DEF log, md, n
    <2> QED
      BY <2>1, <2>6, <2>7, <2>8, <2>9, <2>10, EnterHop
  <1>5. CASE UNCHANGED handlerVars
    <2>1. UNCHANGED <<sampling, link, called, depth, mode, live, ctx, exitEvent, endEdges, reqMD, rspMD,
                      client, sent, writes, events, dropped, joined, failed, ids>>
      BY <1>5 DEF handlerVars, traceVars, headerVars, historyVars
    <2>2. \A k \in HopSet : Base(k)' = Base(k)
      BY <2>1 DEF Base
    <2> QED
      BY <2>1, <2>2 DEF HopInv, HopTypes, Traces, Fresh, Announced, Copied, Promised, Linked, Told,
                        SameTrace, Ended, Arrived, Used
  <1> QED
    BY <1>3, <1>4, <1>5, WriteHop, LeaveHop, TakeHop DEF HandlersNext

\* The recursive definition of reach has a solution: one can be extended by one event more.
ReachOf(f, i) ==
  {events[i].md} \cup UNION {f[j] : j \in {k \in 1..i - 1 : events[k].md \in events[i].edges}}

ReachBelow(n, f) == f = [i \in 1..n |-> ReachOf(f, i)]

LEMMA ReachExtends ==
  ASSUME NEW m \in Nat, m # 0, NEW f, ReachBelow(m - 1, f)
  PROVE  \E g : ReachBelow(m, g)
  <1> DEFINE g == [i \in 1..m |-> IF i = m THEN ReachOf(f, m) ELSE f[i]]
  <1>1. \A i \in 1..m : i = m \/ i \in 1..m - 1
    OBVIOUS
  <1>2. \A i \in 1..m - 1 : f[i] = ReachOf(f, i)
    BY DEF ReachBelow
  <1>3. /\ g[m] = ReachOf(f, m)
        /\ \A i \in 1..m - 1 : g[i] = f[i]
    OBVIOUS
  <1>4. \A i \in 1..m : g[i] = ReachOf(f, i)
    BY <1>1, <1>2, <1>3
  <1>5. g = [i \in 1..m |-> g[i]]
    OBVIOUS
  <1> HIDE DEF g
  <1>6. ASSUME NEW i \in 1..m PROVE ReachOf(g, i) = ReachOf(f, i)
    <2> DEFINE earlier == {k \in 1..i - 1 : events[k].md \in events[i].edges}
    <2>1. \A j \in earlier : g[j] = f[j]
      BY <1>3
    <2> HIDE DEF earlier
    <2>2. {g[j] : j \in earlier} = {f[j] : j \in earlier}
      BY <2>1
    <2> QED
      BY <2>2 DEF ReachOf, earlier
  <1>7. \A i \in 1..m : g[i] = ReachOf(g, i)
    BY <1>4, <1>6
  <1>8. g = [i \in 1..m |-> ReachOf(g, i)]
    BY <1>5, <1>7
  <1> QED
    BY <1>8 DEF ReachBelow

LEMMA ReachExists ==
  ASSUME NEW n \in Nat
  PROVE  \E f : ReachBelow(n, f)
  <1> DEFINE Lacking == {m \in Nat : ~\E f : ReachBelow(m, f)}
  <1> SUFFICES ASSUME Lacking # {} PROVE FALSE
    OBVIOUS
  <1>1. Min(Lacking) \in Lacking /\ \A m \in Lacking : Min(Lacking) <= m
    BY LeastExists
  <1>2. PICK m \in Nat : (~\E f : ReachBelow(m, f)) /\ \A x \in Lacking : m <= x
    BY <1>1
  <1>3. m # 0
    <2>1. ReachBelow(0, [i \in 1..0 |-> {}])
      BY DEF ReachBelow
    <2> QED
      BY <1>2, <2>1
  <1>4. m - 1 \in Nat /\ m - 1 \notin Lacking
    <2> HIDE DEF Lacking
    <2> QED
      BY <1>2, <1>3
  <1>5. PICK f : ReachBelow(m - 1, f)
    BY <1>4
  <1> QED
    BY <1>2, <1>3, <1>5, ReachExtends

LEMMA ReachEdges ==
  ASSUME events \in Seq(Reports)
  PROVE  \A i \in 1..Len(events) :
           /\ events[i].md \in reach[i]
           /\ \A k \in 1..i - 1 : events[k].md \in events[i].edges => reach[k] \subseteq reach[i]
  <1>1. Len(events) \in Nat
    BY LenProperties
  <1>2. PICK f : ReachBelow(Len(events), f)
    BY <1>1, ReachExists
  <1>3. ReachBelow(Len(events), reach)
    BY <1>2 DEF reach, ReachBelow, ReachOf
  <1>4. \A i \in 1..Len(events) : reach[i] = ReachOf(reach, i)
    BY <1>3 DEF ReachBelow
  <1> QED
    BY <1>4 DEF ReachOf

\* A handler of the outermost one's trace goes on with the trace of the one that called it.
LEMMA OneTrace ==
  ASSUME HopInv, NEW b \in HopSet, NEW h \in HopSet, b <= h, SameTrace(b, h)
  PROVE  \A m \in b + 1..h : SameTrace(m - 1, m)
  <1> DEFINE Others == {m \in b..h : ~SameTrace(b, m)}
  <1>1. b \in Nat /\ h \in Nat /\ b \in 1..Hops /\ h \in 1..Hops
    BY HandlersAssumption DEF HopSet
  <1>2. exitEvent[b] # NoMD /\ exitEvent[b].trace \in 1..b
    BY DEF SameTrace, HopInv, Traces
  <1>3. ASSUME NEW m \in b + 1..h, SameTrace(b, m) PROVE SameTrace(m - 1, m)
    <2>1. m \in HopSet
      BY <1>1, <1>3, HandlersAssumption DEF HopSet
    <2>2. exitEvent[m] # NoMD /\ exitEvent[m].trace # m
      BY <1>1, <1>2, <1>3 DEF SameTrace
    <2> QED
      BY <2>1, <2>2 DEF HopInv, Traces
  <1>4. Others = {}
    <2> SUFFICES ASSUME Others # {} PROVE FALSE
      OBVIOUS
    <2>1. Others \in SUBSET (1..h)
      BY <1>1
    <2>2. PICK m \in b..h : ~SameTrace(b, m) /\ \A x \in Others : x <= m
      <3>1. Max(Others) \in Others /\ \A x \in Others : x <= Max(Others)
        <4> HIDE DEF Others
        <4> QED
          BY <1>1, <2>1, GreatestExists
      <3> QED
        BY <3>1
    <2>3. m # h /\ m + 1 \in b + 1..h /\ m + 1 \in b..h
      BY <1>1, <2>2
    <2>4. SameTrace(b, m + 1)
      <3>1. m + 1 \notin Others
        <4> HIDE DEF Others
        <4> QED
          BY <2>2
      <3> QED
        BY <2>3, <3>1
    <2>5. SameTrace((m + 1) - 1, m + 1)
      BY <1>3, <2>3, <2>4
    <2>6. (m + 1) - 1 = m
      BY <1>1
    <2> QED
      BY <2>2, <2>4, <2>5, <2>6 DEF SameTrace
  <1> QED
    BY <1>1, <1>3, <1>4

\* From the exit event of a handler that has left, those of the handlers inside it, as long as
\* every response on the way was used.
LEMMA PathDown ==
  ASSUME HandlerInv, HopInv, sampling, NEW b \in HopSet, NEW h \in HopSet, depth < b, b < h,
         b + 1..h \subseteq joined, \A k \in b + 1..h : Arrived(k), SameTrace(b, h),
         NEW i \in 1..Len(events), events[i].md = exitEvent[b]
  PROVE  exitEvent[h] \in reach[i]
  <1> DEFINE Reached(m) == \E j \in 1..Len(events) : events[j].md = exitEvent[m] /\ reach[j] \subseteq reach[i]
             Missed == {m \in b..h : ~Reached(m)}
  <1>1. b \in Nat /\ h \in Nat /\ b \in 1..Hops /\ h \in 1..Hops /\ Hops \in Nat
    BY HandlersAssumption DEF HopSet
  <1>2. events \in Seq(Reports) /\ Len(events) \in Nat /\ called \in Nat /\ depth \in Nat
    <2>1. events \in Seq(Reports)
      BY DEF HopInv, HopTypes
    <2>2. called \in Nat /\ depth \in Nat
      BY DEF HandlerInv, HandlerTypes, HandlersTypeOK
    <2> QED
      BY <2>1, <2>2, LenProperties
  <1>3. Reached(b)
    OBVIOUS
  <1>4. ASSUME NEW m \in b + 1..h, Reached(m - 1) PROVE Reached(m)
    <2>1. m \in HopSet /\ m - 1 \in HopSet /\ m - 1 > depth /\ m = (m - 1) + 1 /\ m \in joined
      BY <1>1, <1>2, <1>4 DEF HopSet
    <2>2. SameTrace(m - 1, m)
      BY <1>1, <1>4, OneTrace
    <2>3. PICK j \in 1..Len(events) : events[j].md = exitEvent[m - 1] /\ reach[j] \subseteq reach[i]
      BY <1>4
    <2>4. Leads(events, j, exitEvent[m])
      BY <2>1, <2>2, <2>3 DEF HopInv, Linked
    <2>5. PICK k \in 1..j - 1 :
             /\ events[k].md = exitEvent[m]
             /\ \/ exitEvent[m] \in events[j].edges
                \/ \E c \in k + 1..j - 1 : events[c].md \in events[j].edges /\ exitEvent[m] \in events[c].edges
      BY <2>4 DEF Leads
    <2>6. k \in 1..Len(events)
      BY <1>2
    <2>7. reach[k] \subseteq reach[j]
      <3>1. CASE exitEvent[m] \in events[j].edges
        BY <1>2, <2>5, <3>1, ReachEdges
      <3>2. ASSUME NEW c \in k + 1..j - 1, events[c].md \in events[j].edges, exitEvent[m] \in events[c].edges
            PROVE  reach[k] \subseteq reach[j]
        <4>1. c \in 1..Len(events) /\ c \in 1..j - 1 /\ k \in 1..c - 1
          BY <1>2
        <4>2. reach[k] \subseteq reach[c]
          BY <1>2, <2>5, <3>2, <4>1, ReachEdges
        <4>3. reach[c] \subseteq reach[j]
          BY <1>2, <3>2, <4>1, ReachEdges
        <4> QED
          BY <4>2, <4>3
      <3> QED
        BY <2>5, <3>1, <3>2
    <2> QED
      BY <2>3, <2>5, <2>6, <2>7
  <1> HIDE DEF Reached
  <1>5. Missed = {}
    <2> SUFFICES ASSUME Missed # {} PROVE FALSE
      OBVIOUS
    <2>1. Missed \in SUBSET Nat
      BY <1>1
    <2>2. PICK m \in b..h : ~Reached(m) /\ \A x \in Missed : m <= x
      <3>1. Min(Missed) \in Missed /\ \A x \in Missed : Min(Missed) <= x
        <4> HIDE DEF Missed
        <4> QED
          BY <2>1, LeastExists
      <3> QED
        BY <3>1
    <2>3. m \in b + 1..h /\ m - 1 \in b..h
      BY <1>1, <1>3, <2>2
    <2>4. Reached(m - 1)
      <3>1. m - 1 \notin Missed
        <4> HIDE DEF Missed
        <4> QED
          BY <1>1, <2>2
      <3> QED
        BY <2>3, <3>1
    <2> QED
      BY <1>4, <2>2, <2>3, <2>4
  <1>6. Reached(h)
    BY <1>1, <1>5
  <1>7. PICK j \in 1..Len(events) : events[j].md = exitEvent[h] /\ reach[j] \subseteq reach[i]
    BY <1>6 DEF Reached
  <1> QED
    BY <1>2, <1>7, ReachEdges

LEMMA HopsConnect == HandlerInv /\ HopInv => HopsConnected
  <1> SUFFICES ASSUME HandlerInv, HopInv, NEW b \in HopSet, Ended(b), link[b] # "wrap"
               PROVE  /\ writes[b] > 0 => sent[b].md = exitEvent[b]
                      /\ sampling /\ exitEvent[b] \notin dropped => \E i \in 1..Len(events) :
                           /\ events[i].md = exitEvent[b]
                           /\ \A h \in b + 1..called :
                                /\ Ended(h) /\ exitEvent[h].trace = exitEvent[b].trace
                                /\ b + 1..h \subseteq joined /\ \A k \in b + 1..h : Arrived(k)
                                => exitEvent[h] \in reach[i]
    BY DEF HopsConnected
  <1>1. writes[b] > 0 => sent[b].md = exitEvent[b]
    BY DEF HopInv, Announced, Ended
  <1>2. ASSUME sampling, exitEvent[b] \notin dropped
        PROVE  \E i \in 1..Len(events) :
                 /\ events[i].md = exitEvent[b]
                 /\ \A h \in b + 1..called :
                      /\ Ended(h) /\ exitEvent[h].trace = exitEvent[b].trace
                      /\ b + 1..h \subseteq joined /\ \A k \in b + 1..h : Arrived(k)
                      => exitEvent[h] \in reach[i]
    <2>1. PICK i \in 1..Len(events) : events[i].md = exitEvent[b]
      BY <1>2 DEF HopInv, Told, Has
    <2>2. called \in 0..Hops /\ depth \in 0..called /\ Hops \in Nat /\ b \in Nat
      BY HandlersAssumption DEF HandlerInv, HandlerTypes, HandlersTypeOK, HopSet
    <2>3. ASSUME NEW h \in b + 1..called, b + 1..h \subseteq joined, Ended(h),
                 \A k \in b + 1..h : Arrived(k), exitEvent[h].trace = exitEvent[b].trace
          PROVE  exitEvent[h] \in reach[i]
      <3>1. h \in HopSet /\ b < h /\ depth < b
        BY <2>2 DEF HopSet, Ended
      <3>2. SameTrace(b, h)
        BY <2>3 DEF SameTrace, Ended
      <3> QED
        BY <1>2, <2>1, <2>3, <3>1, <3>2, PathDown
    <2> QED
      BY <2>1, <2>3
  <1> QED
    BY <1>1, <1>2

\* Whatever handlers call each other, as wrapped handlers, clients or proxies, in any depth,
\* whichever panic, and whatever events of handlers and client spans a full channel refuses: from
\* the exit event that a client learns, if it was sent, every exit event of its trace whose
\* response was used can be reached along the edges unless an exit event on the way was refused,
\* and every request to a process is measured once.
THEOREM HandlersAccountRequests == HandlersSpec => []RequestAccounted
  <1>1. HandlerInv /\ HopInv => RequestAccounted
    BY HopsConnect DEF HandlerInv, RequestAccounted
  <1> QED
    BY <1>1, HandlerInvInit, HandlerInvNext, HopInvInit, HopInvNext, PTL DEF HandlersSpec

-----------------------------------------------------------------------------
(* The parts side by side. *)

SamplingRunInv == SamplingInv /\ TypeOK /\ HandlerInv

\* A step of one part is a stuttering step of the others.
LEMMA SamplingPartsStep ==
  [MCNext]_MCvars => [SampleNext]_sampleVars /\ [Next]_vars /\ [HandlersNext]_handlerVars
  BY DEF MCNext, MCvars

\* The types of every part, whichever part runs (oboe.go:47-80, :188-209,
\* http_instrumentation.go:85-151).
THEOREM SamplingRunTypeCorrect == MCSpec => []SamplingRunTypes
  <1>1. MCInit => SamplingRunInv
    BY SamplingInvInit, InitTypes, HandlerInvInit DEF MCInit, SamplingRunInv
  <1>2. SamplingRunInv /\ [MCNext]_MCvars => SamplingRunInv'
    BY SamplingPartsStep, SamplingInvNext, TypeStep, HandlerInvNext DEF SamplingRunInv
  <1>3. SamplingRunInv => SamplingRunTypes
    BY DEF SamplingRunInv, SamplingRunTypes, SamplingInv, HandlerInv, HandlerTypes
  <1> QED
    BY <1>1, <1>2, <1>3, PTL DEF MCSpec

-----------------------------------------------------------------------------
(* Metadata: what is packed, unpacked, continued and reported. *)

Bytes == Seq(Byte)

\* Metadata as contexts and events have it; ids may have more bytes than count.
MD == [version : {Version}, taskLen : {4, 8, 12, 20}, opLen : {4, 8},
       task : Bytes, op : Bytes, flags : Byte]

\* Metadata of a context.
Whole(md) == md \in MD /\ Len(md.task) = md.taskLen /\ Len(md.op) = md.opLen

MetadataTypes ==
  /\ read \in Headers \cup {NoHeader} /\ responses \subseteq ResponseHeaders
  /\ contexts \in Seq(MD) /\ Len(contexts) <= 2
  /\ \A c \in 1..Len(contexts) : Whole(contexts[c])
  /\ reports \in Seq([xtrace : Bytes, edges : SUBSET Bytes])
  /\ contexts = <<>> => reports = <<>>

\* Before the first event the context is the header, sampled or no longer.
AsRead ==
  reports = <<>> /\ Len(contexts) = 1 /\ Readable(read) =>
    LET md == Unpack(read.bytes)
    IN contexts[1] = md \/ (IsSampled(md) /\ contexts[1] = [md EXCEPT !.flags = @ - 1])

\* Contexts are in the trace of the request.  There are events only with ids of full length, and
\* an id of full length that belongs to a sampled trace is not zero.
InTrace ==
  /\ Readable(read) => \A c \in 1..Len(contexts) :
                          Fit(contexts[c].task, TaskLen) = Fit(TaskOf(read.bytes), TaskLen)
  /\ \A c \in 1..Len(contexts) :
       /\ reports # <<>> => contexts[c].taskLen = TaskLen
       /\ reports = <<>> /\ Len(contexts) = 2 => ~IsSampled(contexts[c])
       /\ IsSampled(contexts[c]) /\ contexts[c].taskLen = TaskLen => contexts[c].task # Zeros(TaskLen)

\* An edge to a context is one to the event that was its last, or to the request.
OpsKnown ==
  reports # <<>> \/ Readable(read) =>
    \A c \in 1..Len(contexts) : Fit(contexts[c].op, OpLen) \in EventOps(Len(reports)) \cup RequestOps

MetadataInv ==
  /\ MetadataTypes /\ AsRead /\ InTrace /\ OpsKnown
  /\ \A i \in 1..Len(reports) : ReportFaithful(i)

LEMMA FitProperties ==
  ASSUME NEW s \in Bytes, NEW n \in Nat
  PROVE  /\ Fit(s, n) \in Bytes /\ Len(Fit(s, n)) = n
         /\ \A i \in 1..n : Fit(s, n)[i] = IF i <= Len(s) THEN s[i] ELSE 0
  <1>1. Fit(s, n) = [i \in 1..n |-> IF i <= Len(s) THEN s[i] ELSE 0]
    BY DEF Fit
  <1>2. Len(s) \in Nat /\ \A i \in 1..Len(s) : s[i] \in Byte
    BY LenProperties, ElementOfSeq DEF Bytes
  <1>3. \A i \in 1..n : (IF i <= Len(s) THEN s[i] ELSE 0) \in Byte
    BY <1>2 DEF Byte
  <1>4. Fit(s, n) \in [1..n -> Byte]
    BY <1>1, <1>3
  <1>5. Fit(s, n) \in Seq(Byte) /\ Len(Fit(s, n)) = n
    BY <1>4
  <1> QED
    BY <1>1, <1>5 DEF Bytes

LEMMA FitSame ==
  ASSUME NEW s \in Bytes
  PROVE  Fit(s, Len(s)) = s
  <1>1. Len(s) \in Nat
    BY LenProperties DEF Bytes
  <1>2. /\ Fit(s, Len(s)) \in Seq(Byte) /\ Len(Fit(s, Len(s))) = Len(s)
        /\ \A i \in 1..Len(s) : Fit(s, Len(s))[i] = s[i]
    BY <1>1, FitProperties DEF Bytes
  <1> QED
    BY <1>2, SeqEqual DEF Bytes

\* The first byte announces the lengths.
LEMMA FirstByte ==
  ASSUME NEW t \in {4, 8, 12, 20}, NEW o \in {4, 8}
  PROVE  LET x == 2 * 16 + (o \div 4 - 1) * 8 + (IF t \div 4 - 1 = 4 THEN 3 ELSE t \div 4 - 1)
         IN /\ x \in 32..47 /\ x \div 16 = 2
            /\ (IF x % 4 = 3 THEN 20 ELSE 4 * ((x % 4) + 1)) = t
            /\ 4 * (((x \div 8) % 2) + 1) = o
            /\ (x \div 4) % 2 = 0
  BY SMT

\* Two first bytes that announce the same differ in the option bit.
LEMMA OptionBit ==
  ASSUME NEW x \in 32..47, NEW y \in 32..47, (y \div 4) % 2 = 0, x % 4 = y % 4,
         (x \div 8) % 2 = (y \div 8) % 2
  PROVE  x - y \in {0, 4}
  BY SMT

\* Lengths tell the bits that announce them.
LEMMA SameLengths ==
  ASSUME NEW x \in 32..47, NEW y \in 32..47,
         (IF y % 4 = 3 THEN 20 ELSE 4 * ((y % 4) + 1)) = (IF x % 4 = 3 THEN 20 ELSE 4 * ((x % 4) + 1)),
         4 * (((y \div 8) % 2) + 1) = 4 * (((x \div 8) % 2) + 1)
  PROVE  x % 4 = y % 4 /\ (x \div 8) % 2 = (y \div 8) % 2
  BY SMT

\* What is unpacked: the ids are the bytes the first one announces.
LEMMA UnpackProperties ==
  ASSUME NEW b \in Bytes, Unpackable(b)
  PROVE  LET md == Unpack(b) t == TaskLenOf(b) o == OpLenOf(b)
         IN /\ md \in MD /\ md.taskLen = t /\ md.opLen = o
            /\ Len(md.task) = t /\ \A i \in 1..t : md.task[i] = b[1 + i]
            /\ Len(md.op) = o /\ \A i \in 1..o : md.op[i] = b[1 + t + i]
            /\ md.flags = b[t + o + 2] /\ t + o + 2 <= Len(b)
  <1> DEFINE t == TaskLenOf(b)
             o == OpLenOf(b)
             md == Unpack(b)
  <1>1. Len(b) \in Nat /\ \A i \in 1..Len(b) : b[i] \in Byte
    BY LenProperties, ElementOfSeq DEF Bytes
  <1>2. 1 \in 1..Len(b)
    <2>1. Len(b) # 0
      BY EmptySeq DEF Unpackable, Bytes
    <2> QED
      BY <1>1, <2>1
  <1>3. b[1] \in 0..255
    BY <1>1, <1>2 DEF Byte
  <1>4. t \in {4, 8, 12, 20} /\ o \in {4, 8}
    BY <1>3 DEF TaskLenOf, OpLenOf
  <1>5. t + o + 2 <= Len(b)
    BY DEF Unpackable, PackedLen
  <1>6. md = [version |-> b[1] \div 16, taskLen |-> t, opLen |-> o, task |-> SubSeq(b, 2, t + 1),
              op |-> SubSeq(b, t + 2, t + o + 1), flags |-> b[t + o + 2]]
    BY DEF Unpack
  <1>7. b[1] \div 16 = Version
    BY DEF Unpackable
  <1> HIDE DEF t, o, md
  <1>8. /\ SubSeq(b, 2, t + 1) \in Seq(Byte) /\ Len(SubSeq(b, 2, t + 1)) = t
        /\ \A i \in 1..t : SubSeq(b, 2, t + 1)[i] = b[1 + i]
    <2>1. 2 \in Int /\ t + 1 \in Int /\ \A i \in 2..t + 1 : b[i] \in Byte
      BY <1>1, <1>4, <1>5
    <2>2. /\ SubSeq(b, 2, t + 1) \in Seq(Byte)
          /\ Len(SubSeq(b, 2, t + 1)) = IF 2 <= t + 1 THEN (t + 1) - 2 + 1 ELSE 0
          /\ \A i \in 1..(t + 1) - 2 + 1 : SubSeq(b, 2, t + 1)[i] = b[2 + i - 1]
      BY <2>1, SubSeqProperties
    <2> QED
      BY <1>4, <2>2
  <1>9. /\ SubSeq(b, t + 2, t + o + 1) \in Seq(Byte) /\ Len(SubSeq(b, t + 2, t + o + 1)) = o
        /\ \A i \in 1..o : SubSeq(b, t + 2, t + o + 1)[i] = b[1 + t + i]
    <2>1. t + 2 \in Int /\ t + o + 1 \in Int /\ \A i \in t + 2..t + o + 1 : b[i] \in Byte
      BY <1>1, <1>4, <1>5
    <2>2. /\ SubSeq(b, t + 2, t + o + 1) \in Seq(Byte)
          /\ Len(SubSeq(b, t + 2, t + o + 1))
               = IF t + 2 <= t + o + 1 THEN (t + o + 1) - (t + 2) + 1 ELSE 0
          /\ \A i \in 1..(t + o + 1) - (t + 2) + 1 :
               SubSeq(b, t + 2, t + o + 1)[i] = b[(t + 2) + i - 1]
      BY <2>1, SubSeqProperties
    <2> QED
      BY <1>4, <2>2
  <1>10. b[t + o + 2] \in Byte
    BY <1>1, <1>4, <1>5
  <1>11. md \in MD /\ md.taskLen = t /\ md.opLen = o /\ md.flags = b[t + o + 2]
         /\ md.task = SubSeq(b, 2, t + 1) /\ md.op = SubSeq(b, t + 2, t + o + 1)
    BY <1>4, <1>6, <1>7, <1>8, <1>9, <1>10 DEF MD, Bytes
  <1> QED
    BY <1>5, <1>8, <1>9, <1>11 DEF md, t, o

\* What is packed.
LEMMA PackProperties ==
  ASSUME NEW md \in MD
  PROVE  LET b == Pack(md) t == md.taskLen o == md.opLen
         IN /\ b \in Bytes /\ Len(b) = t + o + 2
            /\ TaskLenOf(b) = t /\ OpLenOf(b) = o /\ b[1] \div 16 = Version /\ b[1] \in 32..47
            /\ (b[1] \div 4) % 2 = 0
            /\ \A i \in 1..t : b[1 + i] = Fit(md.task, t)[i]
            /\ \A i \in 1..o : b[1 + t + i] = Fit(md.op, o)[i]
            /\ b[t + o + 2] = md.flags
  <1> DEFINE t == md.taskLen
             o == md.opLen
             b == Pack(md)
             x == 2 * 16 + (o \div 4 - 1) * 8 + (IF t \div 4 - 1 = 4 THEN 3 ELSE t \div 4 - 1)
             T == Fit(md.task, t)
             O == Fit(md.op, o)
  <1>1. /\ t \in {4, 8, 12, 20} /\ o \in {4, 8} /\ md.flags \in Byte /\ md.version = Version
        /\ md.task \in Bytes /\ md.op \in Bytes
    BY DEF MD
  <1>2. b = <<x>> \o T \o O \o <<md.flags>>
    BY <1>1 DEF Pack, Version
  <1>3. /\ x \in 32..47 /\ x \div 16 = 2
        /\ (IF x % 4 = 3 THEN 20 ELSE 4 * ((x % 4) + 1)) = t
        /\ 4 * (((x \div 8) % 2) + 1) = o
        /\ (x \div 4) % 2 = 0
    BY <1>1, FirstByte
  <1>4. T \in Seq(Byte) /\ Len(T) = t /\ O \in Seq(Byte) /\ Len(O) = o
    <2>1. t \in Nat /\ o \in Nat
      BY <1>1
    <2>2. T \in Bytes /\ Len(T) = t /\ O \in Bytes /\ Len(O) = o
      BY <1>1, <2>1, FitProperties
    <2> QED
      BY <2>2 DEF Bytes
  <1> HIDE DEF t, o, b, x, T, O
  <1>5. <<x>> \in Seq(Byte) /\ Len(<<x>>) = 1 /\ <<x>>[1] = x
    BY <1>3 DEF Byte
  <1>6. <<md.flags>> \in Seq(Byte) /\ Len(<<md.flags>>) = 1 /\ <<md.flags>>[1] = md.flags
    BY <1>1
  <1> DEFINE H == <<x>> \o T
             I == H \o O
  <1>7. /\ H \in Seq(Byte) /\ Len(H) = 1 + t
        /\ \A i \in 1..1 + t : H[i] = IF i <= 1 THEN <<x>>[i] ELSE T[i - 1]
    BY <1>4, <1>5, ConcatProperties
  <1> HIDE DEF H
  <1>8. /\ I \in Seq(Byte) /\ Len(I) = (1 + t) + o
        /\ \A i \in 1..(1 + t) + o : I[i] = IF i <= 1 + t THEN H[i] ELSE O[i - (1 + t)]
    <2>1. H \in Seq(Byte) /\ O \in Seq(Byte) /\ Len(H) = 1 + t /\ Len(O) = o
      BY <1>4, <1>7
    <2>2. /\ I \in Seq(Byte) /\ Len(I) = Len(H) + Len(O)
          /\ \A i \in 1..Len(H) + Len(O) : I[i] = IF i <= Len(H) THEN H[i] ELSE O[i - Len(H)]
      BY <2>1, ConcatProperties
    <2> QED
      BY <2>1, <2>2
  <1>9. b = I \o <<md.flags>>
    BY <1>2 DEF H
  <1> HIDE DEF I
  <1>10. /\ b \in Seq(Byte) /\ Len(b) = ((1 + t) + o) + 1
         /\ \A i \in 1..((1 + t) + o) + 1 :
              b[i] = IF i <= (1 + t) + o THEN I[i] ELSE <<md.flags>>[i - ((1 + t) + o)]
    BY <1>6, <1>8, <1>9, ConcatProperties
  <1>11. b[1] = x
    <2>1. /\ 1 \in 1..((1 + t) + o) + 1 /\ 1 <= (1 + t) + o /\ 1 \in 1..(1 + t) + o
          /\ 1 <= 1 + t /\ 1 \in 1..1 + t
      BY <1>1 DEF t, o
    <2>2. b[1] = I[1] /\ I[1] = H[1] /\ H[1] = <<x>>[1]
      BY <1>7, <1>8, <1>10, <2>1
    <2> QED
      BY <1>5, <2>2
  <1>12. \A i \in 1..t : b[1 + i] = T[i]
    <2>1. ASSUME NEW i \in 1..t PROVE b[1 + i] = T[i]
      <3>1. /\ 1 + i \in 1..((1 + t) + o) + 1 /\ 1 + i <= (1 + t) + o
            /\ 1 + i \in 1..(1 + t) + o /\ 1 + i <= 1 + t /\ 1 + i \in 1..1 + t
            /\ ~(1 + i <= 1) /\ (1 + i) - 1 = i
        BY <1>1 DEF t, o
      <3> QED
        BY <1>7, <1>8, <1>10, <3>1
    <2> QED
      BY <2>1
  <1>13. \A i \in 1..o : b[1 + t + i] = O[i]
    <2>1. ASSUME NEW i \in 1..o PROVE b[1 + t + i] = O[i]
      <3>1. /\ 1 + t + i \in 1..((1 + t) + o) + 1 /\ 1 + t + i <= (1 + t) + o
            /\ 1 + t + i \in 1..(1 + t) + o /\ ~(1 + t + i <= 1 + t) /\ (1 + t + i) - (1 + t) = i
        BY <1>1 DEF t, o
      <3> QED
        BY <1>8, <1>10, <3>1
    <2> QED
      BY <2>1
  <1>14. b[t + o + 2] = md.flags
    <2>1. /\ t + o + 2 \in 1..((1 + t) + o) + 1 /\ ~(t + o + 2 <= (1 + t) + o)
          /\ (t + o + 2) - ((1 + t) + o) = 1
      BY <1>1 DEF t, o
    <2> QED
      BY <1>6, <1>10, <2>1
  <1>15. TaskLenOf(b) = t /\ OpLenOf(b) = o /\ b[1] \div 16 = Version
    BY <1>3, <1>11 DEF TaskLenOf, OpLenOf, Version
  <1>16. Len(b) = t + o + 2
    BY <1>1, <1>10 DEF t, o
  <1> QED
    BY <1>3, <1>10, <1>11, <1>12, <1>13, <1>14, <1>15, <1>16 DEF Bytes, b, t, o, T, O

\* What is packed can be unpacked, and read if the id is not zero.
LEMMA PackedReads ==
  ASSUME NEW md \in MD
  PROVE  LET b == Pack(md) IN
         /\ b \in Bytes /\ Unpackable(b)
         /\ Unpack(b).taskLen = md.taskLen /\ Unpack(b).opLen = md.opLen
         /\ Unpack(b).task = Fit(md.task, md.taskLen) /\ Unpack(b).op = Fit(md.op, md.opLen)
         /\ Unpack(b).flags = md.flags
         /\ Fit(md.task, md.taskLen) # Zeros(TaskLen) => Readable(Xtrace(b))
  <1> DEFINE b == Pack(md)
             t == md.taskLen
             o == md.opLen
             u == Unpack(b)
             T == Fit(md.task, t)
             O == Fit(md.op, o)
  <1>1. /\ b \in Bytes /\ Len(b) = t + o + 2
        /\ TaskLenOf(b) = t /\ OpLenOf(b) = o /\ b[1] \div 16 = Version
        /\ \A i \in 1..t : b[1 + i] = T[i]
        /\ \A i \in 1..o : b[1 + t + i] = O[i]
        /\ b[t + o + 2] = md.flags
    BY PackProperties
  <1>2. t \in {4, 8, 12, 20} /\ o \in {4, 8} /\ md.task \in Bytes /\ md.op \in Bytes
    BY DEF MD
  <1>3. Unpackable(b)
    <2>1. Len(b) # 0
      BY <1>1, <1>2
    <2>2. b # <<>>
      BY <2>1
    <2>3. PackedLen(b) <= Len(b)
      BY <1>1, <1>2 DEF PackedLen
    <2> QED
      BY <1>1, <2>2, <2>3 DEF Unpackable
  <1>4. /\ u \in MD /\ u.taskLen = t /\ u.opLen = o
        /\ Len(u.task) = t /\ \A i \in 1..t : u.task[i] = b[1 + i]
        /\ Len(u.op) = o /\ \A i \in 1..o : u.op[i] = b[1 + t + i]
        /\ u.flags = b[t + o + 2]
    BY <1>1, <1>3, UnpackProperties
  <1>5. T \in Bytes /\ Len(T) = t /\ O \in Bytes /\ Len(O) = o
    <2>1. t \in Nat /\ o \in Nat
      BY <1>2
    <2> QED
      BY <1>2, <2>1, FitProperties
  <1>6. u.task \in Bytes /\ u.op \in Bytes
    BY <1>4 DEF MD
  <1> HIDE DEF b, t, o, u, T, O
  <1>7. u.task = T
    <2>1. Len(u.task) = Len(T) /\ \A i \in 1..Len(u.task) : u.task[i] = T[i]
      BY <1>1, <1>4, <1>5
    <2> QED
      BY <1>5, <1>6, <2>1, SeqEqual DEF Bytes
  <1>8. u.op = O
    <2>1. Len(u.op) = Len(O) /\ \A i \in 1..Len(u.op) : u.op[i] = O[i]
      BY <1>1, <1>4, <1>5
    <2> QED
      BY <1>5, <1>6, <2>1, SeqEqual DEF Bytes
  <1>9. ASSUME T # Zeros(TaskLen) PROVE Readable(Xtrace(b))
    <2>1. Xtrace(b) = [odd |-> FALSE, hex |-> TRUE, bytes |-> b]
      BY DEF Xtrace
    <2>2. Xtrace(b) \in Text
      BY <1>1, <2>1 DEF Text, Bytes
    <2>3. Xtrace(b) # NoHeader
      BY <2>2, MetadataAssumption
    <2>4. Len(b) <= MaxPackLen
      BY <1>1, <1>2 DEF MaxPackLen
    <2> QED
      BY <1>3, <1>7, <1>9, <2>1, <2>3, <2>4 DEF Readable, u
  <1> QED
    BY <1>1, <1>3, <1>4, <1>7, <1>8, <1>9 DEF b, t, o, u, T, O

\* The op id of a whole context.
LEMMA WholeOp ==
  ASSUME NEW md, Whole(md)
  PROVE  OpString(md) = md.op
  <1>1. md.op \in Seq(Byte) /\ Len(md.op) = md.opLen
    BY DEF Whole, MD, Bytes
  <1>2. SubSeq(md.op, 1, Len(md.op)) = md.op
    BY <1>1, SubSeqFull
  <1> QED
    BY <1>1, <1>2 DEF OpString

\* What is read from a header is whole.
LEMMA ReadWhole ==
  ASSUME NEW h \in Headers \cup ResponseHeaders, Readable(h)
  PROVE  /\ h.bytes \in Bytes /\ Unpackable(h.bytes) /\ Whole(Unpack(h.bytes))
         /\ OpOf(h.bytes) = Fit(Unpack(h.bytes).op, OpLen) /\ TaskOf(h.bytes) = Unpack(h.bytes).task
         /\ TaskOf(h.bytes) # Zeros(TaskLen)
  <1>1. h \in Text /\ Unpackable(h.bytes) /\ Unpack(h.bytes).task # Zeros(TaskLen)
    BY MetadataAssumption DEF Readable
  <1>2. h.bytes \in Bytes
    BY <1>1 DEF Text, Bytes
  <1>3. Whole(Unpack(h.bytes))
    BY <1>1, <1>2, UnpackProperties DEF Whole
  <1> QED
    BY <1>1, <1>2, <1>3, WholeOp DEF OpOf, TaskOf

\* The same context again, but for the flag, is the header it came from.
LEMMA HeaderFits ==
  ASSUME NEW h \in Bytes, Unpackable(h), NEW md \in MD,
         \/ md = Unpack(h)
         \/ Unpack(h).flags # 0 /\ md = [Unpack(h) EXCEPT !.flags = @ - 1]
  PROVE  LET b == Pack(md)
         IN /\ \A i \in 2..Len(b) - 1 : b[i] = h[i]
            /\ h[1] - b[1] \in {0, 4}
            /\ h[Len(b)] - b[Len(b)] \in {0, 1}
  <1> DEFINE u == Unpack(h)
             t == TaskLenOf(h)
             o == OpLenOf(h)
             b == Pack(md)
  <1>1. /\ u \in MD /\ u.taskLen = t /\ u.opLen = o
        /\ Len(u.task) = t /\ \A i \in 1..t : u.task[i] = h[1 + i]
        /\ Len(u.op) = o /\ \A i \in 1..o : u.op[i] = h[1 + t + i]
        /\ u.flags = h[t + o + 2] /\ t + o + 2 <= Len(h)
    BY UnpackProperties
  <1>2. /\ md.taskLen = t /\ md.opLen = o /\ md.task = u.task /\ md.op = u.op
        /\ md.flags \in {u.flags, u.flags - 1}
    BY <1>1 DEF MD
  <1>3. Fit(md.task, t) = md.task /\ Fit(md.op, o) = md.op
    <2>1. md.task \in Bytes /\ md.op \in Bytes
      BY DEF MD
    <2> QED
      BY <1>1, <1>2, <2>1, FitSame
  <1>4. /\ Len(b) = t + o + 2
        /\ TaskLenOf(b) = t /\ OpLenOf(b) = o /\ b[1] \in 32..47 /\ (b[1] \div 4) % 2 = 0
        /\ \A i \in 1..t : b[1 + i] = Fit(md.task, t)[i]
        /\ \A i \in 1..o : b[1 + t + i] = Fit(md.op, o)[i]
        /\ b[t + o + 2] = md.flags
    BY <1>2, PackProperties
  <1>5. t \in {4, 8, 12, 20} /\ o \in {4, 8} /\ u.flags \in 0..255
    BY <1>1 DEF MD, Byte
  <1>6. h[1] \in 32..47
    <2>1. Len(h) \in Nat /\ 1 \in 1..Len(h)
      BY <1>1, <1>5, LenProperties DEF Bytes
    <2>2. h[1] \in 0..255
      BY <2>1, ElementOfSeq DEF Bytes, Byte
    <2>3. h[1] \div 16 = 2
      BY DEF Unpackable, Version
    <2> QED
      BY <2>2, <2>3
  <1>7. h[1] % 4 = b[1] % 4 /\ (h[1] \div 8) % 2 = (b[1] \div 8) % 2
    <2>1. /\ h[1] \in 32..47 /\ b[1] \in 32..47
          /\ (IF b[1] % 4 = 3 THEN 20 ELSE 4 * ((b[1] % 4) + 1))
               = (IF h[1] % 4 = 3 THEN 20 ELSE 4 * ((h[1] % 4) + 1))
          /\ 4 * (((b[1] \div 8) % 2) + 1) = 4 * (((h[1] \div 8) % 2) + 1)
      BY <1>4, <1>6 DEF TaskLenOf, OpLenOf
    <2> HIDE DEF b
    <2> QED
      BY <2>1, SameLengths
  <1> HIDE DEF u, t, o, b
  <1>8. h[1] - b[1] \in {0, 4}
    BY <1>4, <1>6, <1>7, OptionBit
  <1>9. ASSUME NEW i \in 2..Len(b) - 1 PROVE b[i] = h[i]
    <2>1. CASE i <= 1 + t
      <3>1. i - 1 \in 1..t /\ 1 + (i - 1) = i
        BY <1>4, <1>5, <1>9, <2>1
      <3> QED
        BY <1>1, <1>2, <1>3, <1>4, <3>1
    <2>2. CASE i > 1 + t
      <3>1. i - (1 + t) \in 1..o /\ 1 + t + (i - (1 + t)) = i
        BY <1>4, <1>5, <1>9, <2>2
      <3> QED
        BY <1>1, <1>2, <1>3, <1>4, <3>1
    <2> QED
      BY <1>4, <1>5, <2>1, <2>2
  <1>10. h[Len(b)] - b[Len(b)] \in {0, 1}
    <2>1. h[Len(b)] = u.flags /\ b[Len(b)] = md.flags
      BY <1>1, <1>4
    <2>2. u.flags \in Int /\ (md.flags = u.flags \/ md.flags = u.flags - 1)
      BY <1>2, <1>5
    <2>3. u.flags - md.flags = 0 \/ u.flags - md.flags = 1
      BY <2>2
    <2> QED
      BY <2>1, <2>3
  <1> QED
    BY <1>8, <1>9, <1>10 DEF b

-----------------------------------------------------------------------------
(* Contexts and events. *)

LEMMA MetadataInitInv == MetadataInit => MetadataInv
  <1> SUFFICES ASSUME MetadataInit PROVE MetadataInv
    OBVIOUS
  <1>1. contexts = <<>> /\ reports = <<>> /\ Len(contexts) = 0 /\ Len(reports) = 0
    BY DEF MetadataInit
  <1>2. MetadataTypes
    <2>1. contexts \in Seq(MD) /\ reports \in Seq([xtrace : Bytes, edges : SUBSET Bytes])
      BY <1>1
    <2> QED
      BY <1>1, <2>1 DEF MetadataInit, MetadataTypes
  <1>3. 1..Len(contexts) = {} /\ 1..Len(reports) = {}
    BY <1>1
  <1> QED
    BY <1>1, <1>2, <1>3 DEF MetadataInv, AsRead, InTrace, OpsKnown

\* A step that begins, decides or copies leaves the reports.
LEMMA SameReports ==
  ASSUME MetadataInv, UNCHANGED <<read, responses, reports>>
  PROVE  /\ \A i \in 1..Len(reports') : ReportFaithful(i)'
         /\ EventOps(Len(reports))' = EventOps(Len(reports)) /\ RequestOps' = RequestOps
  BY DEF MetadataInv, ReportFaithful, EventOps, RequestOps, ResponseOps

LEMMA ContinueTraceInv == ASSUME MetadataInv, ContinueTrace PROVE MetadataInv'
  <1> DEFINE md == Unpack(read.bytes)
  <1>1. /\ contexts = <<>> /\ reports = <<>> /\ contexts' = <<md>> /\ Readable(read)
        /\ UNCHANGED <<read, responses, reports>>
    BY DEF ContinueTrace, MetadataInv, MetadataTypes
  <1>2. read \in Headers
    BY <1>1 DEF MetadataInv, MetadataTypes, Readable
  <1>3. /\ Whole(md) /\ OpOf(read.bytes) = Fit(md.op, OpLen) /\ TaskOf(read.bytes) = md.task
        /\ md.task # Zeros(TaskLen)
    BY <1>1, <1>2, ReadWhole
  <1> HIDE DEF md
  <1>4. Len(contexts') = 1 /\ contexts'[1] = md /\ contexts' \in Seq(MD)
    BY <1>1, <1>3 DEF Whole
  <1>5. MetadataTypes'
    BY <1>1, <1>3, <1>4 DEF MetadataInv, MetadataTypes
  <1>6. AsRead'
    BY <1>1, <1>4 DEF AsRead, md
  <1>7. InTrace'
    BY <1>1, <1>3, <1>4 DEF InTrace
  <1>8. OpsKnown'
    BY <1>1, <1>3, <1>4 DEF OpsKnown, RequestOps
  <1> QED
    BY <1>1, <1>5, <1>6, <1>7, <1>8, SameReports DEF MetadataInv

LEMMA NewTraceInv == ASSUME MetadataInv, NewTrace PROVE MetadataInv'
  <1>1. /\ contexts = <<>> /\ reports = <<>> /\ ~Readable(read)
        /\ UNCHANGED <<read, responses, reports>>
    BY DEF NewTrace, MetadataInv, MetadataTypes
  <1>2. PICK first \in TaskDraws, second \in TaskDraws, op \in OpDraws :
          /\ Drawn(first, second) \notin {ReadError, Zeros(TaskLen)} /\ op # ReadError
          /\ contexts' = <<SetSampled(NewMetadata(Drawn(first, second), op, 0), TRUE)>>
    BY DEF NewTrace
  <1> DEFINE task == Drawn(first, second)
             md == SetSampled(NewMetadata(task, op, 0), TRUE)
  <1>3. task \in Bytes /\ Len(task) = TaskLen /\ op \in Bytes /\ Len(op) = OpLen
    <2>1. task \in TaskDraws
      BY DEF Drawn
    <2> QED
      BY <1>2, <2>1, MetadataAssumption DEF Bytes
  <1> HIDE DEF task
  <1>4. md = [version |-> Version, taskLen |-> TaskLen, opLen |-> OpLen,
              task |-> task, op |-> op, flags |-> 1]
    BY DEF SetSampled, NewMetadata, IsSampled
  <1> HIDE DEF md
  <1>5. Whole(md) /\ md.task = task /\ task # Zeros(TaskLen)
    BY <1>2, <1>3, <1>4 DEF Whole, MD, TaskLen, OpLen, Byte, task
  <1>6. Len(contexts') = 1 /\ contexts'[1] = md /\ contexts' \in Seq(MD)
    <2>1. contexts' = <<md>>
      BY <1>2 DEF md, task
    <2> QED
      BY <1>5, <2>1 DEF Whole
  <1>7. MetadataTypes'
    BY <1>1, <1>5, <1>6 DEF MetadataInv, MetadataTypes
  <1>8. AsRead' /\ OpsKnown'
    BY <1>1 DEF AsRead, OpsKnown
  <1>9. InTrace'
    BY <1>1, <1>5, <1>6 DEF InTrace
  <1> QED
    BY <1>1, <1>7, <1>8, <1>9, SameReports DEF MetadataInv

\* The flag is all that changes.
LEMMA Unsampled ==
  ASSUME NEW md \in MD, IsSampled(md)
  PROVE  /\ SetSampled(md, FALSE) = [md EXCEPT !.flags = @ - 1]
         /\ SetSampled(md, FALSE) \in MD /\ ~IsSampled(SetSampled(md, FALSE))
  <1>1. md.flags \in 0..255 /\ md.flags % 2 = 1
    BY DEF MD, Byte, IsSampled
  <1>2. 2 * (md.flags \div 2) = md.flags - 1 /\ md.flags - 1 \in 0..255 /\ (md.flags - 1) % 2 # 1
    BY <1>1
  <1>3. SetSampled(md, FALSE) = [md EXCEPT !.flags = 2 * (md.flags \div 2) + 0]
    BY DEF SetSampled
  <1>4. 2 * (md.flags \div 2) + 0 = md.flags - 1
    BY <1>1, <1>2
  <1>5. SetSampled(md, FALSE) = [md EXCEPT !.flags = md.flags - 1]
    BY <1>3, <1>4
  <1>6. md.flags - 1 \in Byte
    BY <1>2 DEF Byte
  <1>7. SetSampled(md, FALSE) \in MD /\ SetSampled(md, FALSE).flags = md.flags - 1
    BY <1>5, <1>6 DEF MD
  <1> QED
    BY <1>2, <1>5, <1>7 DEF IsSampled

LEMMA DecideNotInv == ASSUME MetadataInv, DecideNot PROVE MetadataInv'
  <1> DEFINE md == contexts[1]
             new == SetSampled(md, FALSE)
  <1>1. /\ Len(contexts) = 1 /\ reports = <<>> /\ IsSampled(md) /\ contexts' = <<new>>
        /\ UNCHANGED <<read, responses, reports>>
    BY DEF DecideNot
  <1>2. Whole(md)
    BY <1>1 DEF MetadataInv, MetadataTypes
  <1>3. new = [md EXCEPT !.flags = @ - 1] /\ new \in MD /\ ~IsSampled(new)
    BY <1>1, <1>2, Unsampled DEF Whole
  <1> HIDE DEF new
  <1>4. /\ new.task = md.task /\ new.op = md.op /\ new.taskLen = md.taskLen /\ new.opLen = md.opLen
        /\ Whole(new)
    BY <1>2, <1>3 DEF Whole, MD
  <1>5. Len(contexts') = 1 /\ contexts'[1] = new /\ contexts' \in Seq(MD)
    BY <1>1, <1>3
  <1>6. MetadataTypes'
    BY <1>1, <1>4, <1>5 DEF MetadataInv, MetadataTypes
  <1>7. AsRead'
    <2>1. ASSUME Readable(read)
          PROVE  IsSampled(Unpack(read.bytes)) /\ new = [Unpack(read.bytes) EXCEPT !.flags = @ - 1]
      <3>1. read \in Headers
        BY <2>1 DEF MetadataInv, MetadataTypes, Readable
      <3>2. Unpack(read.bytes) \in MD
        BY <2>1, <3>1, ReadWhole DEF Whole
      <3>3. md = Unpack(read.bytes)
        <4>1. CASE md = Unpack(read.bytes)
          BY <4>1
        <4>2. CASE IsSampled(Unpack(read.bytes)) /\ md = [Unpack(read.bytes) EXCEPT !.flags = @ - 1]
          <5> DEFINE u == Unpack(read.bytes)
          <5>1. u.flags \in 0..255 /\ u.flags % 2 = 1
            BY <3>2, <4>2 DEF MD, Byte, IsSampled
          <5>2. md.flags = u.flags - 1
            BY <3>2, <4>2 DEF MD
          <5>3. (u.flags - 1) % 2 # 1
            BY <5>1
          <5> QED
            BY <1>1, <5>2, <5>3 DEF IsSampled
        <4> QED
          BY <1>1, <2>1, <4>1, <4>2 DEF MetadataInv, AsRead
      <3> QED
        BY <1>1, <1>3, <3>3
    <2> QED
      BY <1>1, <1>5, <2>1 DEF AsRead
  <1>8. InTrace'
    <2>1. Readable(read) => Fit(new.task, TaskLen) = Fit(TaskOf(read.bytes), TaskLen)
      BY <1>1, <1>4 DEF MetadataInv, InTrace
    <2>2. /\ reports' = <<>> /\ read' = read /\ ~IsSampled(new)
          /\ \A c \in 1..Len(contexts') : contexts'[c] = new
      BY <1>1, <1>3, <1>5
    <2> QED
      BY <2>1, <2>2 DEF InTrace
  <1>9. OpsKnown'
    <2>1. RequestOps' = RequestOps /\ EventOps(Len(reports))' = EventOps(Len(reports))
      BY <1>1, SameReports
    <2> QED
      BY <1>1, <1>4, <1>5, <2>1 DEF MetadataInv, OpsKnown
  <1> QED
    BY <1>1, <1>6, <1>7, <1>8, <1>9, SameReports DEF MetadataInv

LEMMA CopyContextInv == ASSUME MetadataInv, CopyContext PROVE MetadataInv'
  <1> DEFINE md == contexts[1]
             task == Fit(md.task, TaskLen)
             op == Fit(md.op, OpLen)
             copy == NewMetadata(task, op, md.flags)
  <1>1. /\ Len(contexts) = 1 /\ (~IsSampled(md) \/ reports # <<>>)
        /\ contexts' = Append(contexts, copy)
        /\ UNCHANGED <<read, responses, reports>>
    BY DEF CopyContext
  <1>2. Whole(md) /\ contexts \in Seq(MD)
    BY <1>1 DEF MetadataInv, MetadataTypes
  <1>3. md.task \in Bytes /\ md.op \in Bytes /\ md.flags \in Byte /\ TaskLen \in Nat /\ OpLen \in Nat
    BY <1>2 DEF Whole, MD, TaskLen, OpLen
  <1>4. task \in Bytes /\ Len(task) = TaskLen /\ op \in Bytes /\ Len(op) = OpLen
    BY <1>3, FitProperties
  <1>5. Fit(task, TaskLen) = task /\ Fit(op, OpLen) = op
    BY <1>4, FitSame
  <1> HIDE DEF task, op
  <1>6. copy = [version |-> Version, taskLen |-> TaskLen, opLen |-> OpLen,
                task |-> task, op |-> op, flags |-> md.flags]
    BY DEF NewMetadata
  <1> HIDE DEF copy
  <1>7. Whole(copy) /\ (IsSampled(copy) <=> IsSampled(md))
    BY <1>3, <1>4, <1>6 DEF Whole, MD, TaskLen, OpLen, IsSampled
  <1>8. /\ Len(contexts') = 2 /\ contexts'[1] = md /\ contexts'[2] = copy
        /\ contexts' \in Seq(MD) /\ contexts' # <<>>
    <2> DEFINE more == Append(contexts, copy)
    <2>1. copy \in MD
      BY <1>7 DEF Whole
    <2>2. /\ more \in Seq(MD) /\ more # <<>> /\ Len(more) = Len(contexts) + 1
          /\ \A i \in 1..Len(contexts) : more[i] = contexts[i]
          /\ more[Len(contexts) + 1] = copy
      <3> DEFINE S == MD
      <3>1. contexts \in Seq(S) /\ copy \in S
        BY <1>2, <2>1
      <3> HIDE DEF S
      <3>2. /\ more \in Seq(S) /\ more # <<>> /\ Len(more) = Len(contexts) + 1
            /\ \A i \in 1..Len(contexts) : more[i] = contexts[i]
            /\ more[Len(contexts) + 1] = copy
        BY <3>1, AppendProperties
      <3> QED
        BY <3>2 DEF S
    <2> HIDE DEF more
    <2>3. contexts' = more
      BY <1>1 DEF more
    <2> QED
      BY <1>1, <2>2, <2>3
  <1>9. MetadataTypes'
    BY <1>1, <1>2, <1>7, <1>8 DEF MetadataInv, MetadataTypes
  <1>10. AsRead'
    <2>1. Len(contexts') # 1
      BY <1>8
    <2> QED
      BY <2>1 DEF AsRead
  <1>11. InTrace'
    <2>1. ASSUME Readable(read), NEW c \in 1..2
          PROVE  Fit(contexts'[c].task, TaskLen) = Fit(TaskOf(read.bytes), TaskLen)
      <3>1. task = Fit(TaskOf(read.bytes), TaskLen)
        BY <1>1, <2>1 DEF MetadataInv, InTrace, task
      <3>2. copy.task = task /\ Fit(md.task, TaskLen) = task
        BY <1>6 DEF task
      <3> QED
        BY <1>5, <1>8, <3>1, <3>2
    <2>2. ASSUME NEW c \in 1..2
          PROVE  /\ reports # <<>> => contexts'[c].taskLen = TaskLen
                 /\ reports = <<>> => ~IsSampled(contexts'[c])
                 /\ IsSampled(contexts'[c]) /\ contexts'[c].taskLen = TaskLen
                      => contexts'[c].task # Zeros(TaskLen)
      <3>1. /\ reports # <<>> => md.taskLen = TaskLen
            /\ IsSampled(md) /\ md.taskLen = TaskLen => md.task # Zeros(TaskLen)
        BY <1>1 DEF MetadataInv, InTrace
      <3>2. md.taskLen = TaskLen => task = md.task
        BY <1>2, <1>3, FitSame DEF Whole, task
      <3>3. copy.taskLen = TaskLen /\ copy.task = task
        BY <1>6
      <3>4. contexts'[c] = md \/ contexts'[c] = copy
        BY <1>8
      <3> QED
        BY <1>1, <1>7, <3>1, <3>2, <3>3, <3>4
    <2> QED
      BY <1>1, <1>8, <2>1, <2>2 DEF InTrace
  <1>12. OpsKnown'
    <2>1. RequestOps' = RequestOps /\ EventOps(Len(reports))' = EventOps(Len(reports))
      BY <1>1, SameReports
    <2>2. copy.op = op /\ Fit(md.op, OpLen) = op
      BY <1>6 DEF op
    <2>3. reports # <<>> \/ Readable(read) => op \in EventOps(Len(reports)) \cup RequestOps
      BY <1>1 DEF MetadataInv, OpsKnown, op
    <2>4. \A c \in 1..2 : Fit(contexts'[c].op, OpLen) = op
      BY <1>5, <1>8, <2>2
    <2> QED
      BY <1>1, <1>8, <2>1, <2>3, <2>4 DEF OpsKnown
  <1> QED
    BY <1>1, <1>9, <1>10, <1>11, <1>12, SameReports DEF MetadataInv

\* The X-Trace of an event of a sampled context: it is in the trace of the context, whose op is
\* that of the event from then on.
LEMMA EventReads ==
  ASSUME NEW md, Whole(md), NEW op \in Bytes, Len(op) = OpLen,
         md.task = EventMetadata(md, op).task, md.task # Zeros(TaskLen)
  PROVE  LET x == Pack(EventMetadata(md, op))
         IN /\ md.taskLen = TaskLen /\ EventMetadata(md, op).flags = md.flags
            /\ EventMetadata(md, op).op = op
            /\ x \in Bytes /\ Readable(Xtrace(x)) /\ TaskOf(x) = md.task /\ Unpack(x).flags = md.flags
            /\ OpOf(x) = Fit(Fit(op, Len(md.op)), OpLen)
            /\ Fit(op, Len(md.op)) \in Bytes /\ Len(Fit(op, Len(md.op))) = md.opLen
  <1> DEFINE event == EventMetadata(md, op)
             x == Pack(event)
  <1>1. /\ md \in MD /\ md.task \in Bytes /\ Len(md.op) = md.opLen /\ md.opLen \in {4, 8}
        /\ Len(md.task) = md.taskLen /\ TaskLen \in Nat /\ md.opLen \in Nat
    BY DEF Whole, MD, TaskLen
  <1>2. event = [md EXCEPT !.task = Fit(md.task, TaskLen), !.op = op, !.version = Version]
    BY DEF EventMetadata
  <1>3. Fit(md.task, TaskLen) \in Bytes /\ Len(Fit(md.task, TaskLen)) = TaskLen
    BY <1>1, FitProperties
  <1>4. /\ event \in MD /\ event.task = Fit(md.task, TaskLen) /\ event.op = op
        /\ event.flags = md.flags /\ event.opLen = md.opLen /\ event.taskLen = md.taskLen
    BY <1>1, <1>2, <1>3 DEF MD
  <1>5. md.taskLen = TaskLen
    BY <1>1, <1>3, <1>4
  <1> HIDE DEF event
  <1>6. Fit(event.task, event.taskLen) = md.task
    BY <1>1, <1>4, FitSame DEF event
  <1>7. /\ x \in Bytes /\ Unpackable(x) /\ Unpack(x).task = Fit(event.task, event.taskLen)
        /\ Unpack(x).op = Fit(event.op, event.opLen) /\ Unpack(x).flags = event.flags
        /\ Fit(event.task, event.taskLen) # Zeros(TaskLen) => Readable(Xtrace(x))
    BY <1>4, PackedReads
  <1>8. Whole(Unpack(x))
    BY <1>7, UnpackProperties DEF Whole
  <1>9. OpOf(x) = Fit(Unpack(x).op, OpLen)
    BY <1>8, WholeOp DEF OpOf
  <1>10. Fit(op, md.opLen) \in Bytes /\ Len(Fit(op, md.opLen)) = md.opLen
    BY <1>1, FitProperties
  <1> QED
    BY <1>1, <1>4, <1>5, <1>6, <1>7, <1>9, <1>10 DEF TaskOf, event

LEMMA ReportEventInv ==
  ASSUME MetadataInv, NEW c \in DOMAIN contexts, NEW op \in OpDraws \ {ReadError},
         NEW rsp \in ResponseHeaders, ReportEvent(c, op, rsp)
  PROVE  MetadataInv'
  <1> DEFINE md == contexts[c]
             event == EventMetadata(md, op)
             x == Pack(event)
             entry == [xtrace |-> x, edges |-> ContextEdge(md) \cup ResponseEdge(md, rsp)]
             newOp == Fit(op, Len(md.op))
             Report == [xtrace : Bytes, edges : SUBSET Bytes]
  <1>1. /\ IsSampled(event) /\ md.task = event.task /\ reports' = Append(reports, entry)
        /\ contexts' = [contexts EXCEPT ![c].op = Fit(event.op, Len(md.op))]
        /\ responses' = responses \cup {rsp} /\ read' = read
    BY DEF ReportEvent
  <1>2. contexts \in Seq(MD) /\ c \in 1..Len(contexts) /\ Len(contexts) \in Nat /\ Whole(md)
        /\ reports \in Seq(Report)
    <2>1. contexts \in Seq(MD) /\ reports \in Seq(Report)
      BY DEF MetadataInv, MetadataTypes
    <2>2. c \in 1..Len(contexts) /\ Len(contexts) \in Nat
      BY <2>1, LenProperties
    <2> QED
      BY <2>1, <2>2 DEF MetadataInv, MetadataTypes
  <1>a. PICK n \in Nat : n = Len(reports)
    BY <1>2, LenProperties
  <1>b. c \in 1..Len(contexts) /\ Len(contexts) \in Nat
    BY <1>2
  <1>3. op \in Bytes /\ Len(op) = OpLen
    BY MetadataAssumption DEF Bytes
  <1>4. md.taskLen = TaskLen /\ IsSampled(md) /\ md.task # Zeros(TaskLen)
    <2>1. md.flags = event.flags /\ event.task = Fit(md.task, TaskLen)
      BY <1>2 DEF EventMetadata, Whole, MD
    <2>2. md.task \in Bytes /\ TaskLen \in Nat /\ Len(md.task) = md.taskLen
      BY <1>2 DEF Whole, MD, TaskLen
    <2>3. md.taskLen = TaskLen
      BY <1>1, <2>1, <2>2, FitProperties
    <2>4. IsSampled(md)
      BY <1>1, <2>1 DEF IsSampled
    <2> QED
      BY <1>2, <2>3, <2>4 DEF MetadataInv, InTrace
  <1>5. /\ event.op = op /\ x \in Bytes /\ Readable(Xtrace(x)) /\ TaskOf(x) = md.task
        /\ Unpack(x).flags = md.flags /\ OpOf(x) = Fit(newOp, OpLen)
        /\ newOp \in Bytes /\ Len(newOp) = md.opLen
    BY <1>1, <1>2, <1>3, <1>4, EventReads
  <1>6. IsSampled(Unpack(x))
    BY <1>4, <1>5 DEF IsSampled
  <1>7. contexts' = [contexts EXCEPT ![c].op = newOp]
    BY <1>1, <1>5
  <1> HIDE DEF event, x, newOp
  <1> DEFINE new == [md EXCEPT !.op = newOp]
  <1>8. /\ Whole(new) /\ new.op = newOp /\ new.task = md.task /\ new.taskLen = md.taskLen
        /\ new.flags = md.flags
    BY <1>2, <1>5 DEF Whole, MD
  <1> HIDE DEF new
  <1>9. /\ contexts' \in Seq(MD) /\ Len(contexts') = Len(contexts) /\ contexts'[c] = new
        /\ \A k \in 1..Len(contexts) : k # c => contexts'[k] = contexts[k]
    <2> DEFINE S == MD
               changed == [contexts EXCEPT ![c] = new]
    <2>1. contexts \in Seq(S) /\ new \in S
      BY <1>2, <1>8 DEF Whole
    <2> HIDE DEF S
    <2>2. /\ changed \in Seq(S) /\ Len(changed) = Len(contexts)
          /\ \A k \in 1..Len(contexts) : changed[k] = IF k = c THEN new ELSE contexts[k]
      BY <1>2, <2>1, ExceptSeq
    <2>3. contexts' = changed
      BY <1>7 DEF new
    <2> HIDE DEF changed
    <2> QED
      BY <1>2, <2>2, <2>3 DEF S
  <1>10. OpString(md) = md.op /\ md.op \in Bytes
    BY <1>2, WholeOp DEF Whole, MD
  <1>11. \A e \in ContextEdge(md) : e = md.op /\ (reports # <<>> \/ Readable(read))
    BY <1>10 DEF ContextEdge
  <1>12. \A e \in ResponseEdge(md, rsp) :
           /\ Readable(rsp) /\ TaskOf(rsp.bytes) = md.task /\ OpOf(rsp.bytes) = Fit(e, OpLen)
           /\ e \in Bytes
    <2>1. SUFFICES ASSUME NEW e \in ResponseEdge(md, rsp)
                   PROVE  /\ Readable(rsp) /\ TaskOf(rsp.bytes) = md.task
                          /\ OpOf(rsp.bytes) = Fit(e, OpLen) /\ e \in Bytes
      OBVIOUS
    <2>2. /\ Readable(rsp) /\ Unpack(rsp.bytes).task = Fit(md.task, TaskLen)
          /\ e = OpString(Unpack(rsp.bytes))
      BY <2>1 DEF ResponseEdge
    <2>3. Whole(Unpack(rsp.bytes)) /\ TaskOf(rsp.bytes) = Unpack(rsp.bytes).task
      BY <2>2, ReadWhole
    <2>4. Fit(md.task, TaskLen) = md.task
      BY <1>2, <1>4, FitSame DEF Whole, MD
    <2>5. e = Unpack(rsp.bytes).op
      BY <2>2, <2>3, WholeOp
    <2> QED
      BY <2>2, <2>3, <2>4, <2>5 DEF OpOf, Whole, MD
  <1>13. entry \in Report
    BY <1>5, <1>10, <1>11, <1>12
  <1> HIDE DEF entry
  <1>14. /\ reports' \in Seq(Report) /\ reports' # <<>> /\ Len(reports') = n + 1
         /\ \A i \in 1..n : reports'[i] = reports[i]
         /\ reports'[n + 1] = entry
    <2> DEFINE S == Report
               more == Append(reports, entry)
    <2>1. reports \in Seq(S) /\ entry \in S
      BY <1>2, <1>13
    <2> HIDE DEF S
    <2>2. /\ more \in Seq(S) /\ more # <<>> /\ Len(more) = n + 1
          /\ \A i \in 1..n : more[i] = reports[i] /\ more[n + 1] = entry
      BY <1>a, <2>1, AppendProperties
    <2>3. reports' = more
      BY <1>1
    <2>4. more[n + 1] = entry
      BY <1>a, <2>1, AppendProperties
    <2> HIDE DEF more
    <2> QED
      BY <2>2, <2>3, <2>4 DEF S
  <1>15. entry.xtrace = x /\ entry.edges = ContextEdge(md) \cup ResponseEdge(md, rsp)
    BY DEF entry
  <1>16. RequestOps' = RequestOps
    BY <1>1 DEF RequestOps
  <1>17. \A m \in 0..n : EventOps(m)' = EventOps(m)
    <2>1. ASSUME NEW m \in 0..n PROVE EventOps(m)' = EventOps(m)
      <3>1. \A j \in 1..m : reports'[j] = reports[j]
        BY <1>2, <1>14
      <3> QED
        BY <3>1 DEF EventOps
    <2> QED
      BY <2>1
  <1>18. ASSUME NEW i \in 1..n PROVE ReportFaithful(i)'
    <2>1. reports'[i] = reports[i] /\ ReportFaithful(i)
      BY <1>a, <1>14 DEF MetadataInv
    <2>2. EventOps(i - 1)' = EventOps(i - 1)
      <3>1. i - 1 \in 0..n
        OBVIOUS
      <3> QED
        BY <1>17, <3>1
    <2>3. ResponseOps(i) \subseteq ResponseOps(i)'
      BY <1>1, <2>1 DEF ResponseOps
    <2> QED
      BY <1>1, <1>16, <2>1, <2>2, <2>3 DEF ReportFaithful
  <1>19. ReportFaithful(n + 1)'
    <2>1. reports'[n + 1].xtrace = x /\ reports'[n + 1].edges = entry.edges
      BY <1>14, <1>15
    <2>2. Readable(read) => TaskOf(x) = Fit(TaskOf(read.bytes), TaskLen)
      <3>1. Fit(md.task, TaskLen) = md.task
        BY <1>2, <1>4, FitSame DEF Whole, MD
      <3> QED
        BY <1>2, <1>5, <3>1 DEF MetadataInv, InTrace
    <2>3. EventOps((n + 1) - 1)' = EventOps(n)
      <3>1. (n + 1) - 1 = n /\ n \in 0..n
        OBVIOUS
      <3> QED
        BY <1>17, <3>1
    <2>4. \A e \in ContextEdge(md) : Fit(e, OpLen) \in EventOps(n) \cup RequestOps
      BY <1>a, <1>2, <1>11 DEF MetadataInv, OpsKnown
    <2>5. \A e \in ResponseEdge(md, rsp) : Fit(e, OpLen) \in ResponseOps(n + 1)'
      <3>1. rsp \in responses'
        BY <1>1
      <3>2. ASSUME NEW e \in ResponseEdge(md, rsp)
            PROVE  Readable(rsp) /\ TaskOf(rsp.bytes) = TaskOf(reports'[n + 1].xtrace)
                   /\ Fit(e, OpLen) = OpOf(rsp.bytes)
        BY <1>5, <1>12, <2>1
      <3> QED
        BY <3>1, <3>2 DEF ResponseOps
    <2>6. ASSUME NEW e \in reports'[n + 1].edges
          PROVE  Fit(e, OpLen) \in EventOps((n + 1) - 1)' \cup RequestOps' \cup ResponseOps(n + 1)'
      BY <1>15, <1>16, <2>1, <2>3, <2>4, <2>5
    <2>7. /\ Readable(Xtrace(reports'[n + 1].xtrace)) /\ IsSampled(Unpack(reports'[n + 1].xtrace))
          /\ Readable(read') => TaskOf(reports'[n + 1].xtrace) = Fit(TaskOf(read'.bytes), TaskLen)
      BY <1>1, <1>5, <1>6, <2>1, <2>2
    <2> QED
      BY <2>6, <2>7 DEF ReportFaithful
  <1>20. reports = <<>> => Len(contexts) = 1 /\ c = 1
    <2>1. reports = <<>> => Len(contexts) # 2
      BY <1>2, <1>4 DEF MetadataInv, InTrace
    <2>2. Len(contexts) <= 2
      BY DEF MetadataInv, MetadataTypes
    <2>3. \A l \in Nat : l <= 2 /\ l # 2 /\ c \in 1..l => l = 1 /\ c = 1
      OBVIOUS
    <2> HIDE DEF md
    <2> QED
      BY <1>b, <2>1, <2>2, <2>3, Zenon
  <1>21. \A k \in 1..Len(contexts) : k # c => reports # <<>>
    <2>1. ASSUME NEW k \in 1..Len(contexts), k # c, reports = <<>> PROVE FALSE
      <3>1. k \in 1..1
        BY <1>20, <2>1
      <3> QED
        BY <1>20, <2>1, <3>1
    <2> QED
      BY <2>1
  <1>22. MetadataTypes'
    <2>1. \A k \in 1..Len(contexts') : Whole(contexts'[k])
      BY <1>8, <1>9 DEF MetadataInv, MetadataTypes
    <2>2. contexts' # <<>>
      BY <1>2, <1>9
    <2> QED
      BY <1>1, <1>9, <1>14, <2>1, <2>2 DEF MetadataInv, MetadataTypes
  <1>23. AsRead'
    BY <1>14 DEF AsRead
  <1>24. InTrace'
    <2>1. ASSUME NEW k \in 1..Len(contexts)
          PROVE  /\ contexts'[k].task = contexts[k].task /\ contexts'[k].taskLen = TaskLen
                 /\ IsSampled(contexts'[k]) <=> IsSampled(contexts[k])
                 /\ contexts[k].taskLen = TaskLen
      <3>1. CASE k = c
        BY <1>4, <1>8, <1>9, <3>1 DEF IsSampled
      <3>2. CASE k # c
        BY <1>9, <1>21, <3>2 DEF MetadataInv, InTrace
      <3> QED
        BY <3>1, <3>2
    <2> QED
      BY <1>1, <1>9, <1>14, <2>1 DEF MetadataInv, InTrace
  <1>25. OpsKnown'
    <2>1. EventOps(n + 1)' = EventOps(n) \cup {OpOf(x)}
      <3>1. EventOps(n + 1)' = {OpOf(reports'[j].xtrace) : j \in 1..n} \cup {OpOf(reports'[n + 1].xtrace)}
        <4>1. 1..n + 1 = 1..n \cup {n + 1}
          OBVIOUS
        <4> QED
          BY <4>1 DEF EventOps
      <3>2. \A j \in 1..n : reports'[j] = reports[j]
        BY <1>14
      <3>3. {OpOf(reports'[j].xtrace) : j \in 1..n} = EventOps(n)
        BY <3>2 DEF EventOps
      <3> QED
        BY <1>14, <1>15, <3>1, <3>3
    <2>2. Fit(contexts'[c].op, OpLen) = OpOf(x)
      BY <1>5, <1>8, <1>9
    <2>3. \A k \in 1..Len(contexts) : k # c =>
            Fit(contexts'[k].op, OpLen) \in EventOps(n) \cup RequestOps
      BY <1>a, <1>9, <1>21 DEF MetadataInv, OpsKnown
    <2>4. \A k \in 1..Len(contexts') :
            Fit(contexts'[k].op, OpLen) \in EventOps(n + 1)' \cup RequestOps'
      BY <1>9, <1>16, <2>1, <2>2, <2>3
    <2>5. EventOps(n + 1)' = EventOps(Len(reports))'
      BY <1>14
    <2> QED
      BY <2>4, <2>5 DEF OpsKnown
  <1> QED
    <2>1. \A i \in 1..Len(reports') : i \in 1..n \/ i = n + 1
      BY <1>14
    <2>2. \A i \in 1..Len(reports') : ReportFaithful(i)'
      BY <1>18, <1>19, <2>1
    <2> QED
      BY <1>22, <1>23, <1>24, <1>25, <2>2 DEF MetadataInv

LEMMA MetadataInvNext == MetadataInv /\ [MetadataNext]_mdVars => MetadataInv'
  <1> SUFFICES ASSUME MetadataInv, [MetadataNext]_mdVars PROVE MetadataInv'
    OBVIOUS
  <1>1. CASE UNCHANGED mdVars
    BY <1>1 DEF mdVars, MetadataInv, MetadataTypes, AsRead, InTrace, OpsKnown, ReportFaithful,
                EventOps, RequestOps, ResponseOps
  <1> QED
    BY <1>1, ContinueTraceInv, NewTraceInv, DecideNotInv, CopyContextInv, ReportEventInv DEF MetadataNext

\* A header of another agent, of any lengths, is kept; every event reported can be read by the
\* next service, in the trace of the request, and has edges only to what was there
\* (context.go:170-314, event.go:156-189).
THEOREM MetadataKept == MetadataSpec => []MetadataFaithful
  <1>1. MetadataInv => MetadataFaithful
    <2> SUFFICES ASSUME MetadataInv PROVE HeaderKept
      BY DEF MetadataInv, MetadataFaithful
    <2> SUFFICES ASSUME reports = <<>>, Len(contexts) = 1, Readable(read)
                 PROVE  LET b == Pack(contexts[1])
                        IN /\ \A i \in 2..Len(b) - 1 : b[i] = read.bytes[i]
                           /\ read.bytes[1] - b[1] \in {0, 4}
                           /\ read.bytes[Len(b)] - b[Len(b)] \in {0, 1}
      BY DEF HeaderKept
    <2> DEFINE md == contexts[1]
               u == Unpack(read.bytes)
    <2>1. read \in Headers
      BY DEF MetadataInv, MetadataTypes, Readable
    <2>2. read.bytes \in Bytes /\ Unpackable(read.bytes) /\ Whole(u)
      BY <2>1, ReadWhole
    <2>3. md \in MD
      BY DEF MetadataInv, MetadataTypes, Whole
    <2>4. md = u \/ (IsSampled(u) /\ md = [u EXCEPT !.flags = @ - 1])
      BY DEF MetadataInv, AsRead
    <2>5. IsSampled(u) => u.flags # 0
      <3>1. u.flags = 0 => u.flags % 2 # 1
        OBVIOUS
      <3> QED
        BY <3>1 DEF IsSampled
    <2> HIDE DEF md
    <2>6. md = u \/ (u.flags # 0 /\ md = [u EXCEPT !.flags = @ - 1])
      BY <2>4, <2>5
    <2> QED
      BY <2>2, <2>3, <2>6, HeaderFits DEF md
  <1> QED
    BY <1>1, MetadataInitInv, MetadataInvNext, PTL DEF MetadataSpec
===============================================================================
