------------------------------ MODULE Sampling ------------------------------
(***************************************************************************)
(* How a request is sampled: updateSetting and oboeSampleRequest            *)
(* (internal/reporter/oboe.go) with the flags of event.go and the URL       *)
(* filters of url.go, and NewContext (context.go), which parses the         *)
(* client's X-Trace-Options, decides, reports the entry event and answers.  *)
(* The settings may be replaced or expire between any two of these steps.   *)
(*                                                                         *)
(* The store holds at most one setting that anybody reads, the default one; *)
(* it is the set of settings `store'.  The token buckets are those of       *)
(* TokenBucket: whether there is a token left is open here.                 *)
(***************************************************************************)
EXTENDS Integers

Flags == {"OVERRIDE", "START", "THROUGH", "ALWAYS", "TRIGGER"}
TracingModes == {"enabled", "disabled", "unknown"}

CONSTANTS
  MaxRate,      \* maxSamplingRate: every request is sampled
  RemoteFlags,  \* the sets of flags that the collector may send
  RemoteRates,  \* the sample rates it may send, not necessarily legal ones
  Locals,       \* the local configurations
  RequestKinds, \* what a request brings along
  MaxUpdates    \* bound: settings received

LocalConfig == [configured : BOOLEAN, mode : TracingModes, rate : 0..MaxRate, trigger : BOOLEAN]

\* `parent' and `explicit' are the two ways to pass metadata; `url' is what the filters say of
\* the URL; `junk' says that X-Trace-Options has keys to be ignored, `entry' that an entry
\* event is wanted.
Metadata == {"none", "bad", "sampled", "unsampled"}
AnyRequest == [parent : Metadata, explicit : Metadata, url : TracingModes,
            opts : {"absent", "plain", "trigger"}, sig : {"none", "good", "wrong", "late"},
            junk : BOOLEAN, entry : BOOLEAN]

ASSUME SamplingAssumption ==
  /\ MaxRate \in Nat \ {0}
  /\ RemoteFlags \subseteq SUBSET Flags
  /\ RemoteRates \subseteq Int
  /\ Locals \subseteq LocalConfig
  /\ RequestKinds \subseteq AnyRequest
  /\ MaxUpdates \in Nat

VARIABLES
  local,      \* the configuration of the process
  store, updates,
  stage,      \* of the request: "new", "parsed", "decided", "done", or "panicked"
  request,
  tMode, auth, ignored,  \* what was parsed from X-Trace-Options
  decision,
  used,       \* history: the setting the decision was made with, if any
  entered,    \* history: the entry event, "none", "regular" or "triggered"
  response

parseVars == <<request, tMode, auth, ignored>>
decisionVars == <<decision, used>>
inFlightVars == <<stage, parseVars, decisionVars, entered, response>>
sampleVars == <<local, store, updates, inFlightVars>>

NoDecision == [trace |-> FALSE, enabled |-> TRUE, rate |-> -1, flags |-> {}, bucket |-> "none", rsp |-> ""]
NoResponse == [ctx |-> "null", ok |-> FALSE, header |-> FALSE, rsp |-> "", auth |-> "none", ignored |-> FALSE]

SampleInit ==
  /\ local \in Locals
  /\ store = {} /\ updates = 0
  /\ stage = "new"
  /\ request \in RequestKinds
  /\ tMode = "absent" /\ auth = "none" /\ ignored = FALSE
  /\ decision = NoDecision /\ used = {}
  /\ entered = "none"
  /\ response = NoResponse

-----------------------------------------------------------------------------
(* Settings. *)

ToFlags(mode) == IF mode = "enabled" THEN {"START", "ALWAYS", "TRIGGER"} ELSE {}

Override(s) == "OVERRIDE" \in s.originalFlags

FlagsEnabled(flags) == flags \cap {"START", "ALWAYS"} # {}

AdjustSampleRate(rate) == IF rate < 0 THEN 0 ELSE IF rate > MaxRate THEN MaxRate ELSE rate

\* Mutation: a local configuration always replaces the collector's.
MergeReplaces(s) ==
  IF ~local.configured THEN s
  ELSE [s EXCEPT !.value = local.rate, !.flags = ToFlags(local.mode)]

\* mergeLocalSetting: with the override flag the stricter of both, otherwise the local one.
MergeLocalSetting(s) ==
  LET flags == IF ~local.configured THEN s.flags
               ELSE ToFlags(local.mode) \cap (IF Override(s) THEN s.flags ELSE Flags)
      value == IF ~local.configured \/ (Override(s) /\ s.value <= local.rate)
               THEN s.value ELSE local.rate
  IN [s EXCEPT !.value = value,
               !.flags = IF local.trigger THEN flags ELSE flags \ {"TRIGGER"}]

\* `sent' is not a field of the code: it keeps the collector's rate.
Received(flags, rate, token) ==
  [flags |-> flags, originalFlags |-> flags, value |-> AdjustSampleRate(rate),
   sent |-> AdjustSampleRate(rate), token |-> token]

\* updateSetting, for the default setting.
UpdateSetting(flags, rate, token) ==
  /\ updates < MaxUpdates
  /\ updates' = updates + 1
  /\ store' = {MergeLocalSetting(Received(flags, rate, token))}
  /\ UNCHANGED <<local, inFlightVars>>

\* checkSettingsTimeout deletes the setting when its time to live has passed.
ExpireSetting ==
  /\ store # {}
  /\ store' = {}
  /\ UNCHANGED <<local, updates, inFlightVars>>

\* mergeURLSetting.  A filter decides alone, unless the collector overrides.
MergeURLSetting(s) ==
  IF request.url = "unknown" THEN s.flags
  ELSE ToFlags(request.url) \cap (IF Override(s) THEN s.originalFlags ELSE Flags)

-----------------------------------------------------------------------------
(* X-Trace-Options. *)

Requested == tMode # "absent"
Triggering == tMode \in {"relaxed", "strict"}

\* validateXTraceOptionsSignature; the token is the one of the moment.
Authenticate(sig) ==
  IF sig = "late" THEN "bad-timestamp"
  ELSE IF ~\E s \in store : s.token THEN "no-signature-key"
  ELSE IF sig = "wrong" THEN "bad-signature" ELSE "ok"

\* parseTriggerTraceFlag.  If the signature is not valid, nothing of the options counts.
ParseTriggerTraceFlag ==
  /\ stage = "new"
  /\ stage' = "parsed"
  /\ auth' = IF request.opts = "trigger" /\ request.sig # "none" THEN Authenticate(request.sig) ELSE "none"
  /\ tMode' = IF request.opts # "trigger" THEN "absent"
              ELSE IF request.sig = "none" THEN "strict"
              ELSE IF auth' = "ok" THEN "relaxed" ELSE "invalid"
  /\ ignored' = (request.junk /\ tMode' # "invalid")
  /\ UNCHANGED <<local, store, updates, request, decisionVars, entered, response>>

-----------------------------------------------------------------------------
(* The end of NewContext. *)

\* What returns to the caller.  SetHeaders says nothing to a client that sent no options; the
\* deferred function adds the ignored keys, to a map that need not be there.
Return(ctx, ok, header, rsp) ==
  IF ignored /\ ~header
  THEN stage' = "panicked" /\ UNCHANGED response
  ELSE /\ stage' = "done"
       /\ response' = [ctx |-> ctx, ok |-> ok, header |-> header, rsp |-> rsp,
                       auth |-> IF header THEN auth ELSE "none", ignored |-> ignored]

SetHeaders(ctx, ok, rsp) == Return(ctx, ok, request.opts # "absent", rsp)

-----------------------------------------------------------------------------
(* The decision. *)

\* The metadata to go by: `explicit' counts only without a parent.
Given == IF request.parent # "none" THEN request.parent ELSE request.explicit
Explicit == request.parent = "none" /\ request.explicit = "sampled"
Continued == request.parent = "sampled"

\* An unsampled parent: the trace goes on, unsampled.
ContinueUnsampled ==
  /\ stage = "parsed"
  /\ request.parent = "unsampled"
  /\ \/ /\ store = {}
        /\ SetHeaders("unsampled", FALSE, "settings-not-available")
        /\ UNCHANGED decisionVars
     \/ \E s \in store :
          /\ decision' = [decision EXCEPT !.enabled = FlagsEnabled(MergeURLSetting(s)),
                                          !.flags = MergeURLSetting(s)]
          /\ used' = {s}
          /\ SetHeaders("unsampled", TRUE, IF Requested THEN "ignored" ELSE "not-requested")
  /\ UNCHANGED <<local, store, updates, parseVars, entered>>

ExplicitUnsampled ==
  /\ stage = "parsed"
  /\ request.parent = "none" /\ request.explicit = "unsampled"
  /\ Return("unsampled", TRUE, FALSE, "")
  /\ UNCHANGED <<local, store, updates, parseVars, decisionVars, entered>>

Decide(d, s) ==
  /\ stage = "parsed"
  /\ Given # "unsampled"
  /\ stage' = "decided"
  /\ decision' = d
  /\ used' = s
  /\ UNCHANGED <<local, store, updates, parseVars, entered, response>>

DecideExplicit ==
  /\ Explicit
  /\ Decide([NoDecision EXCEPT !.trace = TRUE, !.enabled = FALSE], {})

DecideWithoutSetting ==
  /\ ~Explicit
  /\ store = {}
  /\ Decide([NoDecision EXCEPT !.enabled = FALSE, !.rsp = "settings-not-available"], {})

\* Mutation: trigger traces are not limited to new traces.
AnyTrigger == Requested

\* A trigger trace is asked for, and it is not the continuation of another.
NewTrigger == Requested /\ ~Continued

\* tokenBucket.count: who is rate limited needs a token.
Counted(sampled, limited) == IF ~sampled THEN {FALSE} ELSE IF limited THEN BOOLEAN ELSE {TRUE}

\* The response to a trigger trace of which the bucket says `counted'.
TriggerResponse(flags, counted) ==
  IF "TRIGGER" \in flags /\ Triggering THEN IF counted THEN "ok" ELSE "rate-exceeded"
  ELSE IF tMode = "invalid" THEN ""
  ELSE IF FlagsEnabled(flags) THEN "trigger-tracing-disabled" ELSE "tracing-disabled"

Bucket == IF Triggering THEN tMode ELSE "regular"

DecideTrigger ==
  \E s \in store :
    LET flags == MergeURLSetting(s)
    IN /\ ~Explicit /\ NewTrigger
       /\ \E counted \in Counted(Triggering /\ "TRIGGER" \in flags, TRUE) :
            Decide([trace |-> counted, enabled |-> FlagsEnabled(flags), rate |-> -1, flags |-> flags,
                    bucket |-> Bucket, rsp |-> TriggerResponse(flags, counted)], {s})

\* shouldSample draws a number below the maximum.
ShouldSample(rate) == IF rate = MaxRate THEN {TRUE} ELSE {n <= rate : n \in 0..MaxRate - 1}

\* What is to be sampled, before the bucket is asked.
Wanted(flags, lucky) ==
  IF Continued THEN "ALWAYS" \in flags \/ ("THROUGH" \in flags /\ lucky)
  ELSE "START" \in flags /\ lucky

DecideRegular ==
  \E s \in store :
    LET flags == MergeURLSetting(s)
    IN /\ ~Explicit /\ ~NewTrigger
       /\ \E lucky \in ShouldSample(s.value) :
          \E counted \in Counted(Wanted(flags, lucky), ~Continued) :
            Decide([trace |-> counted, enabled |-> FlagsEnabled(flags), rate |-> s.value, flags |-> flags,
                    bucket |-> Bucket, rsp |-> IF Requested THEN "ignored" ELSE "not-requested"], {s})

-----------------------------------------------------------------------------
(* What follows the decision. *)

EntryKind == IF Triggering /\ ~Continued /\ ~Explicit THEN "triggered" ELSE "regular"

\* newContext: without random bytes a new trace gets a null context.
Contexts(ctx) == {ctx} \cup {c \in {"null"} : Given = "none"}

\* The reporter may refuse the entry event, or the context be a null one: there is no trace then.
ReportEntry ==
  /\ stage = "decided"
  /\ decision.trace /\ request.entry
  /\ \/ entered' = EntryKind /\ SetHeaders("sampled", TRUE, decision.rsp)
     \/ Return("null", FALSE, FALSE, "") /\ UNCHANGED entered
  /\ UNCHANGED <<local, store, updates, parseVars, decisionVars>>

ReportNothing ==
  /\ stage = "decided"
  /\ ~(decision.trace /\ request.entry)
  /\ \E ctx \in Contexts(IF decision.trace THEN "sampled" ELSE "unsampled") :
       SetHeaders(ctx, TRUE, decision.rsp)
  /\ UNCHANGED <<local, store, updates, parseVars, decisionVars, entered>>

SampleNext ==
  \/ \E flags \in RemoteFlags, rate \in RemoteRates, token \in BOOLEAN : UpdateSetting(flags, rate, token)
  \/ ExpireSetting
  \/ ParseTriggerTraceFlag
  \/ ContinueUnsampled \/ ExplicitUnsampled
  \/ DecideExplicit \/ DecideWithoutSetting \/ DecideTrigger \/ DecideRegular
  \/ ReportEntry \/ ReportNothing

SampleSpec == SampleInit /\ [][SampleNext]_sampleVars

-----------------------------------------------------------------------------
(* Correctness. *)

Setting == [flags : SUBSET Flags, originalFlags : SUBSET Flags, value : 0..MaxRate, sent : 0..MaxRate,
            token : BOOLEAN]
Responses == {"", "ok", "rate-exceeded", "tracing-disabled", "trigger-tracing-disabled", "ignored",
              "not-requested", "settings-not-available"}
Auths == {"none", "ok", "bad-timestamp", "no-signature-key", "bad-signature"}
Decision == [trace : BOOLEAN, enabled : BOOLEAN, rate : -1..MaxRate, flags : SUBSET Flags,
             bucket : {"none", "regular", "relaxed", "strict"}, rsp : Responses]

\* The types; in particular a sample rate stays between nothing and everything, whatever the
\* collector sends and the configuration says (oboe.go:472-483).
SamplingTypeOK ==
  /\ local \in Locals /\ store \in SUBSET Setting /\ updates \in 0..MaxUpdates
  /\ stage \in {"new", "parsed", "decided", "done", "panicked"}
  /\ request \in RequestKinds
  /\ tMode \in {"absent", "invalid", "relaxed", "strict"} /\ auth \in Auths /\ ignored \in BOOLEAN
  /\ decision \in Decision /\ used \in SUBSET Setting
  /\ entered \in {"none", "regular", "triggered"}
  /\ response \in [ctx : {"null", "sampled", "unsampled"}, ok : BOOLEAN, header : BOOLEAN,
                   rsp : Responses, auth : Auths, ignored : BOOLEAN]

\* With the override flag neither the local configuration nor a URL filter widens what the
\* collector allows: a decision uses no flag the collector did not set and no higher rate, and
\* a trace needs one of its flags (oboe.go:429-470).
NeverWidened ==
  \A s \in used : Override(s) =>
    /\ decision.flags \subseteq s.originalFlags
    /\ decision.rate <= s.sent
    /\ decision.trace => s.originalFlags \cap {"START", "THROUGH", "ALWAYS", "TRIGGER"} # {}
    /\ entered = "triggered" => "TRIGGER" \in s.originalFlags

\* The client is told the truth, whatever happens to the settings meanwhile: "ok" means a
\* triggered trace, or, to a caller who reports no entry event, a trace unless there were no
\* random bytes for it; every triggered trace is announced; after any refusal nothing is sampled;
\* a refused signature never triggers; the parent's decision not to sample stands.
\* (context.go:540-690)
AnswerTruthful ==
  stage = "done" =>
    /\ entered = "triggered" => response.rsp = "ok"
    /\ response.rsp = "ok" => /\ Triggering
                              /\ response.ctx = "sampled" \/ (response.ctx = "null" /\ ~request.entry)
                              /\ request.entry => entered = "triggered"
    /\ response.rsp \in {"rate-exceeded", "tracing-disabled", "trigger-tracing-disabled",
                         "settings-not-available"} => response.ctx # "sampled"
    /\ response.rsp = "not-requested" => ~Requested
    /\ response.auth \notin {"none", "ok"} =>
         /\ ~response.ignored /\ entered # "triggered"
         /\ response.ctx = "sampled" => Given = "sampled"
    /\ Given = "unsampled" => response.ctx = "unsampled"
    /\ response.ok /\ Given # "unsampled" => (response.header <=> request.opts # "absent")
=============================================================================
