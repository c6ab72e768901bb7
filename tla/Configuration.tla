--------------------------- MODULE Configuration ---------------------------
(***************************************************************************)
(* How the configuration is loaded (internal/config): the default values,   *)
(* then the file, then the environment, then the options of the program,    *)
(* and last the validation, which replaces values it does not accept.  The  *)
(* fields are those with a rule of their own; `Collector' stands for those  *)
(* whose invalid values fall back to the default.                           *)
(***************************************************************************)
EXTENDS Integers

CONSTANTS
  Texts,    \* values of the fields that are strings
  Files,    \* config files, perhaps NoFile or BadFile
  Envs,     \* environments
  Options,  \* the service key set by the program, or Absent
  NoFile,
  BadFile,    \* too large, not readable, or not YAML
  Absent,     \* a field that a source leaves out
  NotANumber, \* a value of the environment that cannot be converted
  MaxSampleRate,
  MaxTokenBucketCapacity

\* What every source may have, by the types of the fields.
Optional(values) == values \cup {Absent}
Converted(values) == values \cup {Absent, NotANumber}

ASSUME ConfigurationAssumption ==
  /\ MaxSampleRate \in Nat /\ MaxTokenBucketCapacity \in Nat
  /\ {"", "enabled", "disabled", "always", "never", "default", "ssl", "udp", "serverless"} \subseteq Texts
  /\ Absent \notin Texts \cup Int \cup BOOLEAN
  /\ NotANumber \notin Texts \cup Int \cup BOOLEAN
  /\ Options \subseteq Optional(Texts)
  /\ Files \ {NoFile, BadFile} \subseteq
       [key : Optional(Texts), collector : Optional(Texts), reporter : Optional(Texts),
        name : Optional(Texts), cap : Optional(Int), disabled : Optional(BOOLEAN),
        sampling : {"set", "absent", "null"}, broken : BOOLEAN,
        mode : Optional(Texts), rate : Optional(Int)]
  /\ Envs \subseteq
       [key : Optional(Texts), collector : Optional(Texts), reporter : Optional(Texts),
        name : Optional(Texts), cap : Converted(Int), disabled : Converted(BOOLEAN),
        mode : Optional(Texts), rate : Converted(Int)]

VARIABLES config, sources  \* the result, and history: what it was loaded from

configVars == <<config, sources>>

-----------------------------------------------------------------------------
(* The default values (initStruct), and the setters, which keep note of what is configured. *)

Default == [mode |-> "enabled", modeConfigured |-> FALSE,
            rate |-> MaxSampleRate, rateConfigured |-> FALSE, sampling |-> TRUE,
            key |-> "", collector |-> "default", reporter |-> "ssl", name |-> "",
            cap |-> MaxTokenBucketCapacity, disabled |-> FALSE]

NormalizeTracingMode(mode) ==
  CASE mode = "always" -> "enabled" [] mode = "never" -> "disabled" [] OTHER -> mode

SetTracingMode(c, mode) ==
  IF mode = Absent THEN c
  ELSE [c EXCEPT !.mode = NormalizeTracingMode(mode), !.modeConfigured = TRUE]

SetSampleRate(c, rate) ==
  IF rate \in {Absent, NotANumber} THEN c ELSE [c EXCEPT !.rate = rate, !.rateConfigured = TRUE]

\* Mutation: the value is reset but not the flag.
KeepFlag(c) == [c EXCEPT !.mode = Default.mode]

ResetTracingMode(c) == [c EXCEPT !.mode = Default.mode, !.modeConfigured = FALSE]

ResetSampleRate(c) == [c EXCEPT !.rate = Default.rate, !.rateConfigured = FALSE]

\* The fields that are simply assigned, if the source has them.
SetFields(c, source) ==
  LET Or(value, old) == IF value \in {Absent, NotANumber} THEN old ELSE value
  IN [c EXCEPT !.key = Or(source.key, @), !.collector = Or(source.collector, @),
               !.reporter = Or(source.reporter, @), !.name = Or(source.name, @),
               !.cap = Or(source.cap, @), !.disabled = Or(source.disabled, @)]

-----------------------------------------------------------------------------
(* The sources. *)

\* The section on sampling has the rate -1 as its mark for an absent rate (UnmarshalYAML).  An
\* empty section leaves a nil pointer, which loadYaml repairs unless there was an error.
LoadYaml(c, file) ==
  LET loaded == SetFields(c, file)
      rate == IF file.rate = -1 THEN Absent ELSE file.rate
  IN CASE file.sampling = "absent" -> loaded
       [] file.sampling = "null" -> [loaded EXCEPT !.sampling = ~file.broken]
       [] OTHER -> SetSampleRate(SetTracingMode(loaded, file.mode), rate)

\* A variable that is empty counts as not set; the text of any other is trimmed, which leaves
\* nothing of a blank one.
FromEnv(text) == CASE text = "" -> Absent [] text = " " -> "" [] OTHER -> text

ReadEnvs(env) == [env EXCEPT !.key = FromEnv(@), !.collector = FromEnv(@),
                             !.reporter = FromEnv(@), !.name = FromEnv(@), !.mode = FromEnv(@)]

LoadEnvs(c, env) ==
  LET read == ReadEnvs(env)
  IN SetSampleRate(SetTracingMode(SetFields(c, read), read.mode), read.rate)

ApplyOptions(c, opt) == IF opt = Absent THEN c ELSE [c EXCEPT !.key = opt]

-----------------------------------------------------------------------------
(* validate *)

ValidMode(mode) == mode \in {"enabled", "disabled"}
ValidRate(rate) == rate \in 0..MaxSampleRate
ValidReporter(reporter) == reporter \in {"ssl", "udp", "serverless"}

ValidateSampling(c) ==
  LET d == IF ValidMode(c.mode) THEN c ELSE ResetTracingMode(c)
  IN IF ValidRate(d.rate) THEN d ELSE ResetSampleRate(d)

\* The hosting environment decides for the serverless reporter, which alone has a name for all
\* transactions.
ValidateReporter(c, lambda) ==
  LET reporter == IF lambda THEN "serverless"
                  ELSE IF ValidReporter(c.reporter) THEN c.reporter ELSE Default.reporter
  IN [c EXCEPT !.reporter = reporter,
               !.name = IF reporter = "serverless" THEN @ ELSE Default.name]

Clamp(cap) == IF cap < 0 THEN 0
              ELSE IF cap > MaxTokenBucketCapacity THEN MaxTokenBucketCapacity ELSE cap

ValidKey(c) == c.reporter = "serverless" \/ c.key \in {"", "valid"}

Validate(c, lambda) ==
  LET d == ValidateReporter([c EXCEPT !.collector = IF @ = "" THEN Default.collector ELSE @], lambda)
  IN [ValidateSampling(d) EXCEPT !.cap = Clamp(@)]

-----------------------------------------------------------------------------
\* resetThenDisable; reset does not see what a nil pointer should point to.
ResetThenDisable(c) == [Default EXCEPT !.disabled = TRUE, !.sampling = c.sampling]

Load(s) ==
  LET fromFile == IF s.file = NoFile THEN Default ELSE LoadYaml(Default, s.file)
      given == ApplyOptions(LoadEnvs(fromFile, s.env), s.opt)
      valid == Validate(given, s.lambda)
  IN IF s.file = BadFile THEN ResetThenDisable(Default)
     ELSE IF s.file # NoFile /\ s.file.broken THEN ResetThenDisable(fromFile)
     ELSE IF given.disabled \/ ~ValidKey(valid) THEN ResetThenDisable(given)
     ELSE valid

NotLoaded == [opt |-> "not loaded"]

ConfigInit == config = Default /\ sources = NotLoaded

LoadConfig ==
  \E file \in Files, env \in Envs, opt \in Options, lambda \in BOOLEAN :
    /\ sources = NotLoaded
    /\ sources' = [file |-> file, env |-> env, opt |-> opt, lambda |-> lambda]
    /\ config' = Load(sources')

ConfigSpec == ConfigInit /\ [][LoadConfig]_configVars

-----------------------------------------------------------------------------
(* Correctness. *)

\* What the user gave for a field of the sampling section, the environment before the file.
Given(field) ==
  IF ReadEnvs(sources.env)[field] \notin {Absent, NotANumber} THEN ReadEnvs(sources.env)[field]
  ELSE IF sources.file = NoFile THEN Absent
  ELSE IF sources.file.sampling = "set" THEN sources.file[field] ELSE Absent

\* The section on sampling is a nil pointer for good: a broken file had an empty one.
SamplingLost ==
  /\ sources # NotLoaded /\ sources.file \notin {NoFile, BadFile}
  /\ sources.file.broken /\ sources.file.sampling = "null"

\* An agent that is not disabled has only values the rest of the agent can work with, and it
\* counts as configured, which lets it override the collector's settings (oboe.go:425-449),
\* exactly if a value that the user gave is in force (config.go:216-281, :344-451).  An agent
\* that is disabled has default values, nothing of what the sources gave, with one exception to
\* what config.go:320-322 promises: after SamplingLost it has no section on sampling at all,
\* for the reset leaves a nil pointer alone (config.go:570-577).
ConfigSound ==
  IF config.disabled
  THEN config = [Default EXCEPT !.disabled = TRUE, !.sampling = ~SamplingLost]
  ELSE /\ config.sampling
       /\ ValidMode(config.mode) /\ ValidRate(config.rate) /\ ValidReporter(config.reporter)
       /\ config.cap \in 0..MaxTokenBucketCapacity
       /\ config.collector # "" /\ ValidKey(config)
       /\ config.name # "" => config.reporter = "serverless"
       /\ sources # NotLoaded =>
            LET mode == NormalizeTracingMode(Given("mode"))
                rate == Given("rate")
            IN /\ config.modeConfigured <=> ValidMode(mode)
               /\ config.modeConfigured => config.mode = mode
               /\ config.rateConfigured <=> ValidRate(rate)
               /\ config.rateConfigured => config.rate = rate
=============================================================================
