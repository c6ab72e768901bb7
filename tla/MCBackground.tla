---------------------------- MODULE MCBackground ----------------------------
(* What goes on besides traces, for TLC: each behaviour is one of one part,  *)
(* which shares no state with the others.                                    *)
EXTENDS Readiness, Metrics, HostObserver, Serverless, Configuration, Sanitizer, Histogram

VARIABLE part

serviceVars == <<readyVars, metricVars, hostVars, serverlessVars>>
algorithmVars == <<configVars, sanitizerVars, histogramVars>>
backgroundVars == <<part, serviceVars, algorithmVars>>

SomeStatement == CHOOSE s \in Statements : TRUE

\* A part that does not run does not vary either.
BackgroundInit ==
  /\ part \in {"readiness", "metrics", "queues", "host", "serverless",
              "configuration", "sanitizer", "histogram"}
  /\ SanitizerInit
  /\ part # "sanitizer" => [db |-> db, tokens |-> tokens] = SomeStatement
  /\ MetricsInit
  /\ part # "metrics" => /\ currCap = CHOOSE c \in Caps : TRUE
                         /\ span = CHOOSE n \in Names : TRUE
  /\ ServerlessInit
  /\ part # "serverless" => ~syncWrite
  /\ ReadyInit /\ HostInit /\ ConfigInit /\ HistogramInit

BackgroundNext ==
  /\ UNCHANGED part
  /\ \/ /\ part = "readiness" /\ ReadyNext
        /\ UNCHANGED <<metricVars, hostVars, serverlessVars, algorithmVars>>
     \/ /\ \/ part = "metrics" /\ MetricsNext /\ poster' = poster  \* measurements
           \/ part = "queues" /\ MetricsNext /\ spans' = spans   \* the longest queue
        /\ UNCHANGED <<readyVars, hostVars, serverlessVars, algorithmVars>>
     \/ /\ part = "host" /\ HostNext
        /\ UNCHANGED <<readyVars, metricVars, serverlessVars, algorithmVars>>
     \/ /\ part = "serverless" /\ ServerlessNext
        /\ UNCHANGED <<readyVars, metricVars, hostVars, algorithmVars>>
     \/ /\ part = "configuration" /\ LoadConfig
        /\ UNCHANGED <<serviceVars, sanitizerVars, histogramVars>>
     \/ /\ part = "sanitizer" /\ SanitizerNext
        /\ UNCHANGED <<serviceVars, configVars, histogramVars>>
     \/ /\ part = "histogram" /\ HistogramNext
        /\ UNCHANGED <<serviceVars, configVars, sanitizerVars>>

\* The goroutines that have started a step of the readiness protocol go on.
BackgroundFairness ==
  /\ WF_readyVars(GetterStep)
  /\ WF_readyVars(CheckerStep)
  /\ \A w \in Waiters : WF_readyVars(WaiterStep(w))

BackgroundSpec == BackgroundInit /\ [][BackgroundNext]_backgroundVars /\ BackgroundFairness

\* The types of every part (reporter_grpc.go:227-245, metrics.go:101-131, observer.go:84-105,
\* log_writer.go:23-53).
BackgroundTypeOK == ReadyTypeOK /\ MetricsTypeOK /\ HostTypeOK /\ ServerlessTypeOK

\* No wake-up of a waiter is lost, and a withdrawal of readiness that raced with a new setting
\* does not last (reporter_grpc.go:441-470, :892-912).
ReadinessLive == WaitersWake /\ ReadinessHeals

\* What is sent in another form still says what was recorded: histograms, with a figure less, and
\* statements of SQL, without their literals (encode.go:41-96, sql_sanitizer.go:152-349).
OutputFaithful == HistogramFaithful /\ LiteralsReplaced

\* Config files and environments: some vary the section on sampling, the others the rest.
Sections == [sampling : {"set"}, broken : {FALSE},
             mode : {Absent, "disabled", "never", "bogus"}, rate : {Absent, -1, 0, 2, 3}]
BadSections == [sampling : {"absent", "null"}, broken : BOOLEAN, mode : {Absent}, rate : {Absent}]
NoFields == [key |-> Absent, collector |-> Absent, reporter |-> Absent, name |-> Absent,
             cap |-> Absent, disabled |-> Absent]
SomeFields == [key : {Absent, "valid", "invalid"}, collector : {Absent, ""},
               reporter : {"udp", "bogus"}, name : {"all"}, cap : {-1, 9},
               disabled : {Absent, TRUE}]
MCFiles == {NoFile, BadFile} \cup {NoFields @@ section : section \in Sections \cup BadSections}
           \cup {fields @@ section : fields \in SomeFields, section \in BadSections}
MCEnvs == {NoFields @@ rates : rates \in [mode : {Absent, "", " ", "always", "disabled", "bogus"},
                                          rate : {Absent, NotANumber, 1, 3}]}
          \cup {[NoFields EXCEPT !.key = k, !.disabled = d] @@ [mode |-> Absent, rate |-> Absent] :
                  k \in {"", " ", "valid", "invalid"}, d \in {FALSE, TRUE, NotANumber}}

\* Two tokens of SQL with a separator between them.
Lit(t) == [text |-> t, literal |-> TRUE]
Txt(t) == [text |-> t, literal |-> FALSE]
CommonTokens == {Txt(<<"a">>), Txt(<<"a", "1">>), Lit(<<"1">>), Lit(<<"1", ".", "1">>),
  Lit(<<"'", "'">>), Lit(<<"'", "a", "'">>), Lit(<<"'", "'", "'", "1", "'">>),
  Txt(<<"eacute", "1">>), Lit(<<"'", "eacute", "'">>), Lit(<<"'", "\\", "'", "'">>), Lit(<<"X", "'", "1", "'">>), Lit(<<"U", "&", "'", "a", "'">>)}
Misreadable == Lit(<<"$", "$", "eacute", "$", "$">>)
TokensOf(d) == CommonTokens \cup
  CASE d = "postgresql" -> {Txt(<<"\"", "a", "\"">>), Lit(<<"$", "$", "a", "$", "$">>),
                            Lit(<<"$", "a", "$", "$", "1", "$", "a", "$">>), Misreadable}
    [] d = "mysql" -> {Lit(<<"\"", "a", "\"">>), Txt(<<"grave", "1", "grave">>)}
    [] d = "sqlserver" -> {Txt(<<"[", "1", "]">>), Txt(<<"\\", "'">>)}
\* A wide rune, a literal whose end is looked for too far behind, and something to swallow.
Swallowed == {[db |-> "postgresql",
               tokens |-> <<Txt(<<"eacute">>), Txt(<<" ">>), Lit(<<"$", "$", "1", "$", "$">>),
                            Txt(<<" ">>), t>>] : t \in {Txt(<<"a">>), Misreadable}}
MCStatements == Swallowed \cup UNION {{[db |-> d, tokens |-> <<t, Txt(<<s>>), u>>] :
                          t \in TokensOf(d), s \in {" ", ","}, u \in TokensOf(d)} :
                         d \in {"postgresql", "mysql", "sqlserver"}}
=============================================================================
