----------------------------- MODULE MCSampling -----------------------------
(***************************************************************************)
(* Model checking of what happens to a request: Sampling, TokenBucket, which *)
(* says whether there is a token left, Handlers, Filters and Metadata.  A    *)
(* behaviour is one of a single module: the others do not begin.             *)
(***************************************************************************)
EXTENDS Sampling, TokenBucket, Handlers, Filters, Metadata

VARIABLE part

MCvars == <<part, sampleVars, vars, handlerVars, filterVars, mdVars>>

MCLocals ==
  {[configured |-> FALSE, mode |-> "enabled", rate |-> MaxRate, trigger |-> t] : t \in BOOLEAN}
  \cup {[configured |-> TRUE, mode |-> m, rate |-> 1, trigger |-> t] :
          m \in {"enabled", "disabled"}, t \in BOOLEAN}

\* What the collector sends, to which mergeLocalSetting and the filters react differently.
MCRemoteFlags ==
  {{"START", "ALWAYS", "TRIGGER"}, {"OVERRIDE", "START", "THROUGH"},
   {"OVERRIDE", "START", "ALWAYS", "TRIGGER"}, {"OVERRIDE", "TRIGGER"}, {"THROUGH"}}

\* Metadata is passed in one way only, and a signature only with what it signs.
MCRequestKinds ==
  {q \in AnyRequest : /\ "none" \in {q.parent, q.explicit}
                      /\ q.sig # "none" => q.opts = "trigger"
                      /\ q.junk => q.opts # "absent"}

FilterSetting(type, regex, extensions, tracing) ==
  [type |-> type, regex |-> regex, extensions |-> extensions, tracing |-> tracing]

\* Any first setting, legal or not, with a second one that may not compile.
MCFilterSettings ==
  {<<>>} \cup {<<FilterSetting(t, r, e, "disabled"),
                   FilterSetting("url", second, NoPattern, "enabled")>> :
                 t \in {"url", "other"},
                 r \in {NoPattern, {"a"}, {"a", "b"}, BadPattern},
                 e \in {NoPattern, {"a"}, {"a", "b"}},
                 second \in {{"b"}, BadPattern}}

Ones(n) == [i \in 1..n |-> 1]
Counting(n) == [i \in 1..n |-> i]

Hex(b) == [odd |-> FALSE, hex |-> TRUE, bytes |-> b]

\* Every first byte of version 2, with ids that begin with zeros or not and lengths up to and
\* around those the first byte announces; ids that are all zero; text that is not hexadecimal;
\* and the longest there may be.
MCHeaders ==
  {Hex(<<16 * v + low>> \o SubSeq(fill, 1, n)) :
     v \in {2}, low \in 0..15, fill \in {Ones(30), Counting(30), Zeros(4) \o Ones(26)},
     n \in {0, 8, 9, 25, 29, 30}}
  \cup {[odd |-> o, hex |-> ~o, bytes |-> <<43>> \o Ones(29)] : o \in BOOLEAN}
  \cup {Hex(<<27>> \o Ones(29)), Hex(<<43>> \o Zeros(20) \o Ones(9)), Hex(<<40>> \o Zeros(13))}
  \cup {Hex(<<43>> \o Ones(n)) : n \in {511, 512}}

MCResponseHeaders == {NoHeader, Hex(<<43>> \o Ones(29)), Hex(<<43>> \o Counting(29))}
\* Which goroutine asks makes no difference.
MCSymmetry == Permutations(Requests)

MCTaskDraws == {ReadError, Zeros(20), Ones(20)}
MCOpDraws == {ReadError, Ones(8), [i \in 1..8 |-> 7]}

MCInit ==
  /\ part \in {"decision", "bucket", "handlers", "filters", "metadata"}
  /\ \/ part = "decision"
     \/ /\ part # "decision"
        /\ local = CHOOSE l \in Locals : TRUE
        /\ request = CHOOSE q \in RequestKinds : TRUE
  /\ \/ part = "handlers"
     \/ part # "handlers" /\ sampling = FALSE /\ link = [h \in HopSet |-> "forward"]
  /\ part = "filters" \/ (part # "filters" /\ settings = <<>>)
  /\ part = "metadata" \/ (part # "metadata" /\ read = NoHeader)
  /\ SampleInit /\ Init /\ HandlersInit /\ FiltersInit /\ MetadataInit

MCNext ==
  \/ /\ part = "decision" /\ SampleNext
     /\ UNCHANGED <<part, vars, handlerVars, filterVars, mdVars>>
  \/ /\ part = "bucket" /\ Next
     /\ UNCHANGED <<part, sampleVars, handlerVars, filterVars, mdVars>>
  \/ /\ part = "handlers" /\ HandlersNext
     /\ UNCHANGED <<part, sampleVars, vars, filterVars, mdVars>>
  \/ /\ part = "filters" /\ FiltersNext
     /\ UNCHANGED <<part, sampleVars, vars, handlerVars, mdVars>>
  \/ /\ part = "metadata" /\ MetadataNext
     /\ UNCHANGED <<part, sampleVars, vars, handlerVars, filterVars>>

\* The types of every part (oboe.go:47-80, :188-209, http_instrumentation.go:85-151).
SamplingRunTypes == TypeOK /\ SamplingTypeOK /\ HandlersTypeOK

MCSpec == MCInit /\ [][MCNext]_MCvars
=============================================================================
