--------------------------------- MODULE Filters ---------------------------------
(***************************************************************************)
(* Transaction filters by URL: their settings (TransactionFilter in         *)
(* internal/config/config.go), the filters made of them and the cache of    *)
(* their answers (internal/reporter/url.go), asked by several requests.    *)
(*                                                                         *)
(* A pattern, regular expression or list of extensions, is the set of URLs  *)
(* it matches.  A URL of a request is one of Urls or NoURL.                 *)
(***************************************************************************)
EXTENDS Integers, Sequences, FiniteSetsExt

CONSTANTS
  Urls, NoURL,
  NoPattern, BadPattern,  \* a field that is not set; a regular expression that does not compile
  Askers,                 \* requests
  FilterSettings          \* the lists of transaction settings

Pattern == {NoPattern, BadPattern} \cup SUBSET Urls

TransactionSetting ==
  [type : {"url", "other"}, regex : Pattern, extensions : Pattern \ {BadPattern},
   tracing : {"enabled", "disabled", "unknown"}]

ASSUME FiltersAssumption ==
  /\ NoURL \notin Urls
  /\ NoPattern # BadPattern /\ \A p \in SUBSET Urls : p # NoPattern /\ p # BadPattern
  /\ FilterSettings \subseteq Seq(TransactionSetting)

VARIABLES
  settings,
  filters,  \* the filters made of the settings
  cache,    \* what freecache holds: a function from URLs to modes
  pending,  \* per request: the URL whose mode it has yet to store, or NoURL
  answer    \* per request: the latest answer, with its URL

filterVars == <<settings, filters, cache, pending, answer>>

NoAnswer == [url |-> NoURL, mode |-> "unknown"]

-----------------------------------------------------------------------------
(* Settings. *)

\* TransactionFilter.UnmarshalYAML: either a regular expression or a list of extensions.
Legal(f) ==
  /\ f.type = "url"
  /\ f.tracing \in {"enabled", "disabled"}
  /\ (f.regex = NoPattern) # (f.extensions = NoPattern)

\* loadConfig.  A regular expression that does not compile stays in the list, as a nil filter;
\* one illegal setting disables them all.
LoadedFilters(list) ==
  IF \E i \in DOMAIN list : ~Legal(list[i]) THEN <<>>
  ELSE [i \in DOMAIN list |->
          [match |-> IF list[i].regex # NoPattern THEN list[i].regex ELSE list[i].extensions,
           mode |-> list[i].tracing]]

Empty == [u \in {} |-> "unknown"]

FiltersInit ==
  /\ settings \in FilterSettings
  /\ filters = LoadedFilters(settings)
  /\ cache = Empty
  /\ pending = [a \in Askers |-> NoURL]
  /\ answer = [a \in Askers |-> NoAnswer]

\* ReloadURLsConfig, which is not to be called while anybody asks.
Reload ==
  /\ pending = [a \in Askers |-> NoURL]
  /\ settings' \in FilterSettings
  /\ filters' = LoadedFilters(settings')
  /\ cache' = Empty
  /\ answer' = [a \in Askers |-> NoAnswer]
  /\ UNCHANGED pending

-----------------------------------------------------------------------------
(* Answers. *)

\* Mutation: what is not disabled is enabled.
EnabledUnless(s) == IF s = "disabled" THEN s ELSE "enabled"

Mode(s) == IF s \in {"enabled", "disabled"} THEN s ELSE "unknown"

\* lookupTracingMode.  The match of a nil filter panics.
Lookup(url) ==
  LET stops == {i \in DOMAIN filters : filters[i].match = BadPattern \/ url \in filters[i].match}
  IN IF stops = {} THEN "unknown"
     ELSE IF filters[Min(stops)].match = BadPattern THEN "panicked" ELSE filters[Min(stops)].mode

Answer(a, url, mode) == answer' = [answer EXCEPT ![a] = [url |-> url, mode |-> mode]]

\* getTracingMode: without filters or with a cached answer; the cache keeps the mode as a string.
AskCached(a, url) ==
  /\ pending[a] = NoURL
  /\ \/ (filters = <<>> \/ url = NoURL) /\ Answer(a, url, "unknown")
     \/ filters # <<>> /\ url \in DOMAIN cache /\ Answer(a, url, Mode(cache[url]))
  /\ UNCHANGED <<settings, filters, cache, pending>>

AskFilters(a, url) ==
  /\ pending[a] = NoURL
  /\ filters # <<>> /\ url # NoURL /\ url \notin DOMAIN cache
  /\ Answer(a, url, Lookup(url))
  /\ pending' = [pending EXCEPT ![a] = IF Lookup(url) = "panicked" THEN NoURL ELSE url]
  /\ UNCHANGED <<settings, filters, cache>>

\* setURLTrace.
Store(a) ==
  /\ pending[a] # NoURL
  /\ cache' = [u \in DOMAIN cache \cup {pending[a]} |->
                 IF u = pending[a] THEN answer[a].mode ELSE cache[u]]
  /\ pending' = [pending EXCEPT ![a] = NoURL]
  /\ UNCHANGED <<settings, filters, answer>>

\* freecache drops what has expired, or what it has no room for.
Evict(url) ==
  /\ url \in DOMAIN cache
  /\ cache' = [u \in DOMAIN cache \ {url} |-> cache[u]]
  /\ UNCHANGED <<settings, filters, pending, answer>>

FiltersNext ==
  \/ Reload
  \/ \E a \in Askers :
       Store(a) \/ \E url \in Urls \cup {NoURL} : AskCached(a, url) \/ AskFilters(a, url)
  \/ \E url \in Urls : Evict(url)

FiltersSpec == FiltersInit /\ [][FiltersNext]_filterVars

-----------------------------------------------------------------------------
(* Correctness. *)

\* Whatever is cached, evicted or asked meanwhile, a request is told the mode of the first of
\* the settings that matches its URL; and a request only panics on a regular expression that
\* was to be ignored (url.go:135), if no earlier setting matches.
FilterAnswers ==
  \A a \in Askers :
    LET url == answer[a].url
        patterns(i) == {settings[i].regex, settings[i].extensions} \ {NoPattern, BadPattern}
        matching == {i \in DOMAIN settings : url \in UNION patterns(i)}
        bad == {i \in DOMAIN settings : settings[i].regex = BadPattern}
    IN IF url = NoURL \/ \E i \in DOMAIN settings : ~Legal(settings[i])
       THEN answer[a].mode = "unknown"
       ELSE CASE answer[a].mode = "panicked" -> \E i \in bad : \A j \in matching : i < j
              [] answer[a].mode = "unknown" -> matching = {} /\ bad = {}
              [] OTHER -> matching # {} /\ answer[a].mode = settings[Min(matching)].tracing
=============================================================================
