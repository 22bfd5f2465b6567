---------------------------- MODULE RecordOptions ----------------------------
(***************************************************************************)
(* How the command record arrives at its configuration: the option parser, *)
(* the scan of the arguments for topics, the configuration file and what   *)
(* the options override in it (src/cli/commands/RecordCommand.cpp,         *)
(* src/src/record/Configuration.cpp, src/src/core/Config.cpp), and the     *)
(* filter that decides which topics are recorded (src/src/core/Types.cpp). *)
(*                                                                         *)
(* A text is what strtod() makes of it: a number and the rest behind it.   *)
(* An argument of the command line is a word, an option or a ROS remapping *)
(* "__x:=y"; an option stands alone ("bare"), has its argument attached    *)
(* ("-oX") or behind an equals sign ("--output-prefix=X").                 *)
(***************************************************************************)
EXTENDS Integers, Selection

CONSTANTS
    Topics,        \* the topics of the network, as texts
    Language,      \* the topics that some texts match as a regular expression
    Malformed,     \* the texts that std::regex refuses
    Kilo,          \* 1024
    SizeModulus    \* 2^64

NoDigits == -1
Text(word) == [num |-> NoDigits, rest |-> word]
NoText == Text("")

Texts == [num : Nat \cup {NoDigits}, rest : STRING]

\* strtod() answers 0 for a text that does not begin with a number.
Value(text) == IF text.num = NoDigits THEN 0 ELSE text.num

-----------------------------------------------------------------------------
(* TopicFilter.                                                            *)

EmptyFilter == [topics |-> <<>>, useRegex |-> FALSE, exclude |-> NoText]

\* std::regex_match(): the whole name.  A plain name matches itself.
MatchedBy(pattern) == IF pattern \in DOMAIN Language THEN Language[pattern] ELSE {pattern}

ASSUME OptionsAssumption ==
    /\ Kilo \in Nat \ {0}
    /\ SizeModulus \in Nat \ {0}
    /\ \A topic \in Topics : topic \notin MatchedBy(NoText)

Excluded(filter, topic) == filter.exclude # NoText /\ topic \in MatchedBy(filter.exclude)

Hits(filter, topic, i) ==
    IF filter.useRegex THEN topic \in MatchedBy(filter.topics[i]) ELSE topic = filter.topics[i]

Matches(filter, topic) ==
    /\ ~Excluded(filter, topic)
    /\ filter.topics = <<>> \/ \E i \in DOMAIN filter.topics : Hits(filter, topic, i)

\* Does matches() reach a pattern that cannot be compiled?
Throws(filter, topic) ==
    \/ filter.exclude \in Malformed
    \/ /\ ~Excluded(filter, topic) /\ filter.useRegex
       /\ \E i \in DOMAIN filter.topics :
             /\ filter.topics[i] \in Malformed
             /\ \A j \in 1..(i - 1) : ~Hits(filter, topic, j)

-----------------------------------------------------------------------------
(* option::Parser: every option it knows, with the text attached to it, or *)
(* with the next argument if that is not an option.  The first occurrence  *)
(* of an option is the one that counts.                                    *)

Takes == {"config", "exclude", "output", "output_name", "domain", "max_splits", "size",
          "duration", "min_space"}
Flags == {"help", "all", "regex", "split", "zstd", "lz4", "no_compression", "quiet",
          "verbose"}

Argument == [opt : STRING, style : {"bare", "attached", "equals"}, text : Texts]

IsOption(arg) == arg.opt \notin {"word", "remap"}

TakesNext(argv, i) ==
    /\ argv[i].opt \in Takes /\ argv[i].style = "bare"
    /\ i < Len(argv) /\ ~IsOption(argv[i + 1])

Given(argv, opt) == \E i \in DOMAIN argv : argv[i].opt = opt

First(argv, opt) ==
    CHOOSE i \in DOMAIN argv : argv[i].opt = opt /\ \A j \in 1..(i - 1) : argv[j].opt # opt

HasArg(argv, opt) ==
    /\ Given(argv, opt)
    /\ LET i == First(argv, opt) IN argv[i].style # "bare" \/ TakesNext(argv, i)

Arg(argv, opt) ==
    LET i == First(argv, opt)
    IN  IF argv[i].style # "bare" THEN argv[i].text ELSE argv[i + 1].text

-----------------------------------------------------------------------------
(* execute() looks for the topics by itself: whatever follows an option    *)
(* without '=' that is not spelled like a flag is passed over.             *)

SkipsNext(arg) ==
    /\ IsOption(arg) /\ arg.style # "equals"
    /\ ~(arg.opt \in Flags /\ arg.style = "bare")

Skipped(argv) ==
    LET skipped[i \in 0..Len(argv)] ==
            i > 1 /\ ~skipped[i - 1] /\ SkipsNext(argv[i - 1])
    IN  skipped

CliTopics(argv) ==
    LET words == {i \in DOMAIN argv : argv[i].opt = "word" /\ ~Skipped(argv)[i]}
        found == Selected([i \in DOMAIN argv |-> i], words)
    IN  [k \in DOMAIN found |-> argv[found[k]].text]

-----------------------------------------------------------------------------
(* Configuration and ConfigBase.  A file is a function from the keys it    *)
(* has to their values; a value that cannot be converted counts as absent. *)

Megabytes(n) == (n * Kilo * Kilo) % SizeModulus

Get(file, key, default) == IF key \in DOMAIN file THEN file[key] ELSE default

\* A file keeps to the types that get_optional() asks for.
IsFile(file) ==
    /\ "topics" \in DOMAIN file => file["topics"] \in Seq(Texts)
    /\ \A key \in DOMAIN file \cap {"use_regex", "append_date", "split", "enabled"} :
          file[key] \in BOOLEAN
    /\ \A key \in DOMAIN file \cap {"max_duration", "max_file_size"} : file[key] \in Nat

\* The section dds: no file has an exclusion.
FileFilter(file) ==
    [EmptyFilter EXCEPT !.topics   = Get(file, "topics", <<>>),
                        !.useRegex = Get(file, "use_regex", FALSE)]

FileConfig(file) ==
    [domain      |-> Get(file, "domain_id", 0),
     filter      |-> FileFilter(file),
     prefix      |-> Get(file, "prefix", Text("recording")),
     appendDate  |-> Get(file, "append_date", TRUE),
     maxSize     |-> Megabytes(Get(file, "max_file_size", 0)),
     maxDuration |-> Get(file, "max_duration", 0),
     split       |-> Get(file, "split", FALSE),
     maxSplits   |-> Get(file, "max_splits", 0),
     minSpace    |-> Megabytes(Get(file, "min_space", Kilo)),
     compress    |-> Get(file, "enabled", TRUE),
     compression |-> Get(file, "type", "zstd")]

\* parse_size(): in MB, unless a unit is appended.
ParseSize(text) ==
    CASE text.rest = "G" -> Value(text) * Kilo * Kilo * Kilo
      [] text.rest = "k" -> Value(text) * Kilo
      [] OTHER           -> Value(text) * Kilo * Kilo

\* parse_duration(): in seconds, unless a unit is appended.
ParseDuration(text) ==
    Value(text) * (CASE text.rest = "m" -> 60 [] text.rest = "h" -> 3600 [] OTHER -> 1)

-----------------------------------------------------------------------------
(* execute(): what the options override, in the order of the code.         *)

WithTopics(argv, filter) ==
    LET topics == CliTopics(argv)
        chosen == IF Given(argv, "all") THEN EmptyFilter
                  ELSE IF topics # <<>> THEN [EmptyFilter EXCEPT !.topics = topics]
                  ELSE filter
    IN  IF Given(argv, "regex") /\ ~Given(argv, "all")
        THEN [chosen EXCEPT !.useRegex = TRUE]
        ELSE chosen

FilterFor_ExcludeFirst(argv, filter) ==
    WithTopics(argv, IF HasArg(argv, "exclude")
                     THEN [filter EXCEPT !.exclude = Arg(argv, "exclude")] ELSE filter)

FilterFor(argv, filter) ==
    LET chosen == WithTopics(argv, filter)
    IN  IF HasArg(argv, "exclude")
        THEN [chosen EXCEPT !.exclude = Arg(argv, "exclude")] ELSE chosen

\* What the argument of an option stands for.
Parse(opt, text) ==
    CASE opt = "duration"                 -> ParseDuration(text)
      [] opt \in {"size", "min_space"}    -> ParseSize(text)
      [] opt \in {"domain", "max_splits"} -> Value(text)
      [] OTHER                            -> text

Override(argv, opt, default) ==
    IF HasArg(argv, opt) THEN Parse(opt, Arg(argv, opt)) ELSE default

NameFor_KeepsTheDate(argv, config) ==
    [config EXCEPT
        !.prefix = Override(argv, "output_name", Override(argv, "output", @))]

\* -O names the file, -o only its beginning.
NameFor(argv, config) ==
    [config EXCEPT
        !.prefix = Override(argv, "output_name", Override(argv, "output", @)),
        !.appendDate = @ /\ ~HasArg(argv, "output_name")]

LimitsFor(argv, config) ==
    [config EXCEPT
        !.maxDuration = Override(argv, "duration", @),
        !.maxSize     = Override(argv, "size", @),
        !.split       = @ \/ Given(argv, "split"),
        !.maxSplits   = Override(argv, "max_splits", @),
        !.minSpace    = Override(argv, "min_space", @)]

CompressionFor(argv, config) ==
    [config EXCEPT
        !.compression = IF Given(argv, "lz4") THEN "lz4"
                        ELSE IF Given(argv, "zstd") THEN "zstd" ELSE @,
        !.compress = /\ @ \/ Given(argv, "zstd") \/ Given(argv, "lz4")
                     /\ ~Given(argv, "no_compression")]

Effective(file, argv) ==
    LET config == [FileConfig(file) EXCEPT !.filter = FilterFor(argv, @),
                                           !.domain = Override(argv, "domain", @)]
    IN  CompressionFor(argv, LimitsFor(argv, NameFor(argv, config)))

\* std::stoi() and std::stoul() throw when there is no number, and nothing catches it.
BadNumber(argv) ==
    \E opt \in {"domain", "max_splits"} :
        HasArg(argv, opt) /\ Arg(argv, opt).num = NoDigits

\* check_limits() has something to check.
HasLimit(config) == config.maxDuration > 0 \/ config.maxSize > 0

-----------------------------------------------------------------------------
(* What a command line asks for, by the usage text alone.                  *)

\* Each option is one the usage text lists, in the form it lists it in.
Regular(argv) ==
    \A i \in DOMAIN argv :
        \/ ~IsOption(argv[i])
        \/ argv[i].opt \in Flags /\ argv[i].style = "bare"
        \/ argv[i].opt \in Takes /\ (argv[i].style = "equals" \/ TakesNext(argv, i))

\* [TOPIC1 TOPIC2 ...]: the words that belong to no option.
TopicArguments(argv) ==
    {argv[i].text : i \in {i \in DOMAIN argv :
        argv[i].opt = "word" /\ ~(i > 1 /\ TakesNext(argv, i - 1))}}

\* Is this topic to be recorded?  -x "subtracts from -a or regex".
Asked(file, argv, topic) ==
    LET named == TopicArguments(argv)
        listed == IF named = {} /\ "topics" \in DOMAIN file
                  THEN {file.topics[i] : i \in DOMAIN file.topics} ELSE named
        regex == \/ Given(argv, "regex")
                 \/ named = {} /\ "use_regex" \in DOMAIN file /\ file.use_regex
    IN  /\ HasArg(argv, "exclude") => topic \notin MatchedBy(Arg(argv, "exclude"))
        /\ \/ Given(argv, "all")
           \/ listed = {}
           \/ \E pattern \in listed :
                 IF regex THEN topic \in MatchedBy(pattern) ELSE topic = pattern

\* The settings, but for the topics, that an option decides: -o says that the name ends
\* with a date, -O that it does not.
Decides(opt) ==
    CASE opt \in {"output", "output_name"} -> {"prefix", "appendDate"}
      [] opt = "domain"      -> {"domain"}
      [] opt = "duration"    -> {"maxDuration"}
      [] opt = "size"        -> {"maxSize"}
      [] opt = "max_splits"  -> {"maxSplits"}
      [] opt = "min_space"   -> {"minSpace"}
      [] opt = "split"       -> {"split"}
      [] opt = "no_compression"  -> {"compress"}
      [] opt \in {"zstd", "lz4"} -> {"compress", "compression"}
      [] OTHER -> {}

Decided(argv) ==
    UNION {Decides(opt) : opt \in {opt \in Takes : HasArg(argv, opt)}
                                   \cup {opt \in Flags : Given(argv, opt)}}
=============================================================================
