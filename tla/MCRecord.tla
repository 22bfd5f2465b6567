------------------------------ MODULE MCRecord ------------------------------
(* Instances of RecordCommand for TLC.                                     *)
EXTENDS RecordCommand

NoThread == {}

a == Text("/a")
b == Text("/b")
MCTopics == {a, b}

\* A regular expression for all topics, and one that does not compile.
Any    == Text("/.*")
Broken == Text("/[")
MCLanguage == [pattern \in {Any} |-> MCTopics]
MCMalformed == {Broken}

Number(n, unit) == [num |-> n, rest |-> unit]

Word(text)       == [opt |-> "word", style |-> "bare", text |-> text]
Bare(opt)        == [opt |-> opt, style |-> "bare", text |-> NoText]
Attached(o, txt) == [opt |-> o, style |-> "attached", text |-> txt]
Equals(o, txt)   == [opt |-> o, style |-> "equals", text |-> txt]

MCCommandLines == <<
    <<>>,
    <<Word(a)>>,
    <<Bare("all"), Word(a)>>,
    <<Bare("config"), Word(Text("f.yaml"))>>,
    <<Bare("config"), Word(Text("f.yaml")), Word(b), Bare("regex")>>,
    <<Equals("config", Text("f.yaml")), Bare("regex"), Equals("exclude", b)>>,
    <<Bare("config"), Word(Text("f.yaml")), Bare("all"), Bare("exclude"), Word(a),
      Bare("split")>>,
    <<Bare("output"), Word(Text("bag")), Word(a), Bare("split"), Word(Any), Bare("size"),
      Word(Number(2, "k"))>>,
    <<Bare("output"), Word(Text("bag")), Equals("config", Text("f.yaml"))>>,
    <<Bare("output_name"), Word(Text("bag")), Bare("config"), Word(Text("f.yaml")),
      Equals("duration", Number(1, "m")), Bare("no_compression"), Bare("lz4")>>,
    <<Bare("regex"), Word(Any), Equals("exclude", Any), [Word(a) EXCEPT !.opt = "remap"]>>,
    <<Attached("domain", Number(1, "")), Word(a)>>,
    <<Bare("domain"), Bare("output"), Word(a), Bare("unknown"), Word(b)>>,
    <<Bare("domain"), Word(Text("one"))>>,
    <<Bare("max_splits"), Word(Number(2, "")), Bare("min_space"), Word(Number(1, "G")),
      Equals("config", Text("f.yaml")), Equals("duration", Number(0, ""))>>,
    <<Bare("regex"), Word(a), Word(Broken)>>,
    <<Bare("exclude"), Word(Broken)>>,
    <<Bare("help"), Word(a)>> >>

OneCommandLine == << <<Word(a)>> >>

MCConfigFiles == <<
    [key \in {"max_duration"} |-> 1],
    [topics |-> <<Any>>, use_regex |-> TRUE, split |-> TRUE, max_file_size |-> 1],
    [topics |-> <<a, Any>>, prefix |-> Text("file"), append_date |-> FALSE,
     max_file_size |-> 64, max_splits |-> 3, min_space |-> 0, enabled |-> FALSE],
    [topics |-> <<Broken, a>>, domain_id |-> 3, split |-> TRUE, type |-> "none"] >>
=============================================================================
