-------------------------- MODULE SplitRegistration --------------------------
(***************************************************************************)
(* How topics, types, schemas and channels of a recording find their way   *)
(* into its MCAP files.  Two threads work on the same McapWriter while a   *)
(* recording is Running: the discovery thread registers what it discovers  *)
(* (Recorder::on_endpoint_discovered), and the polling thread writes the   *)
(* samples it takes and, with OutputConfig::split, replaces the file and   *)
(* registers everything again (Recorder::do_split, McapWriter::reopen).    *)
(*                                                                         *)
(* register_schema() and register_channel() run under McapWriter::mutex_;  *)
(* reopen() does not take it.  The steps are therefore the statements of   *)
(* the two register functions, one locked lookup each, and the statements  *)
(* of reopen().  That the same race can corrupt the unordered_maps and the *)
(* mcap::McapWriter themselves is left out: this is what happens when it   *)
(* does not.                                                               *)
(***************************************************************************)
EXTENDS Naturals, Sequences

CONSTANTS
    Topics, Types,
    Endpoints,   \* the writers that pass the topic filter: [topic, type]
    NoType,      \* "", the type name of a topic that is not registered
    MaxSplits    \* bound: how often do_split() runs

ASSUME RegistrationAssumption ==
    /\ Endpoints \subseteq [topic : Topics, type : Types]
    /\ NoType \notin Types
    /\ MaxSplits \in Nat

VARIABLES
    known,        \* TypesCollection::types_, the types collected so far
    topicType,    \* TypesCollection::topics_, the last type registered for a topic
    reader,       \* Recorder::readers_: the type each topic's reader was created with
    isOpen,       \* McapWriter::is_open_
    schemaIds,    \* McapWriter::schema_ids_, 0 for a type that is not in the map
    channelIds,   \* McapWriter::channel_ids_, 0 for a topic that is not in the map
    schemas,      \* mcap::McapWriter::schemas_, the schema with id i at position i
    channels,     \* mcap::McapWriter::channels_, the channel with id i at position i
    file,         \* what the messages in the open file say about themselves
    disc,         \* the discovery thread: where it is, its endpoint, its local id
    poll,         \* the polling thread: where it is
    todo,         \* the readers its re-registration still has to visit
    current,      \* the topic it visits, with the type it looked up
    splits,       \* how often do_split() ran
    raced         \* history: was an endpoint being discovered during the last reopen()?

vars == <<known, topicType, reader, isOpen, schemaIds, channelIds, schemas, channels,
          file, disc, poll, todo, current, splits, raced>>

collection == <<known, topicType, reader>>
writer     == <<isOpen, schemaIds, channelIds, schemas, channels, file>>
polling    == <<poll, todo, current, splits, raced>>

NoEndpoint == [topic |-> NoType, type |-> NoType]

DiscPC == {"idle", "has_schema", "schema_enter", "schema_add", "schema_store",
           "has_channel", "schema_id", "channel_enter", "channel_add", "channel_store",
           "setup_reader"}
Reopening     == {"new_writer", "clear_schemas", "clear_channels", "open"}
ReRegistering == {"re_register", "re_schema", "re_channel"}
PollPC        == {"poll"} \cup Reopening \cup ReRegistering

Channel == [topic : Topics, schema : Nat]

\* A message as a reader of the file sees it: the topic and the type of the sample, and
\* the topic and the schema that its channel declares.
Message == [sample : Topics, type : Types,
            topic : Topics, schema : Types \cup {NoType}]

TypeOK ==
    /\ known \subseteq Types
    /\ topicType \in [Topics -> Types \cup {NoType}]
    /\ reader \in [Topics -> Types \cup {NoType}]
    /\ isOpen \in BOOLEAN
    /\ schemaIds \in [Types -> Nat]
    /\ channelIds \in [Topics -> Nat]
    /\ schemas \in Seq(Types)
    /\ channels \in Seq(Channel)
    /\ file \subseteq Message
    /\ disc \in [at : DiscPC, endpoint : Endpoints \cup {NoEndpoint}, id : Nat]
    /\ disc.at # "idle" => disc.endpoint \in Endpoints
    /\ poll \in PollPC
    /\ todo \subseteq Topics
    /\ current \in [topic : Topics, type : Types \cup {NoType}] \cup {NoEndpoint}
    /\ poll \in {"re_schema", "re_channel"} => current \in [topic : Topics, type : Types]
    /\ splits \in 0..MaxSplits
    /\ raced \in BOOLEAN

\* A recording has just begun: the file is open and nothing is discovered.
Init ==
    /\ known = {}
    /\ topicType = [t \in Topics |-> NoType]
    /\ reader = [t \in Topics |-> NoType]
    /\ isOpen = TRUE
    /\ schemaIds = [y \in Types |-> 0]
    /\ channelIds = [t \in Topics |-> 0]
    /\ schemas = <<>>
    /\ channels = <<>>
    /\ file = {}
    /\ disc = [at |-> "idle", endpoint |-> NoEndpoint, id |-> 0]
    /\ poll = "poll"
    /\ todo = {}
    /\ current = NoEndpoint
    /\ splits = 0
    /\ raced = FALSE

Subscribed == {t \in Topics : reader[t] # NoType}

\* The schema of the channel that samples of topic t are recorded in: NoType when it has
\* none, or the id is of no channel or no schema of the open file.
SchemaOf(t) ==
    LET id == channelIds[t] IN
    IF id \in 1..Len(channels) /\ channels[id].schema \in 1..Len(schemas)
    THEN schemas[channels[id].schema] ELSE NoType

\* The discovery thread is inside register_schema() or register_channel().
MutexHeld == disc.at \in {"schema_add", "schema_store", "channel_add", "channel_store"}

-----------------------------------------------------------------------------
(* Recorder::on_endpoint_discovered, on the discovery thread.              *)

DiscGoto(from, to) ==
    /\ disc.at = from
    /\ disc' = [disc EXCEPT !.at = to]
    /\ UNCHANGED polling

\* add_type() keeps a type it has; register_topic() overwrites the type of the topic.
\* No lock keeps the discovery thread out while reopen() is under way.
DiscCollect ==
    /\ disc.at = "idle"
    /\ raced' = (raced \/ poll \in Reopening)
    /\ \E e \in Endpoints :
           /\ disc' = [disc EXCEPT !.at = "has_schema", !.endpoint = e]
           /\ known' = known \cup {e.type}
           /\ topicType' = [topicType EXCEPT ![e.topic] = e.type]
    /\ UNCHANGED <<reader, writer, poll, todo, current, splits>>

DiscHasSchema ==
    /\ DiscGoto("has_schema",
                IF schemaIds[disc.endpoint.type] # 0 THEN "has_channel" ELSE "schema_enter")
    /\ UNCHANGED <<collection, writer>>

\* register_schema(): known already, or no file to register it in.
DiscSchemaEnter ==
    /\ DiscGoto("schema_enter",
                IF schemaIds[disc.endpoint.type] # 0 \/ ~isOpen
                THEN "has_channel" ELSE "schema_add")
    /\ UNCHANGED <<collection, writer>>

\* mcap::McapWriter::addSchema() numbers the schemas from 1.
DiscSchemaAdd ==
    /\ disc.at = "schema_add"
    /\ schemas' = Append(schemas, disc.endpoint.type)
    /\ disc' = [disc EXCEPT !.at = "schema_store", !.id = Len(schemas')]
    /\ UNCHANGED <<collection, isOpen, schemaIds, channelIds, channels, file, polling>>

DiscSchemaStore ==
    /\ DiscGoto("schema_store", "has_channel")
    /\ schemaIds' = [schemaIds EXCEPT ![disc.endpoint.type] = disc.id]
    /\ UNCHANGED <<collection, isOpen, channelIds, schemas, channels, file>>

DiscHasChannel ==
    /\ DiscGoto("has_channel",
                IF channelIds[disc.endpoint.topic] # 0 THEN "setup_reader" ELSE "schema_id")
    /\ UNCHANGED <<collection, writer>>

\* get_schema_id() answers 0 for a type that is not in the map.
DiscSchemaId ==
    /\ disc.at = "schema_id"
    /\ disc' = [disc EXCEPT !.at = "channel_enter",
                            !.id = schemaIds[disc.endpoint.type]]
    /\ UNCHANGED <<collection, writer, polling>>

DiscChannelEnter ==
    /\ DiscGoto("channel_enter",
                IF channelIds[disc.endpoint.topic] # 0 \/ ~isOpen
                THEN "setup_reader" ELSE "channel_add")
    /\ UNCHANGED <<collection, writer>>

DiscChannelAdd ==
    /\ disc.at = "channel_add"
    /\ channels' = Append(channels, [topic |-> disc.endpoint.topic, schema |-> disc.id])
    /\ disc' = [disc EXCEPT !.at = "channel_store", !.id = Len(channels')]
    /\ UNCHANGED <<collection, isOpen, schemaIds, channelIds, schemas, file, polling>>

DiscChannelStore ==
    /\ DiscGoto("channel_store", "setup_reader")
    /\ channelIds' = [channelIds EXCEPT ![disc.endpoint.topic] = disc.id]
    /\ UNCHANGED <<collection, isOpen, schemaIds, schemas, channels, file>>

\* setup_reader_for_topic(): at most one reader per topic, and none when DDS refuses
\* it.  The unlocked iteration of re_register_schemas_and_channels() may or may not
\* meet a reader that is inserted while it runs.
DiscSetupReader ==
    LET topic == disc.endpoint.topic IN
    /\ disc.at = "setup_reader"
    /\ disc' = [disc EXCEPT !.at = "idle", !.endpoint = NoEndpoint, !.id = 0]
    /\ \/ UNCHANGED <<reader, todo>>
       \/ /\ reader[topic] = NoType
          /\ reader' = [reader EXCEPT ![topic] = disc.endpoint.type]
          /\ \/ UNCHANGED todo
             \/ /\ poll \in ReRegistering
                /\ todo' = todo \cup {topic}
    /\ UNCHANGED <<known, topicType, writer, poll, current, splits, raced>>

Discovery ==
    \/ DiscCollect \/ DiscHasSchema \/ DiscSchemaEnter \/ DiscSchemaAdd
    \/ DiscSchemaStore \/ DiscHasChannel \/ DiscSchemaId \/ DiscChannelEnter
    \/ DiscChannelAdd \/ DiscChannelStore \/ DiscSetupReader

-----------------------------------------------------------------------------
(* The polling thread.                                                     *)

\* record_sample(): get_channel_id() needs the mutex; mcap::McapWriter::write() refuses
\* ids it does not have, and schema id 0 stands for "no schema".
RecordSample(t) ==
    LET id == channelIds[t] IN
    /\ poll = "poll"
    /\ ~MutexHeld
    /\ id \in 1..Len(channels)
    /\ channels[id].schema \in 0..Len(schemas)
    /\ file' = file \cup
          {[sample |-> t, type |-> reader[t], topic |-> channels[id].topic,
            schema |-> SchemaOf(t)]}
    /\ UNCHANGED <<collection, isOpen, schemaIds, channelIds, schemas, channels, disc,
                   polling>>

PollGoto(from, to) ==
    /\ poll = from
    /\ poll' = to
    /\ UNCHANGED <<collection, disc>>

\* do_split() calls reopen(), which saves the maps of the open file (and never looks at
\* them again) and calls close(): no file is open.
SplitClose ==
    /\ splits < MaxSplits
    /\ PollGoto("poll", "new_writer")
    /\ splits' = splits + 1
    /\ raced' = (disc.at # "idle")
    /\ isOpen' = FALSE
    /\ file' = {}
    /\ UNCHANGED <<schemaIds, channelIds, schemas, channels, todo, current>>

SplitNewWriter ==
    /\ PollGoto("new_writer", "clear_schemas")
    /\ schemas' = <<>>
    /\ channels' = <<>>
    /\ UNCHANGED <<isOpen, schemaIds, channelIds, file, todo, current, splits, raced>>

SplitClearSchemas ==
    /\ PollGoto("clear_schemas", "clear_channels")
    /\ schemaIds' = [y \in Types |-> 0]
    /\ UNCHANGED <<isOpen, channelIds, schemas, channels, file, todo, current, splits, raced>>

SplitClearChannels_Skipped ==
    /\ PollGoto("clear_channels", "open")
    /\ UNCHANGED <<writer, todo, current, splits, raced>>

SplitClearChannels ==
    /\ PollGoto("clear_channels", "open")
    /\ channelIds' = [t \in Topics |-> 0]
    /\ UNCHANGED <<isOpen, schemaIds, schemas, channels, file, todo, current, splits, raced>>

SplitOpen ==
    /\ PollGoto("open", "re_register")
    /\ isOpen' = TRUE
    /\ todo' = Subscribed
    /\ UNCHANGED <<schemaIds, channelIds, schemas, channels, file, current, splits, raced>>

\* One pass of the loop in re_register_schemas_and_channels(); a topic whose type was
\* not collected is skipped.
ReRegisterNext(t) ==
    /\ t \in todo
    /\ PollGoto("re_register", IF topicType[t] \in known THEN "re_schema" ELSE "re_register")
    /\ todo' = todo \ {t}
    /\ current' = [topic |-> t, type |-> topicType[t]]
    /\ UNCHANGED <<writer, splits, raced>>

\* A locked call finds the discovery thread outside of its own.
ReRegisterSchema ==
    /\ ~MutexHeld
    /\ PollGoto("re_schema", "re_channel")
    /\ IF schemaIds[current.type] # 0
       THEN UNCHANGED <<schemas, schemaIds>>
       ELSE /\ schemas' = Append(schemas, current.type)
            /\ schemaIds' = [schemaIds EXCEPT ![current.type] = Len(schemas')]
    /\ UNCHANGED <<isOpen, channelIds, channels, file, todo, current, splits, raced>>

ReRegisterChannel ==
    /\ ~MutexHeld
    /\ PollGoto("re_channel", "re_register")
    /\ IF channelIds[current.topic] # 0
       THEN UNCHANGED <<channels, channelIds>>
       ELSE /\ channels' = Append(channels, [topic |-> current.topic,
                                            schema |-> schemaIds[current.type]])
            /\ channelIds' = [channelIds EXCEPT ![current.topic] = Len(channels')]
    /\ current' = NoEndpoint
    /\ UNCHANGED <<isOpen, schemaIds, schemas, file, todo, splits, raced>>

ReRegisterDone_AfterTheFirst ==
    /\ PollGoto("re_register", "poll")
    /\ todo' = {}
    /\ UNCHANGED <<writer, current, splits, raced>>

ReRegisterDone ==
    /\ todo = {}
    /\ PollGoto("re_register", "poll")
    /\ UNCHANGED <<writer, todo, current, splits, raced>>

Polling ==
    \/ \E t \in Subscribed : RecordSample(t)
    \/ SplitClose \/ SplitNewWriter \/ SplitClearSchemas \/ SplitClearChannels \/ SplitOpen
    \/ \E t \in Topics : ReRegisterNext(t)
    \/ ReRegisterSchema \/ ReRegisterChannel \/ ReRegisterDone

Next == Discovery \/ Polling

Spec == Init /\ [][Next]_vars

-----------------------------------------------------------------------------
(* Properties.                                                             *)

Announced(t, y) == [topic |-> t, type |-> y] \in Endpoints

\* Whenever samples are polled, each topic that has a reader has a channel to record
\* them in: re_register_schemas_and_channels() restores what reopen() cleared, and
\* on_endpoint_discovered() registers before it subscribes.
SubscribedHasChannel ==
    poll = "poll" => \A t \in Subscribed : channelIds[t] # 0

\* Every message of a file lies in a channel of the topic it was received on.
RecordedUnderItsTopic == \A m \in file : m.topic = m.sample

\* Every message of a file whose reopen() met no discovery carries the schema of the type
\* it was received with.
RecordedWithItsType == ~raced => \A m \in file : m.schema = m.type

\* Every message of a file whose reopen() met no discovery lies in the channel of its
\* topic, with a schema that a writer has announced for that topic (the one of its own
\* type, when the topic has one type only): over any number of splits, whatever became
\* of the files before, and with discoveries at any moment of the re-registration.
RecordedAsReceived ==
    ~raced => \A m \in file : m.topic = m.sample /\ Announced(m.topic, m.schema)

\* The ids in the maps are those of the open file: outside a register call they name the
\* channel of that topic and the schema of that type, and a file has one of each.
IdsNameTheOpenFile ==
    poll = "poll" /\ ~MutexHeld =>
        /\ \A t \in Topics : channelIds[t] # 0 =>
              channelIds[t] <= Len(channels) /\ channels[channelIds[t]].topic = t
        /\ \A y \in Types : schemaIds[y] # 0 =>
              schemaIds[y] <= Len(schemas) /\ schemas[schemaIds[y]] = y
        /\ \A i, j \in 1..Len(channels) : channels[i].topic = channels[j].topic => i = j
        /\ \A i, j \in 1..Len(schemas) : schemas[i] = schemas[j] => i = j

-----------------------------------------------------------------------------
(* The inductive invariant of SplitRegistration_proofs, by subject.  The   *)
(* first three parts hold in every state, the others unless the last       *)
(* reopen() met a discovery.                                               *)

\* What has been collected, is read and is re-registered comes from the endpoints.
CollectionInv ==
    /\ \A t \in Topics : topicType[t] # NoType =>
          Announced(t, topicType[t]) /\ topicType[t] \in known
    /\ \A t \in Subscribed : topicType[t] # NoType
    /\ disc.at # "idle" => topicType[disc.endpoint.topic] = disc.endpoint.type
    /\ todo \subseteq Subscribed
    /\ poll \in {"re_schema", "re_channel"} => current \in Endpoints

\* The file is open unless reopen() is replacing it.
OpenInv == poll \notin Reopening => isOpen

\* reopen() on its way: a new writer is empty, and the maps follow one by one.
ReopenInv ==
    /\ poll \in Reopening => disc.at = "idle" /\ file = {}
    /\ poll \in {"clear_schemas", "clear_channels", "open"} => schemas = <<>> /\ channels = <<>>
    /\ poll \in {"clear_channels", "open"} => \A y \in Types : schemaIds[y] = 0
    /\ poll = "open" => \A t \in Topics : channelIds[t] = 0

\* The maps and the writer name the same schemas and channels, but for the one that the
\* discovery thread is about to store.
IdsInv ==
    poll \notin {"new_writer", "clear_schemas", "clear_channels"} =>
        /\ \A t \in Topics : channelIds[t] # 0 =>
              channelIds[t] <= Len(channels) /\ channels[channelIds[t]].topic = t
        /\ \A y \in Types : schemaIds[y] # 0 =>
              schemaIds[y] <= Len(schemas) /\ schemas[schemaIds[y]] = y
        /\ \A i \in 1..Len(channels) :
              /\ channels[i].schema \in 1..Len(schemas)
              /\ Announced(channels[i].topic, schemas[channels[i].schema])
              /\ \/ channelIds[channels[i].topic] = i
                 \/ (disc.at = "channel_store" /\ i = Len(channels))
        /\ \A i \in 1..Len(schemas) :
              \/ schemaIds[schemas[i]] = i
              \/ (disc.at = "schema_store" /\ i = Len(schemas))

\* The discovery thread knows what it is going to register.
DiscoveryInv ==
    LET topic == disc.endpoint.topic
        type  == disc.endpoint.type
    IN  /\ disc.at \in {"schema_add", "schema_store"} => schemaIds[type] = 0
        /\ disc.at = "schema_store" =>
              disc.id = Len(schemas) /\ disc.id # 0 /\ schemas[disc.id] = type
        /\ disc.at \in {"has_channel", "schema_id", "channel_enter", "channel_add",
                        "channel_store", "setup_reader"} => schemaIds[type] # 0
        /\ disc.at \in {"channel_enter", "channel_add"} => disc.id = schemaIds[type]
        /\ disc.at \in {"channel_add", "channel_store"} => channelIds[topic] = 0
        /\ disc.at = "channel_store" =>
              disc.id = Len(channels) /\ disc.id # 0 /\ channels[disc.id].topic = topic
        /\ disc.at = "setup_reader" => channelIds[topic] # 0

\* Every topic that is read has a channel, or the re-registration will come to it.
ReRegisterInv ==
    /\ SubscribedHasChannel
    /\ poll \in ReRegistering =>
          \A t \in Subscribed : \/ channelIds[t] # 0
                               \/ t \in todo
                               \/ (poll # "re_register" /\ current.topic = t)
    /\ poll = "re_channel" => schemaIds[current.type] # 0

Orderly == ReopenInv /\ IdsInv /\ DiscoveryInv /\ ReRegisterInv /\ RecordedAsReceived

\* Everything is in order unless the last reopen() met a discovery.
OrderInv == ~raced => Orderly

SplitInv == TypeOK /\ CollectionInv /\ OpenInv /\ OrderInv

\* In a file whose reopen() met no discovery the maps are in order: every topic that is
\* read has a channel, and every id in the maps belongs to the file that is open.  What a
\* race left behind is gone with the next split that meets none.
RegistrationInv == SplitInv /\ (~raced => IdsNameTheOpenFile)
=============================================================================
