--------------------------- MODULE TopicDiscovery ---------------------------
(***************************************************************************)
(* cddsctl::dds::TopicDiscovery (src/src/dds/TopicDiscovery.cpp): a thread *)
(* that polls the two builtin readers of DDS, one for writers and one for  *)
(* readers, keeps a table of the endpoints it learns about and hands each  *)
(* of them to a callback.                                                  *)
(*                                                                         *)
(* The builtin readers belong to CycloneDDS.  They keep one sample per     *)
(* endpoint, which a later one replaces until it is taken.  When an        *)
(* endpoint goes away, a sample that is still there is delivered as one of *)
(* an instance that is not alive, and otherwise a sample without data is.  *)
(*                                                                         *)
(* What the callback does is the subject of the modules that build on this *)
(* one: they conjoin it with InvokeCallback.                               *)
(***************************************************************************)
EXTENDS Selection

CONSTANTS
    Endpoints,       \* writers and readers in the domain: [guid, topic, type, is_writer]
    Late,            \* those of them that are not there yet in the beginning
    InternalTopics,  \* names that process_endpoint() skips: empty, DCPS*, rt/*
    MaxSamples,      \* how many samples one dds_take() returns at most (32 in the code)
    MaxChanges       \* bound: how often endpoints change or go away

ASSUME DiscoveryAssumption ==
    /\ MaxSamples \in Nat \ {0}
    /\ MaxChanges \in Nat
    /\ Late \subseteq Endpoints
    /\ \A e, f \in Endpoints : e.guid = f.guid => e = f
    /\ \A e \in Endpoints : e.is_writer \in BOOLEAN

VARIABLES
    life,              \* of each endpoint: "unborn", "alive" or "gone"
    cache,             \* what the builtin reader has of it: "none", "data", "no_data"
    changes,           \* how often endpoints changed or went away
    running,           \* running_
    thread,            \* where discovery_thread_func() is
    polled,            \* the builtin reader it polls: "writers" or "readers"
    batch,             \* what is left of the samples it took
    topicEndpoints,    \* topic_endpoints_
    discoveredTopics   \* discovered_topics_

network  == <<life, cache, changes>>
tables   == <<topicEndpoints, discoveredTopics>>
discovery == <<life, cache, changes, running, thread, polled, batch, topicEndpoints,
               discoveredTopics>>

Topics == {e.topic : e \in Endpoints}
Guids  == {e.guid : e \in Endpoints}
Sample == [endpoint : Endpoints, valid : BOOLEAN, alive : BOOLEAN]

DiscoveryTypeOK ==
    /\ life \in [Endpoints -> {"unborn", "alive", "gone"}]
    /\ cache \in [Endpoints -> {"none", "data", "no_data"}]
    /\ changes \in 0..MaxChanges
    /\ running \in BOOLEAN
    /\ thread \in {"none", "check", "take", "process", "callback", "done"}
    /\ polled \in {"writers", "readers"}
    /\ batch \in Seq(Sample)
    /\ thread = "callback" => batch # <<>>
    /\ DOMAIN topicEndpoints \subseteq Topics
    /\ topicEndpoints \in [DOMAIN topicEndpoints -> Seq(Guids)]
    /\ discoveredTopics \subseteq Topics

DiscoveryInit ==
    /\ life = [e \in Endpoints |-> IF e \in Late THEN "unborn" ELSE "alive"]
    /\ cache = [e \in Endpoints |-> IF e \in Late THEN "none" ELSE "data"]
    /\ changes = 0
    /\ running = FALSE
    /\ thread = "none"
    /\ polled = "writers"
    /\ batch = <<>>
    /\ topicEndpoints = [t \in {} |-> <<>>]
    /\ discoveredTopics = {}

-----------------------------------------------------------------------------
(* The other participants, through the builtin readers of this one.        *)

Announce(e) ==
    /\ life[e] = "unborn"
    /\ life' = [life EXCEPT ![e] = "alive"]
    /\ cache' = [cache EXCEPT ![e] = "data"]
    /\ UNCHANGED <<changes, running, thread, polled, batch, tables>>

\* Its QoS changes: a new sample with the same key.
Update(e) ==
    /\ life[e] = "alive"
    /\ changes < MaxChanges
    /\ changes' = changes + 1
    /\ cache' = [cache EXCEPT ![e] = "data"]
    /\ UNCHANGED <<life, running, thread, polled, batch, tables>>

Withdraw(e) ==
    /\ life[e] = "alive"
    /\ changes < MaxChanges
    /\ changes' = changes + 1
    /\ life' = [life EXCEPT ![e] = "gone"]
    /\ cache' = [cache EXCEPT ![e] = IF @ = "data" THEN "data" ELSE "no_data"]
    /\ UNCHANGED <<running, thread, polled, batch, tables>>

Network == \E e \in Endpoints : Announce(e) \/ Update(e) \/ Withdraw(e)

-----------------------------------------------------------------------------
(* start() and stop(), called by one thread.                               *)

\* A builtin reader that cannot be created is logged, and start() returns nothing.
DiscoveryStart ==
    /\ \/ /\ ~running
          /\ running' = TRUE
          /\ thread' = "check"
          /\ polled' = "writers"
       \/ UNCHANGED <<running, thread, polled>>
    /\ UNCHANGED <<network, batch, tables>>

DiscoveryStop_KeepsFlag == UNCHANGED discovery

DiscoveryStop ==
    /\ running' = FALSE
    /\ UNCHANGED <<network, thread, polled, batch, tables>>

DiscoveryJoin ==
    /\ thread = "done"
    /\ thread' = "none"
    /\ UNCHANGED <<network, running, polled, batch, tables>>

-----------------------------------------------------------------------------
(* discovery_thread_func() and process_endpoint().                         *)

CheckRunning ==
    /\ thread = "check"
    /\ thread' = IF running THEN "take" ELSE "done"
    /\ polled' = "writers"
    /\ UNCHANGED <<network, running, batch, tables>>

\* What the builtin reader in turn has to deliver.
Pending == {e \in Endpoints : cache[e] # "none" /\ e.is_writer = (polled = "writers")}

\* dds_take() returns at most MaxSamples samples, in any order of the instances.
Take ==
    /\ thread = "take"
    /\ \E n \in 0..MaxSamples : \E order \in [1..n -> Pending] :
          /\ \A i, j \in 1..n : order[i] = order[j] => i = j
          /\ n < MaxSamples => Pending = {order[i] : i \in 1..n}
          /\ batch' = [i \in 1..n |-> [endpoint |-> order[i],
                                       valid |-> cache[order[i]] = "data",
                                       alive |-> life[order[i]] = "alive"]]
          /\ cache' = [e \in Endpoints |->
                          IF \E i \in 1..n : order[i] = e THEN "none" ELSE cache[e]]
    /\ thread' = "process"
    /\ UNCHANGED <<life, changes, running, polled, tables>>

ToProcess == thread = "process" /\ batch # <<>>

\* Samples without data and internal topics are passed over.
IsSkipped_EveryInactive(s) ==
    ~s.valid \/ ~s.alive \/ s.endpoint.topic \in InternalTopics

IsSkipped(s) == ~s.valid \/ s.endpoint.topic \in InternalTopics

Skip ==
    /\ ToProcess
    /\ IsSkipped(Head(batch))
    /\ batch' = Tail(batch)
    /\ UNCHANGED <<network, running, thread, polled, tables>>

AddEndpoint_OncePerTopic ==
    LET e == Head(batch).endpoint IN
    /\ ToProcess
    /\ ~IsSkipped(Head(batch)) /\ Head(batch).alive
    /\ discoveredTopics' = discoveredTopics \cup {e.topic}
    /\ topicEndpoints' = [t \in DOMAIN topicEndpoints \cup {e.topic} |->
          IF t \in DOMAIN topicEndpoints THEN topicEndpoints[t] ELSE <<e.guid>>]
    /\ thread' = "callback"
    /\ UNCHANGED <<network, running, polled, batch>>

\* The tables are updated under endpoints_mutex_, the callback runs after that.
AddEndpoint ==
    LET e == Head(batch).endpoint IN
    /\ ToProcess
    /\ ~IsSkipped(Head(batch)) /\ Head(batch).alive
    /\ discoveredTopics' = discoveredTopics \cup {e.topic}
    /\ topicEndpoints' = [t \in DOMAIN topicEndpoints \cup {e.topic} |->
          LET known == IF t \in DOMAIN topicEndpoints THEN topicEndpoints[t] ELSE <<>>
          IN IF t = e.topic THEN Append(known, e.guid) ELSE known]
    /\ thread' = "callback"
    /\ UNCHANGED <<network, running, polled, batch>>

\* The callback has returned; modules that build on this one say what it did.
InvokeCallback ==
    /\ thread = "callback"
    /\ thread' = "process"
    /\ batch' = Tail(batch)
    /\ UNCHANGED <<network, running, polled, tables>>

\* Every entry of the endpoint goes, and its topic with the last of them.  The one
\* callback that is set for removals, the recorder's, only logs.
RemoveEndpoint ==
    LET e == Head(batch).endpoint IN
    /\ ToProcess
    /\ ~IsSkipped(Head(batch)) /\ ~Head(batch).alive
    /\ topicEndpoints' =
          IF e.topic \notin DOMAIN topicEndpoints THEN topicEndpoints
          ELSE LET left == Selected(topicEndpoints[e.topic], Guids \ {e.guid})
                   kept == IF left = <<>> THEN DOMAIN topicEndpoints \ {e.topic}
                           ELSE DOMAIN topicEndpoints
               IN [t \in kept |-> IF t = e.topic THEN left ELSE topicEndpoints[t]]
    /\ discoveredTopics' =
          discoveredTopics \ (DOMAIN topicEndpoints \ DOMAIN topicEndpoints')
    /\ batch' = Tail(batch)
    /\ UNCHANGED <<network, running, thread, polled>>

NextReader_WritersOnly ==
    /\ thread = "process" /\ batch = <<>>
    /\ thread' = "check"
    /\ UNCHANGED <<network, running, polled, batch, tables>>

\* The writers first, then the readers, then once round the loop.
NextReader ==
    /\ thread = "process" /\ batch = <<>>
    /\ thread' = IF polled = "writers" THEN "take" ELSE "check"
    /\ polled' = "readers"
    /\ UNCHANGED <<network, running, batch, tables>>

\* What the thread does besides the callback.
Polling == CheckRunning \/ Take \/ Skip \/ AddEndpoint \/ RemoveEndpoint \/ NextReader

-----------------------------------------------------------------------------
(* Properties.                                                             *)

\* get_discovered_topics() and get_endpoints_for_topic() agree: the topics are those
\* with an endpoint in the table.
TablesAgree ==
    /\ discoveredTopics = DOMAIN topicEndpoints
    /\ \A t \in DOMAIN topicEndpoints : topicEndpoints[t] # <<>>

InTable(e) ==
    e.topic \in DOMAIN topicEndpoints
        /\ \E i \in 1..Len(topicEndpoints[e.topic]) : topicEndpoints[e.topic][i] = e.guid

\* The samples that wait, in the builtin reader or in the batch.
InBatch(e) == \E i \in 1..Len(batch) : batch[i].endpoint = e

\* An endpoint that is alive, and of which no sample waits any more, is in the table:
\* neither a full batch nor the removal of another endpoint loses it.
AliveIsKnown ==
    \A e \in Endpoints :
        /\ life[e] = "alive"
        /\ e.topic \notin InternalTopics
        /\ cache[e] = "none"
        /\ ~InBatch(e)
        => InTable(e)

\* A sample, in the builtin reader or in the batch, tells the truth about its endpoint or is
\* about one that is gone, and a batch is worked off before the next one is taken.
SamplesInv ==
    /\ \A e \in Endpoints : /\ life[e] = "unborn" => cache[e] = "none"
                            /\ cache[e] = "no_data" => life[e] = "gone"
    /\ \A i \in 1..Len(batch) :
          LET s == batch[i]
          IN  \/ life[s.endpoint] = "gone"
              \/ life[s.endpoint] = "alive" /\ s.valid /\ s.alive
    /\ thread \notin {"process", "callback"} => batch = <<>>

\* No internal topic gets into the tables, and the endpoint that is being reported is there.
ReportInv ==
    /\ DOMAIN topicEndpoints \cap InternalTopics = {}
    /\ thread = "callback" => Head(batch).alive /\ InTable(Head(batch).endpoint)

\* The tables say what is known and nothing is lost between the builtin readers and them.
TablesInv == DiscoveryTypeOK /\ TablesAgree /\ AliveIsKnown /\ SamplesInv /\ ReportInv

\* What was taken as one sample of an endpoint that is gone leaves no trace of it,
\* however often it had been announced: after the removal the table does not name it.
RemovalIsComplete ==
    [][\A e \in Endpoints :
          thread = "process" /\ batch # <<>> /\ Head(batch).endpoint = e
             /\ Head(batch).valid /\ ~Head(batch).alive /\ batch' = Tail(batch)
          => ~InTable(e)']_discovery

\* An endpoint that stays is discovered, whatever else fills the batches.
AliveIsDiscovered ==
    \A e \in Endpoints :
        life[e] = "alive" /\ e.topic \notin InternalTopics /\ running
            ~> InTable(e) \/ life[e] = "gone" \/ ~running
=============================================================================
