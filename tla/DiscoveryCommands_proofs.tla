---------------------- MODULE DiscoveryCommands_proofs ----------------------
(***************************************************************************)
(* What the tables of TopicDiscovery and the commands that use it promise, *)
(* for any endpoints, batches, changes of the network and tracked topics.  *)
(***************************************************************************)
EXTENDS DiscoveryCommands, SelectionTheorems, TLAPS

LEMMA EndpointFacts ==
    /\ \A e \in Endpoints : e.topic \in Topics /\ e.guid \in Guids /\ e.type \in Types
    /\ \A s \in Sample : s.endpoint \in Endpoints /\ s.valid \in BOOLEAN /\ s.alive \in BOOLEAN
    /\ \A e, f \in Endpoints : e.guid = f.guid => e = f
  BY DiscoveryAssumption DEF DiscoveryAssumption, Topics, Guids, Types, Sample

\* The sample at the head of a batch, and those behind it.
LEMMA BatchFacts ==
    ASSUME batch \in Seq(Sample), batch # <<>>
    PROVE  /\ Head(batch) \in Sample /\ Head(batch) = batch[1] /\ 1 \in 1..Len(batch)
           /\ Tail(batch) \in Seq(Sample)
           /\ Len(Tail(batch)) = Len(batch) - 1 /\ Len(batch) \in Nat
           /\ \A i \in 1..Len(Tail(batch)) : i + 1 \in 1..Len(batch) /\ Tail(batch)[i] = batch[i + 1]
  OBVIOUS

\* What is left when the head has gone: nothing new, and all but the endpoint at the head.
LEMMA TailFacts ==
    ASSUME batch \in Seq(Sample), batch # <<>>, batch' = Tail(batch)
    PROVE  /\ \A e : InBatch(e) => InBatch(e)' \/ e = Head(batch).endpoint
           /\ \A i \in 1..Len(batch') : \E j \in 1..Len(batch) : batch'[i] = batch[j]
<1>1. ASSUME NEW e, InBatch(e), e # Head(batch).endpoint
      PROVE  InBatch(e)'
  <2>1. PICK i \in 1..Len(batch) : batch[i].endpoint = e
    BY <1>1 DEF InBatch
  <2>2. i # 1
    BY <1>1, <2>1, BatchFacts
  <2>3. i - 1 \in 1..Len(Tail(batch)) /\ Tail(batch)[i - 1] = batch[i]
    BY <2>2, BatchFacts
  <2> QED BY <2>1, <2>3 DEF InBatch
<1> QED BY <1>1, BatchFacts

-----------------------------------------------------------------------------
(* The tables, step by step.                                               *)

LEMMA TablesInit == Init => TablesInv
<1> SUFFICES ASSUME Init PROVE TablesInv
  OBVIOUS
<1> USE DEF Init, DiscoveryInit
<1>1. DiscoveryTypeOK
  <2>1. DOMAIN topicEndpoints = {} /\ topicEndpoints \in [DOMAIN topicEndpoints -> Seq(Guids)]
    OBVIOUS
  <2>2. running \in BOOLEAN
    BY Zenon
  <2>3. /\ life \in [Endpoints -> {"unborn", "alive", "gone"}]
        /\ cache \in [Endpoints -> {"none", "data", "no_data"}]
    OBVIOUS
  <2> QED BY <2>1, <2>2, <2>3, DiscoveryAssumption DEF DiscoveryTypeOK, DiscoveryAssumption
<1>2. TablesAgree
  BY DEF TablesAgree
<1>3. AliveIsKnown
  BY DEF AliveIsKnown
<1>4. SamplesInv
  BY DEF SamplesInv
<1>5. ReportInv
  BY DEF ReportInv
<1> QED BY <1>1, <1>2, <1>3, <1>4, <1>5 DEF TablesInv

\* Endpoints come, change and go.
LEMMA NetworkStep ==
    ASSUME TablesInv, Network
    PROVE  TablesInv'
<1>1. PICK e \in Endpoints : Announce(e) \/ Update(e) \/ Withdraw(e)
  BY DEF Network
<1>2. UNCHANGED <<running, thread, polled, batch, topicEndpoints, discoveredTopics>>
  BY <1>1 DEF Announce, Update, Withdraw, tables
<1> USE DEF TablesInv
<1>3. /\ life' \in [Endpoints -> {"unborn", "alive", "gone"}]
      /\ cache' \in [Endpoints -> {"none", "data", "no_data"}]
      /\ changes' \in 0..MaxChanges
  BY <1>1, DiscoveryAssumption, SMTT(30) DEF Announce, Update, Withdraw, DiscoveryTypeOK, DiscoveryAssumption
<1>4. /\ \A f \in Endpoints : f # e => life'[f] = life[f] /\ cache'[f] = cache[f]
      /\ cache'[e] # "none" /\ life'[e] # "unborn"
      /\ cache'[e] = "no_data" => life'[e] = "gone"
      /\ life'[e] = "alive" => cache'[e] = "data"
      /\ life[e] \in {"unborn", "alive"}
      /\ life[e] = "unborn" => life'[e] = "alive"
  BY <1>1 DEF Announce, Update, Withdraw, DiscoveryTypeOK
<1>5. DiscoveryTypeOK'
  BY <1>2, <1>3 DEF DiscoveryTypeOK
<1>6. TablesAgree'
  BY <1>2 DEF TablesAgree
<1>7. AliveIsKnown'
  BY <1>2, <1>4 DEF AliveIsKnown, InBatch, InTable
<1>8. SamplesInv'
  <2>1. ASSUME NEW i \in 1..Len(batch)
        PROVE  \/ life'[batch[i].endpoint] = "gone"
               \/ life'[batch[i].endpoint] = "alive" /\ batch[i].valid /\ batch[i].alive
    <3>1. batch[i].endpoint \in Endpoints
      BY EndpointFacts DEF DiscoveryTypeOK
    <3>2. \/ life[batch[i].endpoint] = "gone"
          \/ life[batch[i].endpoint] = "alive" /\ batch[i].valid /\ batch[i].alive
      BY DEF SamplesInv
    <3>3. life'[e] \in {"alive", "gone"}
      BY <1>3, <1>4
    <3> QED BY <1>4, <3>1, <3>2, <3>3
  <2> QED BY <1>2, <1>4, <2>1 DEF SamplesInv
<1>9. ReportInv'
  BY <1>2 DEF ReportInv, InTable
<1> QED BY <1>5, <1>6, <1>7, <1>8, <1>9

\* start() and stop(); only a discovery without a thread is started.
LEMMA ControlStep ==
    ASSUME TablesInv,
           \/ DiscoveryStart /\ (~running => thread = "none")
           \/ DiscoveryStop
           \/ DiscoveryJoin
           \/ UNCHANGED discovery
    PROVE  TablesInv'
<1>1. /\ UNCHANGED <<life, cache, changes, batch, topicEndpoints, discoveredTopics>>
      /\ \/ thread' = thread
         \/ thread' \in {"check", "none"} /\ thread \in {"none", "done"}
      /\ polled' \in {polled, "writers"}
  <2>1. CASE DiscoveryStart /\ (~running => thread = "none")
    BY <2>1 DEF DiscoveryStart, network, tables
  <2>2. CASE DiscoveryStop
    BY <2>2 DEF DiscoveryStop, network, tables
  <2>3. CASE DiscoveryJoin
    BY <2>3 DEF DiscoveryJoin, network, tables
  <2>4. CASE UNCHANGED discovery
    BY <2>4 DEF discovery
  <2> QED BY <2>1, <2>2, <2>3, <2>4
<1>2. running' \in BOOLEAN
  BY Zenon DEF DiscoveryStart, DiscoveryStop, DiscoveryJoin, discovery, TablesInv, DiscoveryTypeOK
<1> USE DEF TablesInv
<1>3. DiscoveryTypeOK'
  BY <1>1, <1>2 DEF DiscoveryTypeOK
<1>4. TablesAgree'
  BY <1>1 DEF TablesAgree
<1>5. AliveIsKnown'
  BY <1>1 DEF AliveIsKnown, InBatch, InTable
<1>6. SamplesInv'
  BY <1>1 DEF SamplesInv
<1>7. ReportInv'
  BY <1>1 DEF ReportInv, InTable
<1> QED BY <1>3, <1>4, <1>5, <1>6, <1>7

\* The discovery thread goes on without a sample.
LEMMA IdleStep ==
    ASSUME TablesInv, CheckRunning \/ NextReader
    PROVE  TablesInv'
<1>1. /\ UNCHANGED <<life, cache, changes, running, batch, topicEndpoints, discoveredTopics>>
      /\ thread # "callback" /\ thread' \in {"take", "check", "done"} /\ batch = <<>>
      /\ polled' \in {"writers", "readers"}
  BY DEF CheckRunning, NextReader, network, tables, TablesInv, SamplesInv
<1> USE DEF TablesInv
<1>2. DiscoveryTypeOK'
  BY <1>1 DEF DiscoveryTypeOK
<1>3. TablesAgree'
  BY <1>1 DEF TablesAgree
<1>4. AliveIsKnown'
  BY <1>1 DEF AliveIsKnown, InBatch, InTable
<1>5. SamplesInv'
  BY <1>1 DEF SamplesInv
<1>6. ReportInv'
  BY <1>1 DEF ReportInv
<1> QED BY <1>2, <1>3, <1>4, <1>5, <1>6

\* A batch is taken.
LEMMA TakeStep ==
    ASSUME TablesInv, Take
    PROVE  TablesInv'
<1>0. PICK n \in 0..MaxSamples : \E order \in [1..n -> Pending] :
         /\ batch' = [i \in 1..n |-> [endpoint |-> order[i],
                                      valid |-> cache[order[i]] = "data",
                                      alive |-> life[order[i]] = "alive"]]
         /\ cache' = [e \in Endpoints |->
                         IF \E i \in 1..n : order[i] = e THEN "none" ELSE cache[e]]
  BY DEF Take
<1>1. PICK order \in [1..n -> Pending] :
         /\ batch' = [i \in 1..n |-> [endpoint |-> order[i],
                                      valid |-> cache[order[i]] = "data",
                                      alive |-> life[order[i]] = "alive"]]
         /\ cache' = [e \in Endpoints |->
                         IF \E i \in 1..n : order[i] = e THEN "none" ELSE cache[e]]
  BY <1>0
<1>2. /\ UNCHANGED <<life, changes, running, polled, topicEndpoints, discoveredTopics>>
      /\ thread = "take" /\ thread' = "process" /\ batch = <<>>
  BY DEF Take, tables, TablesInv, SamplesInv
<1>3. n \in Nat /\ \A i \in 1..n : order[i] \in Endpoints /\ cache[order[i]] # "none"
  BY DiscoveryAssumption DEF Pending, DiscoveryAssumption
<1>4. ASSUME NEW i \in 1..n
      PROVE  /\ batch'[i] \in Sample /\ batch'[i].endpoint = order[i]
             /\ batch'[i].valid <=> cache[order[i]] = "data"
             /\ batch'[i].alive <=> life[order[i]] = "alive"
  BY <1>1, <1>3 DEF Sample
<1>5. batch' \in Seq(Sample) /\ Len(batch') = n
  BY <1>1, <1>3, <1>4
<1> USE DEF TablesInv
<1>6. DiscoveryTypeOK'
  BY <1>1, <1>2, <1>5 DEF DiscoveryTypeOK
<1>7. TablesAgree'
  BY <1>2 DEF TablesAgree
<1>8. AliveIsKnown'
  <2> SUFFICES ASSUME NEW e \in Endpoints, life[e] = "alive", e.topic \notin InternalTopics,
                      cache'[e] = "none", ~InBatch(e)'
               PROVE  InTable(e)'
    BY <1>2 DEF AliveIsKnown
  <2>1. ~\E i \in 1..n : order[i] = e
    BY <1>4, <1>5 DEF InBatch
  <2>2. cache[e] = "none" /\ ~InBatch(e)
    BY <1>1, <1>2, <2>1 DEF InBatch
  <2>3. InTable(e)
    BY <2>2 DEF AliveIsKnown
  <2> QED BY <1>2, <2>3 DEF InTable
<1>9. SamplesInv'
  <2>1. ASSUME NEW i \in 1..n
        PROVE  \/ life[order[i]] = "gone"
               \/ life[order[i]] = "alive" /\ batch'[i].valid /\ batch'[i].alive
    BY <1>3, <1>4 DEF SamplesInv, DiscoveryTypeOK
  <2>2. \A e \in Endpoints : cache'[e] \in {"none", cache[e]}
    BY <1>1
  <2> QED BY <1>2, <1>4, <1>5, <2>1, <2>2 DEF SamplesInv
<1>10. ReportInv'
  BY <1>2 DEF ReportInv, InTable
<1> QED BY <1>6, <1>7, <1>8, <1>9, <1>10

\* What goes with the head of a batch is missed by nobody: an endpoint that is alive is in
\* the table by then.
LEMMA HeadIsDone ==
    ASSUME TablesInv, batch # <<>>, batch' = Tail(batch), UNCHANGED <<life, cache>>,
           thread' = "process",
           \A e \in Endpoints : life[e] = "alive" /\ InTable(e) => InTable(e)',
           \A e \in Endpoints : e = Head(batch).endpoint /\ life[e] = "alive"
                               /\ e.topic \notin InternalTopics => InTable(e)'
    PROVE  AliveIsKnown' /\ SamplesInv' /\ batch' \in Seq(Sample)
<1> USE DEF TablesInv
<1>1. batch \in Seq(Sample)
  BY DEF DiscoveryTypeOK
<1>2. AliveIsKnown'
  <2> SUFFICES ASSUME NEW e \in Endpoints, life[e] = "alive", e.topic \notin InternalTopics,
                      cache[e] = "none", ~InBatch(e)'
               PROVE  InTable(e)'
    BY DEF AliveIsKnown
  <2>1. CASE e = Head(batch).endpoint
    BY <2>1
  <2>2. CASE e # Head(batch).endpoint
    <3>1. ~InBatch(e)
      BY <1>1, <2>2, TailFacts
    <3> QED BY <3>1 DEF AliveIsKnown
  <2> QED BY <2>1, <2>2
<1>3. SamplesInv'
  <2>1. \A i \in 1..Len(batch') : \E j \in 1..Len(batch) : batch'[i] = batch[j]
    BY <1>1, TailFacts
  <2> QED BY <2>1 DEF SamplesInv
<1> QED BY <1>1, <1>2, <1>3, BatchFacts

\* Samples without data and internal topics, and the end of a callback.
LEMMA PassStep ==
    ASSUME TablesInv, Skip \/ InvokeCallback
    PROVE  TablesInv'
<1> DEFINE e == Head(batch).endpoint
<1> USE DEF TablesInv
<1>1. /\ UNCHANGED <<life, cache, changes, running, polled, topicEndpoints, discoveredTopics>>
      /\ batch # <<>> /\ batch' = Tail(batch) /\ thread' = "process" /\ batch \in Seq(Sample)
  BY DEF Skip, InvokeCallback, ToProcess, network, tables, DiscoveryTypeOK
<1>2. Head(batch) \in Sample /\ e \in Endpoints /\ \E i \in 1..Len(batch) : Head(batch) = batch[i]
  BY <1>1, BatchFacts, EndpointFacts
<1>3. life[e] = "alive" /\ e.topic \notin InternalTopics => InTable(e)
  <2>1. CASE Skip
    <3>1. ~Head(batch).valid \/ e.topic \in InternalTopics
      BY <2>1 DEF Skip, IsSkipped
    <3> QED BY <1>2, <3>1 DEF SamplesInv
  <2>2. CASE InvokeCallback
    BY <2>2 DEF InvokeCallback, ReportInv
  <2> QED BY <2>1, <2>2
<1>4. ASSUME NEW f PROVE InTable(f)' <=> InTable(f)
  BY <1>1 DEF InTable
<1>5. AliveIsKnown' /\ SamplesInv' /\ batch' \in Seq(Sample)
  BY <1>1, <1>3, <1>4, HeadIsDone
<1>6. DiscoveryTypeOK'
  BY <1>1, <1>5 DEF DiscoveryTypeOK
<1>7. TablesAgree'
  BY <1>1 DEF TablesAgree
<1>8. ReportInv'
  BY <1>1 DEF ReportInv
<1> QED BY <1>5, <1>6, <1>7, <1>8

\* What AddEndpoint() makes of the tables.
LEMMA AddedTable ==
    ASSUME TablesInv, AddEndpoint
    PROVE  LET e == Head(batch).endpoint
           IN  /\ e \in Endpoints /\ e.topic \notin InternalTopics /\ Head(batch).alive
               /\ DOMAIN topicEndpoints' = DOMAIN topicEndpoints \cup {e.topic}
               /\ topicEndpoints' \in [DOMAIN topicEndpoints' -> Seq(Guids)]
               /\ \A t \in DOMAIN topicEndpoints' : topicEndpoints'[t] # <<>>
               /\ \A f \in Endpoints : InTable(f)' <=> InTable(f) \/ f = e
<1> DEFINE e == Head(batch).endpoint
           known(t) == IF t \in DOMAIN topicEndpoints THEN topicEndpoints[t] ELSE <<>>
<1> USE DEF TablesInv
<1>1. e \in Endpoints /\ e.topic \in Topics /\ e.guid \in Guids
  BY BatchFacts, EndpointFacts DEF AddEndpoint, ToProcess, DiscoveryTypeOK
<1>2. e.topic \notin InternalTopics /\ Head(batch).alive
  BY DEF AddEndpoint, IsSkipped
<1>3. topicEndpoints' = [t \in DOMAIN topicEndpoints \cup {e.topic} |->
                            IF t = e.topic THEN Append(known(t), e.guid) ELSE known(t)]
  BY DEF AddEndpoint
<1>4. known(e.topic) \in Seq(Guids)
  BY DEF DiscoveryTypeOK
<1>5. DOMAIN topicEndpoints' = DOMAIN topicEndpoints \cup {e.topic}
  BY <1>3
<1>6. /\ topicEndpoints'[e.topic] = Append(known(e.topic), e.guid)
      /\ \A t \in DOMAIN topicEndpoints \ {e.topic} : topicEndpoints'[t] = topicEndpoints[t]
  BY <1>3
<1>7. topicEndpoints' \in [DOMAIN topicEndpoints' -> Seq(Guids)]
  <2>1. ASSUME NEW t \in DOMAIN topicEndpoints'
        PROVE  topicEndpoints'[t] \in Seq(Guids)
    <3>1. CASE t = e.topic
      <4> HIDE DEF known
      <4>1. Append(known(e.topic), e.guid) \in Seq(Guids)
        BY <1>1, <1>4
      <4> QED BY <1>6, <3>1, <4>1
    <3>2. CASE t # e.topic
      BY <1>5, <1>6, <3>2 DEF DiscoveryTypeOK
    <3> QED BY <3>1, <3>2
  <2> QED BY <1>3, <2>1
<1>8. \A t \in DOMAIN topicEndpoints' : topicEndpoints'[t] # <<>>
  <2>1. \A t \in DOMAIN topicEndpoints : topicEndpoints[t] # <<>>
    BY DEF TablesAgree
  <2> HIDE DEF known
  <2>2. Len(Append(known(e.topic), e.guid)) = Len(known(e.topic)) + 1 /\ Len(known(e.topic)) \in Nat
    BY <1>1, <1>4
  <2>3. Len(topicEndpoints'[e.topic]) # 0
    <3>1. \A k \in Nat : k + 1 # 0
      OBVIOUS
    <3> QED BY <1>6, <2>2, <3>1, Zenon
  <2>4. Len(<<>>) = 0
    OBVIOUS
  <2>5. topicEndpoints'[e.topic] # <<>>
    BY <2>3, <2>4, Zenon
  <2> QED BY <1>5, <1>6, <2>1, <2>5
<1>9. ASSUME NEW f \in Endpoints
      PROVE  InTable(f)' <=> InTable(f) \/ f = e
  <2>1. CASE f.topic # e.topic
    BY <1>5, <1>6, <2>1 DEF InTable
  <2>2. CASE f.topic = e.topic
    <3>1. /\ Len(Append(known(e.topic), e.guid)) = Len(known(e.topic)) + 1
          /\ Len(known(e.topic)) \in Nat
          /\ \A i \in 1..Len(known(e.topic)) :
                Append(known(e.topic), e.guid)[i] = known(e.topic)[i]
          /\ Append(known(e.topic), e.guid)[Len(known(e.topic)) + 1] = e.guid
      BY <1>1, <1>4
    <3>2. InTable(f) <=> \E i \in 1..Len(known(e.topic)) : known(e.topic)[i] = f.guid
      BY <2>2 DEF InTable
    <3>3. InTable(f)' <=> \E i \in 1..Len(known(e.topic)) + 1 :
                             Append(known(e.topic), e.guid)[i] = f.guid
      BY <1>5, <1>6, <2>2, <3>1 DEF InTable
    <3>4. f.guid = e.guid <=> f = e
      BY <1>1, EndpointFacts
    <3> HIDE DEF known
    <3> QED BY <3>1, <3>2, <3>3, <3>4
  <2> QED BY <2>1, <2>2
<1> QED BY <1>1, <1>2, <1>5, <1>7, <1>8, <1>9

\* An endpoint is entered in the tables, and then reported.
LEMMA AddStep ==
    ASSUME TablesInv, AddEndpoint
    PROVE  TablesInv'
<1> DEFINE e == Head(batch).endpoint
<1> USE DEF TablesInv
<1>1. /\ UNCHANGED <<life, cache, changes, running, polled, batch>>
      /\ thread = "process" /\ batch # <<>> /\ thread' = "callback"
      /\ discoveredTopics' = discoveredTopics \cup {e.topic}
  BY DEF AddEndpoint, ToProcess, network
<1>2. /\ e \in Endpoints /\ e.topic \notin InternalTopics /\ Head(batch).alive
      /\ DOMAIN topicEndpoints' = DOMAIN topicEndpoints \cup {e.topic}
      /\ topicEndpoints' \in [DOMAIN topicEndpoints' -> Seq(Guids)]
      /\ \A t \in DOMAIN topicEndpoints' : topicEndpoints'[t] # <<>>
      /\ \A f \in Endpoints : InTable(f)' <=> InTable(f) \/ f = e
  BY AddedTable
<1>3. e.topic \in Topics
  BY <1>2, EndpointFacts
<1>4. DiscoveryTypeOK'
  BY <1>1, <1>2, <1>3 DEF DiscoveryTypeOK
<1>5. TablesAgree'
  BY <1>1, <1>2 DEF TablesAgree
<1>6. AliveIsKnown'
  <2>1. ASSUME NEW f \in Endpoints PROVE InBatch(f)' <=> InBatch(f)
    BY <1>1 DEF InBatch
  <2> QED BY <1>1, <1>2, <2>1 DEF AliveIsKnown
<1>7. SamplesInv'
  BY <1>1 DEF SamplesInv
<1>8. ReportInv'
  <2>1. DOMAIN topicEndpoints' \cap InternalTopics = {}
    BY <1>2 DEF ReportInv
  <2>2. \A f \in Endpoints : f = Head(batch').endpoint => InTable(f)'
    BY <1>1, <1>2
  <2>3. Head(batch').endpoint \in Endpoints /\ Head(batch').alive
    BY <1>1, <1>2
  <2>4. InTable(Head(batch).endpoint)'
    BY <2>2, <2>3
  <2> QED BY <2>1, <2>3, <2>4 DEF ReportInv
<1> QED BY <1>4, <1>5, <1>6, <1>7, <1>8

\* What RemoveEndpoint() makes of the tables.
LEMMA RemovedTable ==
    ASSUME TablesInv, RemoveEndpoint
    PROVE  LET e == Head(batch).endpoint
           IN  /\ e \in Endpoints
               /\ DOMAIN topicEndpoints' \subseteq DOMAIN topicEndpoints
               /\ topicEndpoints' \in [DOMAIN topicEndpoints' -> Seq(Guids)]
               /\ \A t \in DOMAIN topicEndpoints' : topicEndpoints'[t] # <<>>
               /\ \A f \in Endpoints : InTable(f)' <=> InTable(f) /\ f # e
<1> DEFINE e    == Head(batch).endpoint
           old  == topicEndpoints[e.topic]
           left == Selected(old, Guids \ {e.guid})
           kept == IF left = <<>> THEN DOMAIN topicEndpoints \ {e.topic}
                   ELSE DOMAIN topicEndpoints
<1> USE DEF TablesInv
<1>1. e \in Endpoints
  BY BatchFacts, EndpointFacts DEF RemoveEndpoint, ToProcess, DiscoveryTypeOK
<1>2. CASE e.topic \notin DOMAIN topicEndpoints
  <2>1. topicEndpoints' = topicEndpoints
    BY <1>2 DEF RemoveEndpoint
  <2>2. \A f \in Endpoints : InTable(f) => f # e
    BY <1>2 DEF InTable
  <2>3. ASSUME NEW f PROVE InTable(f)' <=> InTable(f)
    BY <2>1 DEF InTable
  <2> QED BY <1>1, <2>1, <2>2, <2>3 DEF DiscoveryTypeOK, TablesAgree
<1>3. CASE e.topic \in DOMAIN topicEndpoints
  <2>1. topicEndpoints' = [t \in kept |-> IF t = e.topic THEN left ELSE topicEndpoints[t]]
    BY <1>3 DEF RemoveEndpoint
  <2>2. old \in Seq(Guids)
    BY <1>3 DEF DiscoveryTypeOK
  <2>3. /\ left \in Seq(Guids) /\ Len(left) \in Nat
        /\ \A x : Among(x, left, Len(left)) <=> x \in Guids \ {e.guid} /\ Among(x, old, Len(old))
    BY <2>2, SelectedElements
  <2> HIDE DEF left, old
  <2>4. /\ DOMAIN topicEndpoints' = kept /\ kept \subseteq DOMAIN topicEndpoints
        /\ \A t \in kept : topicEndpoints'[t] = IF t = e.topic THEN left ELSE topicEndpoints[t]
        /\ e.topic \in kept <=> left # <<>>
        /\ \A t \in DOMAIN topicEndpoints \ {e.topic} : t \in kept
    BY <1>3, <2>1
  <2> HIDE DEF kept
  <2>5. topicEndpoints' \in [DOMAIN topicEndpoints' -> Seq(Guids)]
    <3>1. ASSUME NEW t \in kept
          PROVE  topicEndpoints'[t] \in Seq(Guids)
      <4>1. CASE t = e.topic
        BY <2>3, <2>4, <4>1
      <4>2. CASE t # e.topic
        BY <2>4, <4>2 DEF DiscoveryTypeOK
      <4> QED BY <4>1, <4>2
    <3> QED BY <2>1, <2>4, <3>1
  <2>6. \A t \in DOMAIN topicEndpoints' : topicEndpoints'[t] # <<>>
    BY <2>4 DEF TablesAgree
  <2>7. ASSUME NEW f \in Endpoints
        PROVE  InTable(f)' <=> InTable(f) /\ f # e
    <3>1. CASE f.topic # e.topic
      <4>1. f.topic \in DOMAIN topicEndpoints' <=> f.topic \in DOMAIN topicEndpoints
        BY <2>4, <3>1
      <4>2. f.topic \in DOMAIN topicEndpoints' => topicEndpoints'[f.topic] = topicEndpoints[f.topic]
        BY <2>4, <3>1
      <4> QED BY <3>1, <4>1, <4>2 DEF InTable
    <3>2. CASE f.topic = e.topic
      <4>1. InTable(f) <=> Among(f.guid, old, Len(old))
        BY <1>3, <3>2 DEF InTable, Among, old
      <4>2. InTable(f)' <=> left # <<>> /\ Among(f.guid, left, Len(left))
        BY <2>4, <3>2 DEF InTable, Among
      <4>3. left = <<>> => ~Among(f.guid, left, Len(left))
        BY <2>3 DEF Among
      <4>4. f.guid \in Guids /\ (f.guid = e.guid <=> f = e)
        BY <1>1, EndpointFacts
      <4> QED BY <2>3, <4>1, <4>2, <4>3, <4>4
    <3> QED BY <3>1, <3>2
  <2> QED BY <1>1, <2>4, <2>5, <2>6, <2>7
<1> QED BY <1>2, <1>3

\* An endpoint that has gone is taken out of the tables.
LEMMA RemoveStep ==
    ASSUME TablesInv, RemoveEndpoint
    PROVE  TablesInv'
<1> DEFINE e == Head(batch).endpoint
<1> USE DEF TablesInv
<1>1. /\ UNCHANGED <<life, cache, changes, running, polled, thread>>
      /\ thread = "process" /\ batch # <<>> /\ batch' = Tail(batch) /\ ~Head(batch).alive
      /\ discoveredTopics' = discoveredTopics \ (DOMAIN topicEndpoints \ DOMAIN topicEndpoints')
  BY DEF RemoveEndpoint, ToProcess, network
<1>2. /\ e \in Endpoints
      /\ DOMAIN topicEndpoints' \subseteq DOMAIN topicEndpoints
      /\ topicEndpoints' \in [DOMAIN topicEndpoints' -> Seq(Guids)]
      /\ \A t \in DOMAIN topicEndpoints' : topicEndpoints'[t] # <<>>
      /\ \A f \in Endpoints : InTable(f)' <=> InTable(f) /\ f # e
  BY RemovedTable
<1>3. life[e] = "gone"
  BY <1>1, BatchFacts DEF DiscoveryTypeOK, SamplesInv
<1>4. AliveIsKnown' /\ SamplesInv' /\ batch' \in Seq(Sample)
  BY <1>1, <1>2, <1>3, HeadIsDone
<1>5. DiscoveryTypeOK'
  BY <1>1, <1>2, <1>4 DEF DiscoveryTypeOK
<1>6. TablesAgree'
  BY <1>1, <1>2 DEF TablesAgree
<1>7. ReportInv'
  BY <1>1, <1>2 DEF ReportInv
<1> QED BY <1>4, <1>5, <1>6, <1>7

\* Every step of a command and its discovery is one of these for the tables.
LEMMA WhatDiscoveryDoes ==
    ASSUME TablesInv, ThreadInv, [Next]_vars
    PROVE  \/ Network \/ Polling \/ Callback \/ EchoMakeReader \/ EchoStoreName
           \/ DiscoveryStart /\ (~running => thread = "none")
           \/ DiscoveryStop \/ DiscoveryJoin
           \/ UNCHANGED discovery
<1>1. CASE Start
  BY <1>1 DEF Start, Goto, ThreadInv
<1>2. CASE Stop
  BY <1>2 DEF Stop
<1>3. CASE Join
  BY <1>3 DEF Join
<1>4. CASE Found \/ GiveUp
  BY <1>4 DEF Found, GiveUp, LeaveWait
<1>5. CASE EchoTest \/ HzCollect \/ Read \/ Show
  BY <1>5 DEF EchoTest, HzCollect, Read, Show
<1>6. CASE UNCHANGED vars
  BY <1>6 DEF vars
<1> QED BY <1>1, <1>2, <1>3, <1>4, <1>5, <1>6
        DEF Next, Execute, Discovery, Terminated

\* The tables stay true in every step.
LEMMA TablesStep ==
    ASSUME TablesInv, ThreadInv, [Next]_vars
    PROVE  TablesInv'
<1>1. CASE Callback \/ EchoStoreName
  BY <1>1, PassStep DEF Callback, EchoStoreName
<1>2. CASE EchoMakeReader
  <2>1. /\ thread = "callback" /\ UNCHANGED <<network, running, polled, tables>>
        /\ \/ UNCHANGED <<thread, batch>>
           \/ thread' = "process" /\ batch' = Tail(batch)
    BY <1>2 DEF EchoMakeReader
  <2>2. InvokeCallback \/ UNCHANGED discovery
    BY <2>1 DEF InvokeCallback, discovery, network, tables
  <2> QED BY <2>2, PassStep, ControlStep
<1> QED
  BY <1>1, <1>2, WhatDiscoveryDoes, NetworkStep, ControlStep, IdleStep, TakeStep, PassStep, AddStep,
     RemoveStep
     DEF Polling

-----------------------------------------------------------------------------
(* The threads of a command.                                               *)

LEMMA ThreadStep ==
    ASSUME TablesInv, ThreadInv, main \in MainPC, [Next]_vars
    PROVE  ThreadInv' /\ main' \in MainPC
<1> USE DEF ThreadInv, MainPC
<1>1. CASE Start
  BY <1>1 DEF Start, Goto, DiscoveryStart
<1>2. CASE Stop
  <2>1. CASE running
    BY <1>2, <2>1 DEF Stop, Goto, DiscoveryStop
  <2>2. CASE ~running
    BY <1>2, <2>2 DEF Stop, Goto, discovery
  <2> QED BY <2>1, <2>2
<1>3. CASE Join
  BY <1>3 DEF Join, Goto, DiscoveryJoin
<1>4. CASE Found \/ GiveUp
  BY <1>4 DEF Found, GiveUp, LeaveWait, Goto, discovery
<1>5. CASE EchoTest
  BY <1>5 DEF EchoTest, Goto, discovery
<1>6. CASE HzCollect
  BY <1>6 DEF HzCollect, Goto, discovery
<1>7. CASE Read
  BY <1>7 DEF Read, Goto, discovery
<1>8. CASE Show
  BY <1>8 DEF Show, Goto, discovery
<1>9. CASE Polling /\ UNCHANGED <<client, control>>
  BY <1>9 DEF Polling, CheckRunning, Take, Skip, AddEndpoint, RemoveEndpoint, NextReader, ToProcess,
              control
<1>10. CASE Callback \/ EchoStoreName
  BY <1>10 DEF Callback, EchoStoreName, InvokeCallback, control
<1>11. CASE EchoMakeReader
  BY <1>11 DEF EchoMakeReader, control
<1>12. CASE Network /\ UNCHANGED <<client, control>>
  BY <1>12 DEF Network, Announce, Update, Withdraw, control
<1>13. CASE UNCHANGED vars
  BY <1>13 DEF vars, discovery, control
<1> QED BY <1>1, <1>2, <1>3, <1>4, <1>5, <1>6, <1>7, <1>8, <1>9, <1>10, <1>11, <1>12, <1>13
        DEF Next, Execute, Discovery, Terminated

-----------------------------------------------------------------------------
(* What a command holds.                                                   *)

FlagsOK ==
    /\ topicFound \in BOOLEAN
    /\ readerLocked \in BOOLEAN
    /\ command \in Commands

\* The flags of echo stay Boolean, and the command stays the same.
LEMMA FlagsStep ==
    ASSUME FlagsOK, [Next]_vars
    PROVE  FlagsOK' /\ command' = command
<1> USE Zenon DEF FlagsOK, client, control
<1>1. CASE Execute \/ GiveUp
  BY <1>1 DEF Execute, GiveUp, Start, Found, LeaveWait, EchoTest, HzCollect, Read, Stop, Join,
              Show, Goto
<1>2. CASE UNCHANGED <<client, control>>
  BY <1>2
<1>3. CASE Callback
  BY <1>3 DEF Callback, CallbackOf, ListCallback, InfoCallback, HzCallback
<1>4. CASE EchoMakeReader
  BY <1>4 DEF EchoMakeReader
<1>5. CASE EchoStoreName
  BY <1>5 DEF EchoStoreName
<1>6. CASE UNCHANGED vars
  BY <1>6 DEF vars
<1> QED BY <1>1, <1>2, <1>3, <1>4, <1>5, <1>6 DEF Next, Discovery, Terminated

\* The sample that is being reported is one.
LEMMA ReportedFacts ==
    ASSUME TablesInv, thread = "callback"
    PROVE  /\ batch # <<>> /\ batch \in Seq(Sample) /\ Head(batch).endpoint \in Endpoints
           /\ Head(batch).endpoint.topic \in Topics /\ Head(batch).endpoint.type \in Types
           /\ Head(batch).endpoint.type # None
  BY BatchFacts, EndpointFacts, CommandAssumption
     DEF TablesInv, DiscoveryTypeOK, CommandAssumption

\* Only the callbacks touch what the main thread reads.
LEMMA WhoWritesClient ==
    ASSUME [Next]_vars, ~Callback, ~EchoMakeReader, ~EchoStoreName
    PROVE  UNCHANGED client
  BY DEF Next, Discovery, Execute, GiveUp, Start, Found, LeaveWait, EchoTest, HzCollect, Read,
         Stop, Join, Show, Goto, Terminated, vars

\* Every step of every thread keeps every variable of a command in its type.
LEMMA TypeStep ==
    ASSUME TypeOK, TablesInv, ThreadInv, [Next]_vars
    PROVE  TypeOK'
<1>1. DiscoveryTypeOK' /\ main' \in MainPC /\ FlagsOK' /\ command' = command
  BY TablesStep, ThreadStep, FlagsStep DEF TablesInv, TypeOK, FlagsOK
<1> USE DEF TypeOK
<1>2. answer' \in {"none", "shown", "not_found"}
  <2>1. CASE UNCHANGED answer
    BY <2>1
  <2>2. CASE Execute
    BY <2>2 DEF Execute, Start, Found, LeaveWait, EchoTest, HzCollect, Read, Stop, Join, Show
  <2>3. ASSUME ~Execute PROVE UNCHANGED answer
    BY <2>3 DEF Next, Discovery, Callback, EchoMakeReader, EchoStoreName, GiveUp, LeaveWait,
                Terminated, vars, control
  <2> QED BY <2>1, <2>2, <2>3
<1>3. foundTrackers' \subseteq 1..Len(Tracked)
  <2>1. CASE HzCollect
    BY <2>1 DEF HzCollect
  <2>2. ASSUME ~HzCollect PROVE UNCHANGED foundTrackers
    BY <2>2 DEF Next, Discovery, Callback, EchoMakeReader, EchoStoreName, GiveUp, LeaveWait,
                Execute, Start, Found, EchoTest, Read, Stop, Join, Show, Terminated, vars, control
  <2> QED BY <2>1, <2>2
<1>4. CASE UNCHANGED client
  BY <1>1, <1>2, <1>3, <1>4 DEF client, FlagsOK
<1>5. CASE Callback
  <2> DEFINE e == Head(batch).endpoint
  <2>1. e \in Endpoints /\ e.topic \in Topics /\ e.type \in Types
    BY <1>5, ReportedFacts DEF Callback, InvokeCallback
  <2> HIDE DEF e
  <2>2. CASE ListCallback(e)
    <3>1. /\ DOMAIN topics' = DOMAIN topics \cup {e.topic}
          /\ \A t \in DOMAIN topics' : topics'[t] \in Types
          /\ topics' \in [DOMAIN topics' -> Types]
      BY <2>1, <2>2 DEF ListCallback
    <3> QED BY <1>1, <1>2, <1>3, <2>1, <2>2, <3>1 DEF ListCallback, FlagsOK
  <2>3. CASE InfoCallback(e)
    <3>1. /\ endpoints' = endpoints \/ endpoints' = Append(endpoints, e)
          /\ typeName' = typeName \/ typeName' = e.type
          /\ UNCHANGED <<topics, descriptor, reader, trackers>>
      BY <2>3 DEF InfoCallback
    <3>2. endpoints' \in Seq(Endpoints)
      BY <2>1, <3>1
    <3>3. typeName' \in Types \cup {None}
      BY <2>1, <3>1
    <3>4. /\ topics' = topics /\ descriptor' = descriptor /\ reader' = reader
          /\ trackers' = trackers
      BY <3>1
    <3> QED BY <1>1, <1>2, <1>3, <3>2, <3>3, <3>4 DEF FlagsOK
  <2>4. CASE HzCallback(e)
    <3>1. trackers' \in [1..Len(Tracked) -> Types \cup {None}]
      BY <2>1, <2>4 DEF HzCallback
    <3> QED BY <1>1, <1>2, <1>3, <2>4, <3>1 DEF HzCallback, FlagsOK
  <2> QED BY <1>4, <1>5, <2>2, <2>3, <2>4 DEF Callback, CallbackOf, e
<1>6. CASE EchoMakeReader
  <2>1. /\ UNCHANGED <<topics, endpoints, typeName, trackers>>
        /\ descriptor' \in {Head(batch).endpoint.type, None}
        /\ reader' \in {reader, Head(batch).endpoint.type}
    BY <1>6 DEF EchoMakeReader
  <2>2. Head(batch).endpoint.type \in Types
    BY <1>6, ReportedFacts DEF EchoMakeReader
  <2> QED BY <1>1, <1>2, <1>3, <2>1, <2>2 DEF FlagsOK
<1>7. CASE EchoStoreName
  <2>1. /\ UNCHANGED <<topics, endpoints, descriptor, reader, trackers>>
        /\ typeName' = Head(batch).endpoint.type
    BY <1>7 DEF EchoStoreName
  <2>2. Head(batch).endpoint.type \in Types
    BY <1>7, ReportedFacts DEF EchoStoreName, InvokeCallback
  <2> QED BY <1>1, <1>2, <1>3, <2>1, <2>2 DEF FlagsOK
<1>8. ASSUME ~Callback, ~EchoMakeReader, ~EchoStoreName PROVE UNCHANGED client
  BY <1>8, WhoWritesClient
<1> QED BY <1>4, <1>5, <1>6, <1>7, <1>8

\* echo's reader and what belongs to it.
LEMMA ReaderStep ==
    ASSUME TypeOK, TablesInv, ThreadInv, ReaderInv, [Next]_vars
    PROVE  ReaderInv'
<1> USE DEF ReaderInv
<1>1. CASE UNCHANGED client
  <2>1. command' = command /\ UNCHANGED <<descriptor, reader, topicFound, readerLocked, typeName>>
    BY <1>1, FlagsStep DEF FlagsOK, TypeOK, client
  <2>2. readerLocked => UNCHANGED <<thread, batch>>
    <3> SUFFICES ASSUME readerLocked, thread = "callback" PROVE UNCHANGED <<thread, batch>>
      OBVIOUS
    <3>1. ~EchoMakeReader /\ ~Callback
      BY DEF EchoMakeReader, Callback
    <3>2. ~EchoStoreName
      BY <1>1 DEF EchoStoreName, client, TypeOK
    <3>3. ~Polling
      BY DEF Polling, CheckRunning, Take, Skip, AddEndpoint, RemoveEndpoint, NextReader, ToProcess
    <3>4. CASE Execute \/ GiveUp
      <4>1. ~Start /\ ~Join
        BY DEF Start, Goto, ThreadInv, Join, DiscoveryJoin
      <4>2. CASE Stop
        BY <4>2 DEF Stop, DiscoveryStop, discovery
      <4> QED BY <3>4, <4>1, <4>2 DEF Execute, GiveUp, Found, LeaveWait, EchoTest, HzCollect, Read,
                                      Show, discovery
    <3>5. CASE Network
      BY <3>5 DEF Network, Announce, Update, Withdraw
    <3>6. CASE UNCHANGED vars
      BY <3>6 DEF vars, discovery
    <3> QED BY <3>1, <3>2, <3>3, <3>4, <3>5, <3>6 DEF Next, Discovery, Terminated
  <2>3. /\ main' = "read" /\ command = "echo" => main = "read" \/ topicFound
        /\ main' = "test" => command = "echo"
        /\ main' = "collect" => command = "hz"
    <3>1. CASE Execute \/ GiveUp
      BY <3>1 DEF GiveUp, LeaveWait, Goto, Execute, Start, Found, EchoTest, HzCollect, Read, Stop,
                  Join, Show
    <3>2. CASE UNCHANGED main
      BY <3>2
    <3>3. Execute \/ GiveUp \/ UNCHANGED main
      BY DEF Next, Discovery, Callback, EchoMakeReader, EchoStoreName, Terminated, vars, control
    <3> QED BY <3>1, <3>2, <3>3
  <2> QED BY <2>1, <2>2, <2>3
<1>2. CASE Callback
  <2>1. ~readerLocked /\ UNCHANGED <<command, main>>
    BY <1>2 DEF Callback, control
  <2>2. UNCHANGED <<descriptor, reader, topicFound, readerLocked>>
    BY <1>2 DEF Callback, CallbackOf, ListCallback, InfoCallback, HzCallback, client
  <2>3. command = "echo" => UNCHANGED typeName
    BY <1>2 DEF Callback, CallbackOf, client
  <2> QED BY <2>1, <2>2, <2>3
<1>3. CASE EchoMakeReader
  <2>1. Head(batch).endpoint.type # None
    BY <1>3, ReportedFacts DEF EchoMakeReader
  <2> QED BY <1>3, <2>1 DEF EchoMakeReader, control
<1>4. CASE EchoStoreName
  BY <1>4 DEF EchoStoreName, InvokeCallback, control
<1> QED BY <1>1, <1>2, <1>3, <1>4, WhoWritesClient

\* hz's readers, and those it found in time.
LEMMA TrackerStep ==
    ASSUME TypeOK, TablesInv, TrackerInv, HzReadsItsTopics, [Next]_vars
    PROVE  TrackerInv' /\ HzReadsItsTopics'
<1> DEFINE Fits(i, y) == \E e \in Endpoints : e.topic = Tracked[i] /\ e.type = y
<1>1. \A i \in 1..Len(Tracked) :
         trackers'[i] = trackers[i] \/ (trackers[i] = None /\ Fits(i, trackers'[i]))
  <2>1. CASE HzCallback(Head(batch).endpoint) /\ thread = "callback"
    <3>1. Head(batch).endpoint \in Endpoints
      BY <2>1, ReportedFacts
    <3>2. CASE UNCHANGED trackers
      BY <3>2
    <3>3. CASE ~UNCHANGED trackers
      <4>1. PICK k \in 1..Len(Tracked) :
               /\ trackers[k] = None /\ Tracked[k] = Head(batch).endpoint.topic
               /\ trackers' = [trackers EXCEPT ![k] = Head(batch).endpoint.type]
        BY <2>1, <3>3 DEF HzCallback
      <4>2. Fits(k, Head(batch).endpoint.type)
        BY <3>1, <4>1
      <4> QED BY <4>1, <4>2 DEF TypeOK
    <3> QED BY <3>2, <3>3
  <2>2. ASSUME ~(HzCallback(Head(batch).endpoint) /\ thread = "callback")
        PROVE  UNCHANGED trackers
    <3>1. CASE Callback
      BY <2>2, <3>1 DEF Callback, CallbackOf, InvokeCallback, ListCallback, InfoCallback, client
    <3>2. CASE EchoMakeReader \/ EchoStoreName
      BY <3>2 DEF EchoMakeReader, EchoStoreName
    <3> QED BY <3>1, <3>2, WhoWritesClient DEF client
  <2> QED BY <2>1, <2>2
<1>2. \A i \in 1..Len(Tracked) : trackers'[i] # None => Fits(i, trackers'[i])
  BY <1>1 DEF TrackerInv
<1>3. ASSUME NEW i \in foundTrackers' PROVE i \in 1..Len(Tracked) /\ trackers[i] # None
  <2>1. CASE HzCollect
    BY <1>3, <2>1 DEF HzCollect
  <2>2. CASE ~HzCollect
    <3>1. UNCHANGED foundTrackers
      BY <2>2 DEF Next, Discovery, Callback, EchoMakeReader, EchoStoreName, GiveUp, LeaveWait,
                  Execute, Start, Found, EchoTest, Read, Stop, Join, Show, Terminated, vars, control
    <3> QED BY <1>3, <3>1 DEF HzReadsItsTopics, TypeOK
  <2> QED BY <2>1, <2>2
<1>4. \A i \in foundTrackers' : trackers'[i] # None
  BY <1>1, <1>3
<1> QED BY <1>2, <1>3, <1>4 DEF TrackerInv, HzReadsItsTopics

\* What list or info must have been told of an endpoint.
Knows(e) ==
    /\ command = "list" => e.topic \in DOMAIN topics
    /\ command = "info" /\ e.topic = Wanted =>
          typeName # None /\ \E i \in 1..Len(endpoints) : endpoints[i] = e

\* Only echo makes a reader under a lock.
LEMMA EchoCallsBack ==
    ASSUME TablesInv, ReaderInv, EchoMakeReader \/ EchoStoreName
    PROVE  command = "echo"
<1>1. CASE EchoMakeReader
  BY <1>1 DEF EchoMakeReader
<1>2. CASE EchoStoreName
  <2>1. reader # None
    BY <1>2, ReportedFacts DEF EchoStoreName, InvokeCallback, ReaderInv
  <2> QED BY <2>1 DEF ReaderInv
<1> QED BY <1>1, <1>2

\* Nothing that a command has been told is forgotten.
LEMMA KnowledgeStays ==
    ASSUME TypeOK, TablesInv, ReaderInv, [Next]_vars, NEW e \in Endpoints, Knows(e)
    PROVE  Knows(e)'
<1>1. command' = command
  BY FlagsStep DEF FlagsOK, TypeOK
<1>2. CASE UNCHANGED client
  BY <1>1, <1>2 DEF Knows, client
<1>3. CASE EchoMakeReader \/ EchoStoreName
  <2>1. command = "echo"
    BY <1>3, EchoCallsBack
  <2> QED BY <1>1, <2>1 DEF Knows
<1>4. CASE Callback
  <2> DEFINE f == Head(batch).endpoint
  <2>1. f \in Endpoints /\ f.type # None
    BY <1>4, ReportedFacts DEF Callback, InvokeCallback
  <2> HIDE DEF f
  <2>2. CASE ListCallback(f) /\ command = "list"
    BY <1>1, <2>2 DEF ListCallback, Knows
  <2>3. CASE InfoCallback(f) /\ command = "info"
    <3>1. CASE UNCHANGED <<endpoints, typeName>>
      BY <1>1, <2>3, <3>1 DEF Knows
    <3>2. CASE endpoints' = Append(endpoints, f) /\ typeName' # None
      <4>1. /\ Len(endpoints') = Len(endpoints) + 1 /\ Len(endpoints) \in Nat
            /\ \A i \in 1..Len(endpoints) : endpoints'[i] = endpoints[i]
        BY <2>1, <3>2 DEF TypeOK
      <4> QED BY <1>1, <2>3, <3>2, <4>1 DEF Knows
    <3> QED BY <2>1, <2>3, <3>1, <3>2 DEF InfoCallback
  <2>4. CASE command \in {"echo", "hz"}
    BY <1>1, <2>4 DEF Knows
  <2> QED BY <1>4, <2>2, <2>3, <2>4 DEF Callback, CallbackOf, f
<1> QED BY <1>2, <1>3, <1>4, WhoWritesClient

\* The callback of list or info tells it of the endpoint that is reported.
LEMMA ReportIsKept ==
    ASSUME TypeOK, TablesInv, Callback
    PROVE  \A e \in Endpoints : e = Head(batch).endpoint => Knows(e)'
<1> DEFINE f == Head(batch).endpoint
<1>1. f \in Endpoints /\ f.type # None /\ command' = command
  BY ReportedFacts DEF Callback, InvokeCallback, control
<1> HIDE DEF f
<1>2. CASE ListCallback(f) /\ command = "list"
  BY <1>1, <1>2 DEF ListCallback, Knows, f
<1>3. CASE InfoCallback(f) /\ command = "info"
  <2>1. CASE f.topic = Wanted
    <3>1. /\ endpoints' = Append(endpoints, f) /\ typeName' # None
      BY <1>1, <1>3, <2>1 DEF InfoCallback
    <3>2. /\ Len(endpoints') = Len(endpoints) + 1 /\ Len(endpoints) \in Nat
          /\ endpoints'[Len(endpoints) + 1] = f
      BY <1>1, <3>1 DEF TypeOK
    <3>3. \E i \in 1..Len(endpoints') : endpoints'[i] = f
      BY <3>2
    <3> QED BY <1>1, <1>3, <3>1, <3>3 DEF Knows, f
  <2>2. CASE f.topic # Wanted
    BY <1>1, <1>3, <2>2 DEF Knows, f
  <2> QED BY <2>1, <2>2
<1>4. CASE command \in {"echo", "hz"}
  BY <1>1, <1>4 DEF Knows
<1> QED BY <1>2, <1>3, <1>4 DEF Callback, CallbackOf, f

\* list and info know the table, but for the endpoint that is being reported.
LEMMA KnowledgeStep ==
    ASSUME TypeOK, TablesInv, ThreadInv, ReaderInv, ClientKnowsTheTable, [Next]_vars
    PROVE  ClientKnowsTheTable'
<1>1. ASSUME NEW e \in Endpoints, InTable(e)', ~BeingReported(e)'
      PROVE  (InTable(e) /\ ~BeingReported(e)) \/ Knows(e)'
  <2>1. CASE Callback
    <3>1. InTable(e)
      BY <1>1, <2>1 DEF Callback, InvokeCallback, tables, InTable
    <3> QED BY <2>1, <3>1, ReportIsKept DEF BeingReported
  <2>2. CASE EchoMakeReader \/ EchoStoreName
    <3>1. command' = "echo"
      BY <2>2, EchoCallsBack, FlagsStep DEF FlagsOK, TypeOK
    <3> QED BY <3>1 DEF Knows
  <2>3. CASE AddEndpoint
    <3>1. thread = "process" /\ thread' = "callback" /\ UNCHANGED batch
      BY <2>3 DEF AddEndpoint, ToProcess
    <3>2. e # Head(batch).endpoint
      BY <1>1, <3>1 DEF BeingReported
    <3> QED BY <1>1, <2>3, <3>1, <3>2, AddedTable DEF BeingReported
  <2>4. CASE RemoveEndpoint
    <3>1. thread = "process"
      BY <2>4 DEF RemoveEndpoint, ToProcess
    <3> QED BY <1>1, <2>4, <3>1, RemovedTable DEF BeingReported
  <2>5. CASE Network
    BY <1>1, <2>5 DEF Network, Announce, Update, Withdraw, tables, InTable, BeingReported
  <2>6. CASE CheckRunning \/ Take \/ Skip \/ NextReader
    BY <1>1, <2>6 DEF CheckRunning, Take, Skip, NextReader, ToProcess, tables, InTable, BeingReported
  <2>7. CASE DiscoveryStart /\ (~running => thread = "none")
    BY <1>1, <2>7 DEF DiscoveryStart, tables, InTable, BeingReported
  <2>8. CASE DiscoveryStop \/ DiscoveryJoin
    BY <1>1, <2>8 DEF DiscoveryStop, DiscoveryJoin, tables, InTable, BeingReported
  <2>9. CASE UNCHANGED discovery
    BY <1>1, <2>9 DEF discovery, InTable, BeingReported
  <2> QED BY <2>1, <2>2, <2>3, <2>4, <2>5, <2>6, <2>7, <2>8, <2>9, WhatDiscoveryDoes DEF Polling
<1>2. \A e \in Endpoints : InTable(e)' /\ ~BeingReported(e)' => Knows(e)'
  BY <1>1, KnowledgeStays DEF ClientKnowsTheTable, Knows
<1> QED BY <1>2 DEF ClientKnowsTheTable, Knows

-----------------------------------------------------------------------------
(* The theorems.  The inductive invariant is the one that the run checks.  *)

IInv == TablesInv /\ ClientInv

LEMMA InvInit == Init => IInv
<1> SUFFICES ASSUME Init PROVE IInv
  OBVIOUS
<1>1. TablesInv
  BY TablesInit
<1>2. topicFound \in BOOLEAN /\ readerLocked \in BOOLEAN
  BY Zenon DEF Init
<1>3. topics \in [DOMAIN topics -> Types] /\ DOMAIN topics = {}
  BY DEF Init
<1>4. TypeOK
  BY <1>1, <1>2, <1>3 DEF Init, TypeOK, MainPC, TablesInv
<1>5. ~topicFound /\ ~readerLocked /\ ~running
  BY Zenon DEF Init, DiscoveryInit
<1>6. ClientKnowsTheTable
  BY DEF Init, DiscoveryInit, ClientKnowsTheTable, InTable
<1>7. CallbackStaysInScope /\ HzReadsItsTopics /\ TrackerInv
  BY DEF Init, CallbackStaysInScope, HzReadsItsTopics, TrackerInv
<1>8. ThreadInv /\ ReaderInv
  BY <1>5 DEF Init, DiscoveryInit, ThreadInv, ReaderInv
<1> QED BY <1>1, <1>4, <1>6, <1>7, <1>8 DEF IInv, ClientInv

LEMMA InvStep == IInv /\ [Next]_vars => IInv'
<1> SUFFICES ASSUME IInv, [Next]_vars PROVE IInv'
  OBVIOUS
<1>1. TablesInv' /\ ThreadInv'
  BY TablesStep, ThreadStep DEF IInv, ClientInv, TypeOK
<1>2. TypeOK' /\ ReaderInv' /\ ClientKnowsTheTable'
  BY TypeStep, ReaderStep, KnowledgeStep DEF IInv, ClientInv
<1>3. TrackerInv' /\ HzReadsItsTopics'
  BY TrackerStep DEF IInv, ClientInv
<1>4. CallbackStaysInScope'
  BY <1>1 DEF ThreadInv, CallbackStaysInScope
<1> QED BY <1>1, <1>2, <1>3, <1>4 DEF IInv, ClientInv

\* What get_discovered_topics() and get_endpoints_for_topic() return agrees, and names no
\* internal topic; an endpoint that is alive, and of which no sample waits, is in it,
\* whatever was taken in whatever batches.  A sample that waits tells the truth or is about
\* an endpoint that is gone, and the endpoint of a callback in progress is in the tables.
THEOREM TablesAreRight == Spec => []TablesInv
<1>1. IInv => TablesInv
  BY DEF IInv
<1> QED BY InvInit, InvStep, <1>1, PTL DEF Spec

\* list and info have been told of every endpoint in the table, hz reads only readers of
\* its topics, and no callback is in progress when the main thread reads, without a lock,
\* the variables that the callback writes, or has left their frame.
THEOREM CommandsAreTold == Spec => []ClientInv
<1>1. IInv => ClientInv
  BY DEF IInv
<1> QED BY InvInit, InvStep, <1>1, PTL DEF Spec

\* echo prints samples with the type of the endpoint its reader was made for.
THEOREM EchoKeepsToOneType == Spec => []EchoDecodesItsOwnType
<1>1. IInv => EchoDecodesItsOwnType
  BY DEF IInv, ClientInv, ReaderInv, EchoDecodesItsOwnType
<1> QED BY InvInit, InvStep, <1>1, PTL DEF Spec

\* After a sample that says an endpoint is gone, the table does not name it, however often
\* it had been entered.
THEOREM RemovedForGood == Spec => RemovalIsComplete
<1>1. ASSUME IInv, [Next]_vars
      PROVE  [\A e \in Endpoints :
                thread = "process" /\ batch # <<>> /\ Head(batch).endpoint = e
                   /\ Head(batch).valid /\ ~Head(batch).alive /\ batch' = Tail(batch)
                => ~InTable(e)']_discovery
  <2> SUFFICES ASSUME NEW e \in Endpoints, thread = "process", batch # <<>>,
                      Head(batch).endpoint = e, Head(batch).valid, ~Head(batch).alive,
                      batch' = Tail(batch)
               PROVE  ~InTable(e)'
    OBVIOUS
  <2>1. batch' # batch
    <3>1. Len(Tail(batch)) = Len(batch) - 1 /\ Len(batch) \in Nat
      BY <1>1, BatchFacts DEF IInv, TablesInv, DiscoveryTypeOK
    <3>2. Tail(batch) = batch => Len(Tail(batch)) = Len(batch)
      OBVIOUS
    <3>3. Tail(batch) # batch
      BY ONLY <3>1, <3>2
    <3> QED BY <3>3
  <2>2. CASE Skip
    <3>1. e.topic \in InternalTopics /\ UNCHANGED topicEndpoints
      BY <2>2 DEF Skip, IsSkipped, tables
    <3> QED BY <1>1, <3>1 DEF IInv, TablesInv, ReportInv, InTable
  <2>3. CASE RemoveEndpoint
    BY <1>1, <2>3, RemovedTable DEF IInv
  <2>4. Skip \/ RemoveEndpoint
    <3>1. ~Callback /\ ~EchoMakeReader /\ ~EchoStoreName
      BY DEF Callback, EchoMakeReader, EchoStoreName, InvokeCallback
    <3>2. ~Network /\ ~DiscoveryStart /\ ~DiscoveryStop /\ ~DiscoveryJoin /\ ~UNCHANGED discovery
      BY <2>1 DEF Network, Announce, Update, Withdraw, DiscoveryStart, DiscoveryStop, DiscoveryJoin,
                  discovery
    <3>3. Polling
      BY <1>1, <3>1, <3>2, WhatDiscoveryDoes DEF IInv, ClientInv
    <3>4. ~CheckRunning /\ ~Take /\ ~AddEndpoint /\ ~NextReader
      BY <2>1 DEF CheckRunning, Take, AddEndpoint, NextReader
    <3> QED BY <3>3, <3>4 DEF Polling
  <2> QED BY <2>2, <2>3, <2>4
<1> QED BY InvInit, InvStep, <1>1, PTL DEF Spec, RemovalIsComplete
=============================================================================
