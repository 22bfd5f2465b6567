---------------------- MODULE SplitRegistration_proofs ----------------------
(* Proofs about SplitRegistration: the collection of types is in order in  *)
(* every state, and the maps, the writer and the file are unless the last  *)
(* reopen() met a discovery.                                               *)
EXTENDS SplitRegistration, TLAPS

\* What the assumption says of a single endpoint.
LEMMA EndpointFacts ==
    ASSUME NEW e \in Endpoints
    PROVE  /\ e.topic \in Topics /\ e.type \in Types /\ e.type # NoType
           /\ Announced(e.topic, e.type)
<1>1. e \in [topic : Topics, type : Types]
  BY RegistrationAssumption DEF RegistrationAssumption
<1>2. e = [topic |-> e.topic, type |-> e.type]
  BY <1>1
<1> QED BY <1>1, <1>2, RegistrationAssumption DEF Announced, RegistrationAssumption

LEMMA AnnouncedFacts ==
    ASSUME NEW t, NEW y, Announced(t, y)
    PROVE  t \in Topics /\ y \in Types /\ y # NoType
BY RegistrationAssumption DEF Announced, RegistrationAssumption

\* A sequence with one more element.
LEMMA AppendFacts ==
    ASSUME NEW S, NEW s \in Seq(S), NEW x \in S
    PROVE  /\ Append(s, x) \in Seq(S)
           /\ Len(Append(s, x)) = Len(s) + 1 /\ Len(s) \in Nat
           /\ \A i \in 1..Len(s) : Append(s, x)[i] = s[i]
           /\ Append(s, x)[Len(s) + 1] = x
OBVIOUS

LEMMA ElementFacts ==
    ASSUME NEW S, NEW s \in Seq(S), NEW i \in 1..Len(s) PROVE s[i] \in S
OBVIOUS

\* The types of all variables, over every step.
LEMMA TypeStep == TypeOK /\ [Next]_vars => TypeOK'
<1> SUFFICES ASSUME TypeOK, [Next]_vars PROVE TypeOK'
  OBVIOUS
<1> USE RegistrationAssumption DEF TypeOK, DiscPC, PollPC, Reopening, ReRegistering, collection, writer, polling,
        DiscGoto, PollGoto, Channel, Message, NoEndpoint
<1>1. CASE DiscCollect
  BY <1>1 DEF DiscCollect
<1>2. CASE DiscHasSchema
  BY <1>2 DEF DiscHasSchema
<1>3. CASE DiscSchemaEnter
  BY <1>3 DEF DiscSchemaEnter
<1>4. CASE DiscSchemaAdd
  <2>1. disc.endpoint.type \in Types
    BY <1>4, EndpointFacts DEF DiscSchemaAdd
  <2>2. schemas' \in Seq(Types) /\ Len(schemas') \in Nat
    BY <1>4, <2>1, AppendFacts DEF DiscSchemaAdd
  <2> QED BY <1>4, <2>2 DEF DiscSchemaAdd
<1>5. CASE DiscSchemaStore
  BY <1>5 DEF DiscSchemaStore
<1>6. CASE DiscHasChannel
  BY <1>6 DEF DiscHasChannel
<1>7. CASE DiscSchemaId
  BY <1>7 DEF DiscSchemaId
<1>8. CASE DiscChannelEnter
  BY <1>8 DEF DiscChannelEnter
<1>9. CASE DiscChannelAdd
  <2>1. [topic |-> disc.endpoint.topic, schema |-> disc.id] \in Channel
    BY <1>9, EndpointFacts DEF DiscChannelAdd
  <2>2. channels' \in Seq(Channel) /\ Len(channels') \in Nat
    BY <1>9, <2>1, AppendFacts DEF DiscChannelAdd
  <2> QED BY <1>9, <2>2 DEF DiscChannelAdd
<1>10. CASE DiscChannelStore
  BY <1>10 DEF DiscChannelStore
<1>11. CASE DiscSetupReader
  BY <1>11 DEF DiscSetupReader
<1>12. CASE SplitClose
  <2>1. splits' \in 0..MaxSplits /\ raced' \in BOOLEAN
    BY <1>12 DEF SplitClose, RegistrationAssumption
  <2> QED BY <1>12, <2>1 DEF SplitClose
<1>13. CASE SplitNewWriter
  BY <1>13 DEF SplitNewWriter
<1>14. CASE SplitClearSchemas
  BY <1>14 DEF SplitClearSchemas
<1>15. CASE SplitClearChannels
  BY <1>15 DEF SplitClearChannels
<1>16. CASE SplitOpen
  BY <1>16 DEF SplitOpen, Subscribed
<1>17. CASE ReRegisterSchema
  <2>1. current.type \in Types
    BY <1>17 DEF ReRegisterSchema
  <2>2. Append(schemas, current.type) \in Seq(Types) /\ Len(schemas) + 1 \in Nat
    BY <2>1, AppendFacts
  <2>3. CASE schemaIds[current.type] # 0
    BY <1>17, <2>3 DEF ReRegisterSchema
  <2>4. CASE schemaIds[current.type] = 0
    <3>1. /\ schemas' = Append(schemas, current.type)
          /\ schemaIds' = [schemaIds EXCEPT ![current.type] = Len(schemas')]
      BY <1>17, <2>4 DEF ReRegisterSchema
    <3>2. schemaIds' \in [Types -> Nat]
      BY <2>1, <2>2, <3>1, AppendFacts
    <3> QED BY <1>17, <2>2, <3>1, <3>2 DEF ReRegisterSchema
  <2> QED BY <2>3, <2>4
<1>18. CASE ReRegisterChannel
  <2>1. current.topic \in Topics /\ current.type \in Types
    BY <1>18 DEF ReRegisterChannel
  <2>2. [topic |-> current.topic, schema |-> schemaIds[current.type]] \in Channel
    BY <2>1
  <2> DEFINE c == [topic |-> current.topic, schema |-> schemaIds[current.type]]
  <2>3. Append(channels, c) \in Seq(Channel) /\ Len(channels) + 1 \in Nat
    BY <2>2, AppendFacts
  <2>4. CASE channelIds[current.topic] # 0
    BY <1>18, <2>4 DEF ReRegisterChannel
  <2>5. CASE channelIds[current.topic] = 0
    <3>1. /\ channels' = Append(channels, c)
          /\ channelIds' = [channelIds EXCEPT ![current.topic] = Len(channels')]
      BY <1>18, <2>5 DEF ReRegisterChannel
    <3>2. Len(channels') \in Nat
      BY <2>2, <2>3, <3>1, AppendFacts
    <3>3. channelIds' \in [Topics -> Nat]
      BY <2>1, <3>1, <3>2
    <3> QED BY <1>18, <2>3, <3>1, <3>3 DEF ReRegisterChannel
  <2> QED BY <2>4, <2>5
<1>19. CASE ReRegisterDone
  BY <1>19 DEF ReRegisterDone
<1>20. ASSUME NEW t \in Subscribed, RecordSample(t) PROVE TypeOK'
  <2>1. t \in Topics /\ reader[t] \in Types
    BY <1>20 DEF Subscribed
  <2> DEFINE id == channelIds[t]
  <2>2. id \in 1..Len(channels)
    BY <1>20 DEF RecordSample
  <2>3. channels[id] \in Channel
    BY <2>2, ElementFacts
  <2>4. SchemaOf(t) \in Types \cup {NoType}
    BY <2>1, SMTT(30) DEF SchemaOf
  <2>5. file' \subseteq Message
    BY <1>20, <2>1, <2>3, <2>4, SMTT(30) DEF RecordSample
  <2> QED BY <1>20, <2>5 DEF RecordSample
<1>21. ASSUME NEW t \in Topics, ReRegisterNext(t) PROVE TypeOK'
  <2>1. topicType[t] \in known => topicType[t] \in Types
    OBVIOUS
  <2>2. CASE topicType[t] \in known
    BY <1>21, <2>1, <2>2 DEF ReRegisterNext
  <2>3. CASE topicType[t] \notin known
    BY <1>21, <2>3 DEF ReRegisterNext
  <2> QED BY <2>2, <2>3
<1>22. CASE UNCHANGED vars
  BY <1>22 DEF vars
<1> QED BY <1>1, <1>2, <1>3, <1>4, <1>5, <1>6, <1>7, <1>8, <1>9, <1>10, <1>11, <1>12, <1>13, <1>14, <1>15, <1>16, <1>17, <1>18, <1>19, <1>20, <1>21, <1>22
        DEF Next, Discovery, Polling

\* What the discovery thread and the polling thread work on is collected from endpoints.
LEMMA CollectionStep ==
    ASSUME TypeOK, CollectionInv, TypeOK', [Next]_vars PROVE CollectionInv'
<1> USE RegistrationAssumption DEF TypeOK, CollectionInv, DiscGoto, PollGoto, collection, writer, polling, NoEndpoint,
        Subscribed, Announced, Reopening, ReRegistering
<1>1. CASE DiscCollect
  <2>1. PICK e \in Endpoints : /\ known' = known \cup {e.type}
                              /\ topicType' = [topicType EXCEPT ![e.topic] = e.type]
                              /\ disc' = [disc EXCEPT !.at = "has_schema", !.endpoint = e]
    BY <1>1 DEF DiscCollect
  <2>2. e.topic \in Topics /\ e.type # NoType /\ Announced(e.topic, e.type)
    BY EndpointFacts
  <2>3. \A t \in Topics : topicType'[t] # NoType =>
           Announced(t, topicType'[t]) /\ topicType'[t] \in known'
    BY <2>1, <2>2, SMTT(30)
  <2> QED BY <1>1, <2>1, <2>2, <2>3 DEF DiscCollect
<1>2. CASE DiscHasSchema \/ DiscSchemaEnter \/ DiscHasChannel \/ DiscSchemaId \/ DiscChannelEnter
  BY <1>2 DEF DiscHasSchema, DiscSchemaEnter, DiscHasChannel, DiscSchemaId, DiscChannelEnter
<1>3. CASE DiscSchemaAdd \/ DiscSchemaStore \/ DiscChannelAdd \/ DiscChannelStore
  BY <1>3 DEF DiscSchemaAdd, DiscSchemaStore, DiscChannelAdd, DiscChannelStore
<1>4. CASE DiscSetupReader
  <2>1. disc.endpoint \in Endpoints /\ topicType[disc.endpoint.topic] # NoType
    BY <1>4, EndpointFacts DEF DiscSetupReader
  <2> QED BY <1>4, <2>1, EndpointFacts DEF DiscSetupReader
<1>5. ASSUME NEW t \in Subscribed, RecordSample(t) PROVE CollectionInv'
  BY <1>5 DEF RecordSample
<1>6. CASE SplitClose \/ SplitNewWriter \/ SplitClearSchemas \/ SplitClearChannels \/ SplitOpen
  BY <1>6 DEF SplitClose, SplitNewWriter, SplitClearSchemas, SplitClearChannels, SplitOpen
<1>7. ASSUME NEW t \in Topics, ReRegisterNext(t) PROVE CollectionInv'
  <2>1. topicType[t] \in known /\ Announced(t, topicType[t])
    BY <1>7 DEF ReRegisterNext
  <2> QED BY <1>7, <2>1 DEF ReRegisterNext
<1>8. CASE ReRegisterSchema \/ ReRegisterChannel \/ ReRegisterDone
  BY <1>8 DEF ReRegisterSchema, ReRegisterChannel, ReRegisterDone
<1>9. CASE UNCHANGED vars
  BY <1>9 DEF vars
<1> QED BY <1>1, <1>2, <1>3, <1>4, <1>5, <1>6, <1>7, <1>8, <1>9 DEF Next, Discovery, Polling

LEMMA OpenStep == ASSUME OpenInv, [Next]_vars PROVE OpenInv'
<1> USE DEF OpenInv, Reopening, ReRegistering, DiscGoto, PollGoto, collection, writer, polling
<1>1. CASE Discovery
  BY <1>1 DEF Discovery, DiscCollect, DiscHasSchema, DiscSchemaEnter, DiscSchemaAdd,
     DiscSchemaStore, DiscHasChannel, DiscSchemaId, DiscChannelEnter, DiscChannelAdd,
     DiscChannelStore, DiscSetupReader
<1>2. CASE Polling
  BY <1>2 DEF Polling, RecordSample, SplitClose, SplitNewWriter, SplitClearSchemas,
     SplitClearChannels, SplitOpen, ReRegisterNext, ReRegisterSchema, ReRegisterChannel,
     ReRegisterDone
<1>3. CASE UNCHANGED vars
  BY <1>3 DEF vars
<1> QED BY <1>1, <1>2, <1>3 DEF Next

\* A state in the life of a file whose reopen() met no discovery.
Quiet == TypeOK /\ CollectionInv /\ OpenInv /\ ~raced /\ Orderly

LEMMA DiscLooksStep ==
    ASSUME Quiet, TypeOK',
           DiscHasSchema \/ DiscSchemaEnter \/ DiscHasChannel \/ DiscSchemaId \/ DiscChannelEnter
    PROVE  Orderly'
<1> USE RegistrationAssumption DEF DiscHasSchema, DiscSchemaEnter, DiscHasChannel, DiscSchemaId, DiscChannelEnter, TypeOK, DiscGoto, PollGoto, collection, writer, polling, NoEndpoint, Subscribed, Quiet, Orderly,
        Reopening, ReRegistering
<1>1. ReopenInv'
  BY DEF ReopenInv, DiscoveryInv
<1>2. IdsInv'
  BY DEF IdsInv, Announced
<1>3. DiscoveryInv'
  <2>1. isOpen /\ disc.endpoint \in Endpoints
    BY DEF ReopenInv, OpenInv
  <2>2. disc.endpoint.type \in Types /\ disc.endpoint.topic \in Topics
    BY <2>1, EndpointFacts
  <2>3. CASE DiscHasSchema
    BY <2>1, <2>2, <2>3 DEF DiscoveryInv
  <2>4. CASE DiscSchemaEnter
    BY <2>1, <2>2, <2>4 DEF DiscoveryInv
  <2>5. CASE DiscHasChannel
    BY <2>1, <2>2, <2>5 DEF DiscoveryInv
  <2>6. CASE DiscSchemaId
    BY <2>1, <2>2, <2>6 DEF DiscoveryInv
  <2>7. CASE DiscChannelEnter
    BY <2>1, <2>2, <2>7 DEF DiscoveryInv
  <2> QED BY <2>3, <2>4, <2>5, <2>6, <2>7
<1>4. ReRegisterInv'
  BY DEF ReRegisterInv, SubscribedHasChannel, DiscoveryInv
<1>5. RecordedAsReceived'
  BY DEF RecordedAsReceived
<1> QED BY <1>1, <1>2, <1>3, <1>4, <1>5

LEMMA DiscCollectStep ==
    ASSUME Quiet, TypeOK',
           DiscCollect, ~raced'
    PROVE  Orderly'
<1> USE RegistrationAssumption DEF DiscCollect, TypeOK, DiscGoto, PollGoto, collection, writer, polling, NoEndpoint, Subscribed, Quiet, Orderly,
        Reopening, ReRegistering
<1>1. ReopenInv'
  BY DEF ReopenInv, DiscoveryInv
<1>2. IdsInv'
  BY DEF IdsInv, Announced
<1>3. DiscoveryInv'
  BY DEF DiscoveryInv, IdsInv, ReopenInv
<1>4. ReRegisterInv'
  BY DEF ReRegisterInv, SubscribedHasChannel, DiscoveryInv
<1>5. RecordedAsReceived'
  BY DEF RecordedAsReceived
<1> QED BY <1>1, <1>2, <1>3, <1>4, <1>5

LEMMA DiscSchemaAddStep ==
    ASSUME Quiet, TypeOK',
           DiscSchemaAdd
    PROVE  Orderly'
<1> USE RegistrationAssumption DEF DiscSchemaAdd, TypeOK, DiscGoto, PollGoto, collection, writer, polling, NoEndpoint, Subscribed, Quiet, Orderly,
        Reopening, ReRegistering
<1>1. ReopenInv'
  BY DEF ReopenInv, DiscoveryInv
<1>2. IdsInv'
  <2>1. disc.endpoint.type \in Types /\ poll \notin Reopening
    BY EndpointFacts DEF ReopenInv
  <2>2. /\ Len(schemas') = Len(schemas) + 1 /\ Len(schemas) \in Nat
        /\ \A i \in 1..Len(schemas) : schemas'[i] = schemas[i]
    BY <2>1, AppendFacts
  <2>3. \A i \in 1..Len(schemas') :
           schemaIds[schemas'[i]] = i \/ (disc'.at = "schema_store" /\ i = Len(schemas'))
    BY <2>1, <2>2, SMTT(30) DEF IdsInv
  <2>4. \A i \in 1..Len(channels) :
           /\ channels[i].schema \in 1..Len(schemas')
           /\ schemas'[channels[i].schema] = schemas[channels[i].schema]
    BY <2>1, <2>2, SMTT(30) DEF IdsInv
  <2>5. \A y \in Types : schemaIds[y] # 0 =>
           schemaIds[y] <= Len(schemas') /\ schemas'[schemaIds[y]] = y
    BY <2>1, <2>2, SMTT(30) DEF IdsInv
  <2> QED BY <2>1, <2>3, <2>4, <2>5, SMTT(30) DEF IdsInv
<1>3. DiscoveryInv'
  BY DEF DiscoveryInv, IdsInv, ReopenInv
<1>4. ReRegisterInv'
  BY DEF ReRegisterInv, SubscribedHasChannel, DiscoveryInv
<1>5. RecordedAsReceived'
  BY DEF RecordedAsReceived
<1> QED BY <1>1, <1>2, <1>3, <1>4, <1>5

LEMMA DiscSchemaStoreStep ==
    ASSUME Quiet, TypeOK',
           DiscSchemaStore
    PROVE  Orderly'
<1> USE RegistrationAssumption DEF DiscSchemaStore, TypeOK, DiscGoto, PollGoto, collection, writer, polling, NoEndpoint, Subscribed, Quiet, Orderly,
        Reopening, ReRegistering
<1>1. ReopenInv'
  BY DEF ReopenInv, DiscoveryInv
<1>2. IdsInv'
  <2>1. /\ disc.endpoint.type \in Types /\ poll \notin Reopening
        /\ disc.id = Len(schemas) /\ schemas[disc.id] = disc.endpoint.type
        /\ schemaIds[disc.endpoint.type] = 0
    BY EndpointFacts DEF DiscoveryInv, ReopenInv
  <2> QED BY <2>1, SMTT(30) DEF IdsInv
<1>3. DiscoveryInv'
  BY DEF DiscoveryInv, IdsInv, ReopenInv
<1>4. ReRegisterInv'
  BY DEF ReRegisterInv, SubscribedHasChannel, DiscoveryInv
<1>5. RecordedAsReceived'
  BY DEF RecordedAsReceived
<1> QED BY <1>1, <1>2, <1>3, <1>4, <1>5

LEMMA DiscChannelAddStep ==
    ASSUME Quiet, TypeOK',
           DiscChannelAdd
    PROVE  Orderly'
<1> USE RegistrationAssumption DEF DiscChannelAdd, TypeOK, DiscGoto, PollGoto, collection, writer, polling, NoEndpoint, Subscribed, Quiet, Orderly,
        Reopening, ReRegistering
<1>1. ReopenInv'
  BY DEF ReopenInv, DiscoveryInv
<1>2. IdsInv'
  <2> DEFINE c == [topic |-> disc.endpoint.topic, schema |-> disc.id]
  <2>1. /\ disc.endpoint \in Endpoints /\ poll \notin Reopening
        /\ disc.id = schemaIds[disc.endpoint.type] /\ disc.id # 0
    BY DEF DiscoveryInv, ReopenInv
  <2>2. /\ disc.endpoint.type \in Types
        /\ Announced(disc.endpoint.topic, disc.endpoint.type) /\ c \in Channel
    BY <2>1, EndpointFacts DEF Channel
  <2>3. /\ Len(channels') = Len(channels) + 1 /\ Len(channels) \in Nat
        /\ \A i \in 1..Len(channels) : channels'[i] = channels[i]
        /\ channels'[Len(channels')] = c
    BY <2>2, AppendFacts
  <2>4. c.schema \in 1..Len(schemas) /\ Announced(c.topic, schemas[c.schema])
    BY <2>1, <2>2 DEF IdsInv
  <2>5. ASSUME NEW i \in 1..Len(channels')
        PROVE  /\ channels'[i].schema \in 1..Len(schemas)
               /\ Announced(channels'[i].topic, schemas[channels'[i].schema])
               /\ \/ channelIds[channels'[i].topic] = i
                  \/ (disc'.at = "channel_store" /\ i = Len(channels'))
    <3>1. CASE i \in 1..Len(channels)
      <4>1. channels'[i] = channels[i] /\ disc.at = "channel_add"
        BY <2>3, <3>1
      <4> QED BY <2>1, <3>1, <4>1 DEF IdsInv
    <3>2. CASE i = Len(channels')
      BY <2>3, <2>4, <3>2
    <3> QED BY <2>3, <3>1, <3>2, SMTT(30)
  <2>6. ASSUME NEW t \in Topics, channelIds[t] # 0
        PROVE  channelIds[t] <= Len(channels') /\ channels'[channelIds[t]].topic = t
    <3>1. channelIds[t] \in 1..Len(channels) /\ channels[channelIds[t]].topic = t
      BY <2>1, <2>6 DEF IdsInv
    <3> QED BY <2>3, <3>1
  <2> QED BY <2>1, <2>5, <2>6 DEF IdsInv
<1>3. DiscoveryInv'
  BY DEF DiscoveryInv, IdsInv, ReopenInv
<1>4. ReRegisterInv'
  BY DEF ReRegisterInv, SubscribedHasChannel, DiscoveryInv
<1>5. RecordedAsReceived'
  BY DEF RecordedAsReceived
<1> QED BY <1>1, <1>2, <1>3, <1>4, <1>5

LEMMA DiscChannelStoreStep ==
    ASSUME Quiet, TypeOK',
           DiscChannelStore
    PROVE  Orderly'
<1> USE RegistrationAssumption DEF DiscChannelStore, TypeOK, DiscGoto, PollGoto, collection, writer, polling, NoEndpoint, Subscribed, Quiet, Orderly,
        Reopening, ReRegistering
<1>1. ReopenInv'
  BY DEF ReopenInv, DiscoveryInv
<1>2. IdsInv'
  <2>1. /\ disc.endpoint.topic \in Topics /\ poll \notin Reopening
        /\ disc.id = Len(channels) /\ channels[disc.id].topic = disc.endpoint.topic
        /\ channelIds[disc.endpoint.topic] = 0 /\ disc.id # 0
    BY EndpointFacts DEF DiscoveryInv, ReopenInv
  <2> QED BY <2>1 DEF IdsInv
<1>3. DiscoveryInv'
  BY DEF DiscoveryInv, IdsInv, ReopenInv
<1>4. ReRegisterInv'
  BY DEF ReRegisterInv, SubscribedHasChannel, DiscoveryInv
<1>5. RecordedAsReceived'
  BY DEF RecordedAsReceived
<1> QED BY <1>1, <1>2, <1>3, <1>4, <1>5

LEMMA DiscSetupReaderStep ==
    ASSUME Quiet, TypeOK',
           DiscSetupReader
    PROVE  Orderly'
<1> USE RegistrationAssumption DEF DiscSetupReader, TypeOK, DiscGoto, PollGoto, collection, writer, polling, NoEndpoint, Subscribed, Quiet, Orderly,
        Reopening, ReRegistering
<1>1. ReopenInv'
  BY DEF ReopenInv, DiscoveryInv
<1>2. IdsInv'
  BY DEF IdsInv, Announced
<1>3. DiscoveryInv'
  BY DEF DiscoveryInv, IdsInv, ReopenInv
<1>4. ReRegisterInv'
  BY DEF ReRegisterInv, SubscribedHasChannel, DiscoveryInv
<1>5. RecordedAsReceived'
  BY DEF RecordedAsReceived
<1> QED BY <1>1, <1>2, <1>3, <1>4, <1>5

\* A split that meets no discovery needs nothing of the file that it closes.
LEMMA SplitCloseStep ==
    ASSUME SplitClose, ~raced' PROVE Orderly'
BY DEF SplitClose, PollGoto, Orderly, ReopenInv, IdsInv, DiscoveryInv, ReRegisterInv,
   SubscribedHasChannel, RecordedAsReceived, Reopening, ReRegistering

LEMMA SplitNewWriterStep ==
    ASSUME Quiet, TypeOK',
           SplitNewWriter
    PROVE  Orderly'
<1> USE RegistrationAssumption DEF SplitNewWriter, TypeOK, DiscGoto, PollGoto, collection, writer, polling, NoEndpoint, Subscribed, Quiet, Orderly,
        Reopening, ReRegistering
<1>1. ReopenInv'
  BY DEF ReopenInv, DiscoveryInv
<1>2. IdsInv'
  BY DEF IdsInv, Announced
<1>3. DiscoveryInv'
  BY DEF DiscoveryInv, IdsInv, ReopenInv
<1>4. ReRegisterInv'
  BY DEF ReRegisterInv, SubscribedHasChannel, DiscoveryInv
<1>5. RecordedAsReceived'
  BY DEF RecordedAsReceived
<1> QED BY <1>1, <1>2, <1>3, <1>4, <1>5

LEMMA SplitClearSchemasStep ==
    ASSUME Quiet, TypeOK',
           SplitClearSchemas
    PROVE  Orderly'
<1> USE RegistrationAssumption DEF SplitClearSchemas, TypeOK, DiscGoto, PollGoto, collection, writer, polling, NoEndpoint, Subscribed, Quiet, Orderly,
        Reopening, ReRegistering
<1>1. ReopenInv'
  BY DEF ReopenInv, DiscoveryInv
<1>2. IdsInv'
  BY DEF IdsInv, Announced
<1>3. DiscoveryInv'
  BY DEF DiscoveryInv, IdsInv, ReopenInv
<1>4. ReRegisterInv'
  BY DEF ReRegisterInv, SubscribedHasChannel, DiscoveryInv
<1>5. RecordedAsReceived'
  BY DEF RecordedAsReceived
<1> QED BY <1>1, <1>2, <1>3, <1>4, <1>5

LEMMA SplitClearChannelsStep ==
    ASSUME Quiet, TypeOK',
           SplitClearChannels
    PROVE  Orderly'
<1> USE RegistrationAssumption DEF SplitClearChannels, TypeOK, DiscGoto, PollGoto, collection, writer, polling, NoEndpoint, Subscribed, Quiet, Orderly,
        Reopening, ReRegistering
<1>1. ReopenInv'
  BY DEF ReopenInv, DiscoveryInv
<1>2. IdsInv'
  BY DEF IdsInv, ReopenInv
<1>3. DiscoveryInv'
  BY DEF DiscoveryInv, IdsInv, ReopenInv
<1>4. ReRegisterInv'
  BY DEF ReRegisterInv, SubscribedHasChannel, DiscoveryInv
<1>5. RecordedAsReceived'
  BY DEF RecordedAsReceived
<1> QED BY <1>1, <1>2, <1>3, <1>4, <1>5

LEMMA SplitOpenStep ==
    ASSUME Quiet, TypeOK',
           SplitOpen
    PROVE  Orderly'
<1> USE RegistrationAssumption DEF SplitOpen, TypeOK, DiscGoto, PollGoto, collection, writer, polling, NoEndpoint, Subscribed, Quiet, Orderly,
        Reopening, ReRegistering
<1>1. ReopenInv'
  BY DEF ReopenInv, DiscoveryInv
<1>2. IdsInv'
  BY DEF IdsInv, Announced
<1>3. DiscoveryInv'
  BY DEF DiscoveryInv, IdsInv, ReopenInv
<1>4. ReRegisterInv'
  BY DEF ReRegisterInv, SubscribedHasChannel, DiscoveryInv
<1>5. RecordedAsReceived'
  BY DEF RecordedAsReceived
<1> QED BY <1>1, <1>2, <1>3, <1>4, <1>5

LEMMA ReRegisterSchemaStep ==
    ASSUME Quiet, TypeOK',
           ReRegisterSchema
    PROVE  Orderly'
<1> USE RegistrationAssumption DEF ReRegisterSchema, TypeOK, DiscGoto, PollGoto, collection, writer, polling, NoEndpoint, Subscribed, Quiet, Orderly,
        Reopening, ReRegistering
<1>1. ReopenInv'
  BY DEF ReopenInv, DiscoveryInv
<1>2. IdsInv'
  <2>1. /\ current.type \in Types /\ poll = "re_schema"
        /\ disc.at \notin {"channel_store", "schema_store"}
    BY EndpointFacts DEF CollectionInv, MutexHeld
  <2>2. CASE schemaIds[current.type] # 0
    BY <2>2 DEF IdsInv
  <2>3. CASE schemaIds[current.type] = 0
    <3>1. /\ schemas' = Append(schemas, current.type)
          /\ schemaIds' = [schemaIds EXCEPT ![current.type] = Len(schemas')]
      BY <2>3
    <3>2. /\ Len(schemas') = Len(schemas) + 1 /\ Len(schemas) \in Nat
          /\ \A i \in 1..Len(schemas) : schemas'[i] = schemas[i]
          /\ schemas'[Len(schemas')] = current.type
      BY <2>1, <3>1, AppendFacts
    <3>3. ASSUME NEW i \in 1..Len(schemas') PROVE schemaIds'[schemas'[i]] = i
      <4>1. CASE i \in 1..Len(schemas)
        <5>1. schemaIds[schemas[i]] = i /\ schemas[i] \in Types
          BY <2>1, <4>1, ElementFacts DEF IdsInv
        <5> QED BY <2>1, <2>3, <3>1, <3>2, <4>1, <5>1
      <4>2. CASE i = Len(schemas')
        BY <2>1, <3>1, <3>2, <4>2
      <4> QED BY <3>2, <4>1, <4>2
    <3>4. \A y \in Types : schemaIds'[y] # 0 =>
             schemaIds'[y] <= Len(schemas') /\ schemas'[schemaIds'[y]] = y
      BY <2>1, <3>1, <3>2 DEF IdsInv
    <3>5. ASSUME NEW i \in 1..Len(channels)
          PROVE  /\ channels[i].schema \in 1..Len(schemas')
                 /\ schemas'[channels[i].schema] = schemas[channels[i].schema]
      <4>1. channels[i].schema \in 1..Len(schemas)
        BY <2>1 DEF IdsInv
      <4> HIDE DEF ReRegisterSchema, TypeOK, Quiet
      <4> QED BY <3>2, <4>1
    <3> QED BY <2>1, <3>3, <3>4, <3>5 DEF IdsInv
  <2> QED BY <2>2, <2>3
<1>3. DiscoveryInv'
  <2>1. /\ disc.at \notin {"schema_add", "schema_store", "channel_add", "channel_store"}
        /\ disc' = disc /\ channelIds' = channelIds
    BY DEF MutexHeld
  <2>2. current.type \in Types /\ Len(schemas') \in Nat
    BY EndpointFacts DEF CollectionInv
  <2>3. \A y \in Types : schemaIds[y] # 0 => schemaIds'[y] = schemaIds[y]
    BY <2>2
  <2>4. CASE disc.at = "idle"
    BY <2>1, <2>4 DEF DiscoveryInv
  <2>5. CASE disc.at # "idle"
    <3>1. disc.endpoint.type \in Types
      BY <2>5, EndpointFacts
    <3> QED BY <2>1, <2>3, <3>1 DEF DiscoveryInv
  <2> QED BY <2>4, <2>5
<1>4. ReRegisterInv'
  BY DEF ReRegisterInv, SubscribedHasChannel, DiscoveryInv
<1>5. RecordedAsReceived'
  BY DEF RecordedAsReceived
<1> QED BY <1>1, <1>2, <1>3, <1>4, <1>5

LEMMA ReRegisterChannelStep ==
    ASSUME Quiet, TypeOK',
           ReRegisterChannel
    PROVE  Orderly'
<1> USE RegistrationAssumption DEF ReRegisterChannel, TypeOK, DiscGoto, PollGoto, collection, writer, polling, NoEndpoint, Subscribed, Quiet, Orderly,
        Reopening, ReRegistering
<1>1. ReopenInv'
  BY DEF ReopenInv, DiscoveryInv
<1>2. IdsInv'
  <2> DEFINE c == [topic |-> current.topic, schema |-> schemaIds[current.type]]
  <2>1. /\ current \in Endpoints /\ schemaIds[current.type] # 0
        /\ ~MutexHeld /\ disc.at \notin {"channel_store", "schema_store"}
        /\ poll = "re_channel"
    BY DEF ReRegisterInv, CollectionInv, MutexHeld
  <2>2. /\ current.type \in Types /\ current.topic \in Topics
        /\ Announced(current.topic, current.type) /\ c \in Channel
    BY <2>1, EndpointFacts DEF Channel
  <2>3. CASE channelIds[current.topic] # 0
    BY <2>3 DEF IdsInv
  <2>4. CASE channelIds[current.topic] = 0
    <3>1. /\ Len(channels') = Len(channels) + 1 /\ Len(channels) \in Nat
          /\ \A i \in 1..Len(channels) : channels'[i] = channels[i]
          /\ channels'[Len(channels')] = c
      BY <2>2, <2>4, AppendFacts
    <3>2. channelIds' = [channelIds EXCEPT ![current.topic] = Len(channels')]
      BY <2>4
    <3>3. c.schema \in 1..Len(schemas) /\ Announced(c.topic, schemas[c.schema])
      BY <2>1, <2>2 DEF IdsInv
    <3>4. ASSUME NEW i \in 1..Len(channels')
          PROVE  /\ channels'[i].schema \in 1..Len(schemas)
                 /\ Announced(channels'[i].topic, schemas[channels'[i].schema])
                 /\ channelIds'[channels'[i].topic] = i
      <4>1. CASE i \in 1..Len(channels)
        <5>1. channels'[i] = channels[i]
          BY <3>1, <4>1
        <5>2. /\ channels[i].schema \in 1..Len(schemas)
              /\ Announced(channels[i].topic, schemas[channels[i].schema])
              /\ channelIds[channels[i].topic] = i
          BY <2>1, <4>1 DEF IdsInv
        <5>3. channels[i].topic \in Topics /\ channels[i].topic # current.topic
          BY <2>4, <4>1, <5>2, AnnouncedFacts
        <5> QED BY <2>2, <3>2, <5>1, <5>2, <5>3
      <4>2. CASE i = Len(channels')
        BY <2>2, <3>1, <3>2, <3>3, <4>2
      <4> QED BY <3>1, <4>1, <4>2
    <3>5. ASSUME NEW t \in Topics, channelIds'[t] # 0
          PROVE  channelIds'[t] <= Len(channels') /\ channels'[channelIds'[t]].topic = t
      <4>1. CASE t = current.topic
        BY <2>2, <3>1, <3>2, <4>1
      <4>2. CASE t # current.topic
        <5>1. channelIds'[t] = channelIds[t]
          BY <2>2, <3>2, <4>2
        <5>2. channelIds[t] \in 1..Len(channels) /\ channels[channelIds[t]].topic = t
          BY <2>1, <3>5, <5>1 DEF IdsInv
        <5> QED BY <3>1, <5>1, <5>2
      <4> QED BY <4>1, <4>2
    <3> QED BY <2>1, <3>4, <3>5 DEF IdsInv
  <2> QED BY <2>3, <2>4
<1>3. DiscoveryInv'
  <2>1. /\ disc.at \notin {"schema_add", "schema_store", "channel_add", "channel_store"}
        /\ disc' = disc /\ schemaIds' = schemaIds
    BY DEF MutexHeld
  <2>2. current.topic \in Topics
    BY EndpointFacts DEF CollectionInv
  <2>3. \A t \in Topics : channelIds[t] # 0 => channelIds'[t] = channelIds[t]
    BY <2>2
  <2>4. CASE disc.at = "idle"
    BY <2>1, <2>4 DEF DiscoveryInv
  <2>5. CASE disc.at # "idle"
    <3>1. disc.endpoint.topic \in Topics
      BY <2>5, EndpointFacts
    <3> QED BY <2>1, <2>3, <3>1 DEF DiscoveryInv
  <2> QED BY <2>4, <2>5
<1>4. ReRegisterInv'
  <2>1. /\ poll = "re_channel" /\ poll' = "re_register"
        /\ todo' = todo /\ todo \subseteq Subscribed /\ Subscribed' = Subscribed
    BY DEF CollectionInv
  <2>2. ASSUME NEW t \in Subscribed
        PROVE  channelIds'[t] # 0 \/ t \in todo
    <3>1. channelIds[t] # 0 \/ t \in todo \/ current.topic = t
      BY <2>1 DEF ReRegisterInv
    <3>2. CASE channelIds[current.topic] # 0
      BY <3>1, <3>2
    <3>3. CASE channelIds[current.topic] = 0
      <4>1. Len(channels') # 0
        BY <3>3
      <4>2. channelIds' = [channelIds EXCEPT ![current.topic] = Len(channels')]
        BY <3>3
      <4>3. t \in Topics
        OBVIOUS
      <4> QED BY <3>1, <4>1, <4>2, <4>3
    <3> QED BY <3>2, <3>3
  <2> HIDE DEF ReRegisterChannel, TypeOK, Quiet, Subscribed
  <2> QED BY <2>1, <2>2 DEF ReRegisterInv, SubscribedHasChannel
<1>5. RecordedAsReceived'
  BY DEF RecordedAsReceived
<1> QED BY <1>1, <1>2, <1>3, <1>4, <1>5

LEMMA ReRegisterDoneStep ==
    ASSUME Quiet, TypeOK',
           ReRegisterDone
    PROVE  Orderly'
<1> USE RegistrationAssumption DEF ReRegisterDone, TypeOK, DiscGoto, PollGoto, collection, writer, polling, NoEndpoint, Subscribed, Quiet, Orderly,
        Reopening, ReRegistering
<1>1. ReopenInv'
  BY DEF ReopenInv, DiscoveryInv
<1>2. IdsInv'
  BY DEF IdsInv, Announced
<1>3. DiscoveryInv'
  BY DEF DiscoveryInv, IdsInv, ReopenInv
<1>4. ReRegisterInv'
  BY DEF ReRegisterInv, SubscribedHasChannel, DiscoveryInv
<1>5. RecordedAsReceived'
  BY DEF RecordedAsReceived
<1> QED BY <1>1, <1>2, <1>3, <1>4, <1>5

LEMMA RecordSampleStep ==
    ASSUME Quiet, TypeOK',
           NEW u \in Subscribed, RecordSample(u)
    PROVE  Orderly'
<1> USE RegistrationAssumption DEF RecordSample, TypeOK, DiscGoto, PollGoto, collection, writer, polling, NoEndpoint, Subscribed, Quiet, Orderly,
        Reopening, ReRegistering
<1>1. ReopenInv'
  BY DEF ReopenInv, DiscoveryInv
<1>2. IdsInv'
  BY DEF IdsInv, Announced
<1>3. DiscoveryInv'
  BY DEF DiscoveryInv, IdsInv, ReopenInv
<1>4. ReRegisterInv'
  BY DEF ReRegisterInv, SubscribedHasChannel, DiscoveryInv
<1>5. RecordedAsReceived'
  <2>1. u \in Topics /\ channelIds[u] \in 1..Len(channels)
    OBVIOUS
  <2>2. /\ channels[channelIds[u]].topic = u
        /\ channels[channelIds[u]].schema \in 1..Len(schemas)
        /\ Announced(u, schemas[channels[channelIds[u]].schema])
    BY <2>1 DEF IdsInv
  <2>3. Announced(u, SchemaOf(u))
    BY <2>1, <2>2 DEF SchemaOf
  <2> QED BY <2>2, <2>3 DEF RecordedAsReceived
<1> QED BY <1>1, <1>2, <1>3, <1>4, <1>5

LEMMA ReRegisterNextStep ==
    ASSUME Quiet, TypeOK',
           NEW u \in Topics, ReRegisterNext(u)
    PROVE  Orderly'
<1> USE RegistrationAssumption DEF ReRegisterNext, TypeOK, DiscGoto, PollGoto, collection, writer, polling, NoEndpoint, Subscribed, Quiet, Orderly,
        Reopening, ReRegistering
<1>1. ReopenInv'
  BY DEF ReopenInv, DiscoveryInv
<1>2. IdsInv'
  BY DEF IdsInv, Announced
<1>3. DiscoveryInv'
  BY DEF DiscoveryInv, IdsInv, ReopenInv
<1>4. ReRegisterInv'
  <2>1. ASSUME u \in Subscribed
        PROVE  topicType[u] \in known /\ Announced(u, topicType[u])
    BY <2>1 DEF CollectionInv
  <2>2. u \in Subscribed
    BY DEF CollectionInv
  <2>3. poll' = "re_schema" /\ current' = [topic |-> u, type |-> topicType[u]]
    BY <2>1, <2>2
  <2>4. current' \in Endpoints
    BY <2>1, <2>2, <2>3 DEF Announced
  <2> QED BY <2>2, <2>3, <2>4 DEF ReRegisterInv, SubscribedHasChannel
<1>5. RecordedAsReceived'
  BY DEF RecordedAsReceived
<1> QED BY <1>1, <1>2, <1>3, <1>4, <1>5

\* Only a split can end the effects of a race, and only when it meets no discovery.
LEMMA RacedStep == ASSUME [Next]_vars, raced, ~raced' PROVE SplitClose
<1> USE DEF DiscGoto, PollGoto, polling
<1>1. CASE Discovery
  BY <1>1 DEF Discovery, DiscCollect, DiscHasSchema, DiscSchemaEnter, DiscSchemaAdd,
     DiscSchemaStore, DiscHasChannel, DiscSchemaId, DiscChannelEnter, DiscChannelAdd,
     DiscChannelStore, DiscSetupReader
<1>2. CASE Polling
  BY <1>2 DEF Polling, RecordSample, SplitNewWriter, SplitClearSchemas,
     SplitClearChannels, SplitOpen, ReRegisterNext, ReRegisterSchema, ReRegisterChannel,
     ReRegisterDone
<1>3. CASE UNCHANGED vars
  BY <1>3 DEF vars
<1> QED BY <1>1, <1>2, <1>3 DEF Next

LEMMA SplitInit == Init => SplitInv
<1> SUFFICES ASSUME Init PROVE SplitInv
  OBVIOUS
<1> USE RegistrationAssumption DEF Init
<1>1. TypeOK
  <2>1. /\ topicType \in [Topics -> Types \cup {NoType}]
        /\ reader \in [Topics -> Types \cup {NoType}]
        /\ schemaIds \in [Types -> Nat] /\ channelIds \in [Topics -> Nat]
    OBVIOUS
  <2>2. schemas \in Seq(Types) /\ channels \in Seq(Channel) /\ splits \in 0..MaxSplits
    BY DEF RegistrationAssumption
  <2>3. /\ disc \in [at : DiscPC, endpoint : Endpoints \cup {NoEndpoint}, id : Nat]
        /\ disc.at = "idle" /\ poll \in PollPC /\ poll = "poll"
    BY DEF DiscPC, PollPC
  <2> QED BY <2>1, <2>2, <2>3 DEF TypeOK
<1>2. CollectionInv /\ OpenInv /\ ReopenInv /\ ReRegisterInv
  BY DEF CollectionInv, OpenInv, ReopenInv, ReRegisterInv, SubscribedHasChannel, Subscribed,
     Reopening, ReRegistering
<1>3. IdsInv /\ DiscoveryInv /\ RecordedAsReceived
  BY DEF IdsInv, DiscoveryInv, RecordedAsReceived
<1> QED BY <1>1, <1>2, <1>3 DEF SplitInv, OrderInv, Orderly

LEMMA SplitStep == SplitInv /\ [Next]_vars => SplitInv'
<1> SUFFICES ASSUME SplitInv, [Next]_vars PROVE SplitInv'
  OBVIOUS
<1>1. TypeOK' /\ CollectionInv' /\ OpenInv'
  BY TypeStep, CollectionStep, OpenStep DEF SplitInv
<1>2. SUFFICES ASSUME ~raced' PROVE Orderly'
  BY <1>1 DEF SplitInv, OrderInv
<1>3. CASE SplitClose
  BY <1>1, <1>2, <1>3, SplitCloseStep
<1>4. CASE ~SplitClose
  <2>1. Quiet
    BY <1>2, <1>4, RacedStep DEF SplitInv, OrderInv, Quiet
  <2>2. CASE Discovery
    BY <1>1, <1>2, <2>1, <2>2, DiscLooksStep, DiscCollectStep, DiscSchemaAddStep,
       DiscSchemaStoreStep, DiscChannelAddStep, DiscChannelStoreStep, DiscSetupReaderStep
       DEF Discovery
  <2>3. CASE Polling
    BY <1>1, <1>4, <2>1, <2>3, RecordSampleStep, SplitNewWriterStep, SplitClearSchemasStep,
       SplitClearChannelsStep, SplitOpenStep, ReRegisterNextStep, ReRegisterSchemaStep,
       ReRegisterChannelStep, ReRegisterDoneStep DEF Polling
  <2>4. CASE UNCHANGED vars
    BY <2>1, <2>4 DEF vars, Quiet, Orderly, CollectionInv, ReopenInv, IdsInv, DiscoveryInv,
       ReRegisterInv, SubscribedHasChannel, Subscribed, RecordedAsReceived
  <2> QED BY <2>2, <2>3, <2>4 DEF Next
<1> QED BY <1>3, <1>4

\* Whenever discoveries and splits happen, what the recorder collected, subscribed to and is
\* registering again comes from announced endpoints; and in every file whose reopen() met no
\* discovery, the maps, the writer and the messages agree, whatever became of earlier files.
THEOREM SplitInvariant == Spec => []SplitInv
BY SplitInit, SplitStep, PTL DEF Spec

\* In such a file the maps name the one channel of each topic and the one schema of each
\* type, and every topic that is read has a channel.
THEOREM RegistrationInvariant == Spec => []RegistrationInv
<1>1. SplitInv => RegistrationInv
  <2> SUFFICES ASSUME SplitInv, ~raced, poll = "poll", ~MutexHeld PROVE IdsNameTheOpenFile
    BY DEF RegistrationInv, IdsNameTheOpenFile
  <2>1. /\ IdsInv /\ channels \in Seq(Channel) /\ schemas \in Seq(Types)
        /\ disc.at \notin {"channel_store", "schema_store"}
    BY DEF SplitInv, OrderInv, Orderly, TypeOK, MutexHeld
  <2>2. /\ \A t \in Topics : channelIds[t] # 0 =>
              channelIds[t] <= Len(channels) /\ channels[channelIds[t]].topic = t
        /\ \A y \in Types : schemaIds[y] # 0 =>
              schemaIds[y] <= Len(schemas) /\ schemas[schemaIds[y]] = y
    BY <2>1 DEF IdsInv
  <2>3. \A i \in 1..Len(channels) : channelIds[channels[i].topic] = i
    BY <2>1 DEF IdsInv
  <2>4. \A i \in 1..Len(schemas) : schemaIds[schemas[i]] = i
    BY <2>1 DEF IdsInv
  <2>5. \A i, j \in 1..Len(channels) : channels[i].topic = channels[j].topic => i = j
    BY <2>3
  <2>6. \A i, j \in 1..Len(schemas) : schemas[i] = schemas[j] => i = j
    BY <2>4
  <2> QED BY <2>2, <2>5, <2>6 DEF IdsNameTheOpenFile
<1> QED BY <1>1, SplitInvariant, PTL

\* Every message of such a file is recorded under the topic it was received on and with a
\* schema announced for that topic.
THEOREM MessagesAreRecordedAsReceived == Spec => []RecordedAsReceived
<1>1. SplitInv => RecordedAsReceived
  BY DEF SplitInv, OrderInv, Orderly, RecordedAsReceived
<1> QED BY <1>1, SplitInvariant, PTL

=============================================================================
