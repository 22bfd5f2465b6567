------------------------------ MODULE PsCommand ------------------------------
(***************************************************************************)
(* The command ps (src/cli/commands/PsCommand.cpp): the main thread polls  *)
(* three builtin readers in turn, one for participants, one for writers    *)
(* and one for readers, until a timeout or a signal, and then lists the    *)
(* participants with the topics of their endpoints.                        *)
(*                                                                         *)
(* As in TopicDiscovery, CycloneDDS keeps one sample per entity until it   *)
(* is taken.  A participant and its endpoints are announced by samples of  *)
(* different readers, so they may be seen in any order.  Host, process and *)
(* name of a participant come with its own sample and are not kept apart.  *)
(***************************************************************************)
EXTENDS Naturals, FiniteSetsExt

CONSTANTS
    Entities,      \* what is announced: [kind, owner, topic], see Entity
    LateEntities,  \* those of them that are not there yet in the beginning
    Self,          \* the participant of this command
    DcpsTopics,    \* the topics whose names begin with DCPS
    Filters,       \* values of --filter: the topics whose names contain the text
    NoFilter,      \* no filter, or an empty one
    NoGuid,        \* a GUID of zeros
    PsBatch,       \* how many samples one dds_take() returns at most (32 in the code)
    MaxPsChanges   \* bound: how often entities change or go away

Kinds  == {"participant", "publication", "subscription"}
Owners == {e.owner : e \in Entities}
Topics == {e.topic : e \in Entities}

ASSUME PsAssumption ==
    /\ \A e \in Entities : e.kind \in Kinds
    /\ LateEntities \subseteq Entities /\ IsFiniteSet(Entities)
    /\ NoGuid \notin Owners
    /\ \A f \in Filters \ {NoFilter} : f \subseteq Topics
    /\ PsBatch \in Nat \ {0} /\ MaxPsChanges \in Nat

VARIABLES
    psLife,       \* of each entity: "unborn", "alive" or "gone"
    builtin,      \* what its builtin reader has of it: "none", "data" or "no_data"
    psChanges,    \* how often entities changed or went away
    psTimedOut,   \* the timeout has passed
    psRunning,    \* g_ps_running
    psPc,         \* "create", "check", a kind, "done" or "failed"
    participants, \* participants: of each key, the ParticipantInfo
    topicFilter,  \* topic_filter
    showSelf,     \* show_self
    listed        \* results: the participants that are printed

psNetwork == <<psLife, builtin, psChanges>>
psOptions == <<topicFilter, showSelf>>
psVars    == <<psNetwork, psTimedOut, psRunning, psPc, participants, psOptions, listed>>

\* guid is set by the sample of the participant itself, and prints as zeros without it.
ParticipantInfo == [guid : Owners \cup {NoGuid}, pub_topics : SUBSET Topics, sub_topics : SUBSET Topics]

PsTypeOK ==
    /\ psLife \in [Entities -> {"unborn", "alive", "gone"}]
    /\ builtin \in [Entities -> {"none", "data", "no_data"}]
    /\ psChanges \in 0..MaxPsChanges
    /\ psTimedOut \in BOOLEAN /\ psRunning \in BOOLEAN
    /\ psPc \in Kinds \cup {"create", "check", "done", "failed"}
    /\ DOMAIN participants \subseteq Owners
    /\ participants \in [DOMAIN participants -> ParticipantInfo]
    /\ topicFilter \in Filters \cup {NoFilter} /\ showSelf \in BOOLEAN
    /\ listed \subseteq DOMAIN participants

PsInit ==
    /\ psLife = [e \in Entities |-> IF e \in LateEntities THEN "unborn" ELSE "alive"]
    /\ builtin = [e \in Entities |-> IF e \in LateEntities THEN "none" ELSE "data"]
    /\ psChanges = 0 /\ psTimedOut = FALSE /\ psRunning = TRUE
    /\ psPc = "create"
    /\ participants = [p \in {} |-> {}]
    /\ topicFilter \in Filters \cup {NoFilter} /\ showSelf \in BOOLEAN
    /\ listed = {}

PsIsOver == psPc \in {"done", "failed"}

-----------------------------------------------------------------------------
(* The other participants, through the builtin readers; time, and the user. *)

PsAnnounce(e) ==
    /\ psLife[e] = "unborn"
    /\ psLife' = [psLife EXCEPT ![e] = "alive"]
    /\ builtin' = [builtin EXCEPT ![e] = "data"]
    /\ UNCHANGED psChanges

PsUpdate(e) ==
    /\ psLife[e] = "alive" /\ psChanges < MaxPsChanges
    /\ psChanges' = psChanges + 1
    /\ builtin' = [builtin EXCEPT ![e] = "data"]
    /\ UNCHANGED psLife

PsWithdraw(e) ==
    /\ psLife[e] = "alive" /\ psChanges < MaxPsChanges
    /\ psChanges' = psChanges + 1
    /\ psLife' = [psLife EXCEPT ![e] = "gone"]
    /\ builtin' = [builtin EXCEPT ![e] = IF @ = "data" THEN "data" ELSE "no_data"]

OthersAct ==
    /\ ~PsIsOver
    /\ \E e \in Entities : PsAnnounce(e) \/ PsUpdate(e) \/ PsWithdraw(e)
    /\ UNCHANGED <<psTimedOut, psRunning, psPc, participants, psOptions, listed>>

PsTimeout ==
    /\ ~PsIsOver /\ ~psTimedOut
    /\ psTimedOut' = TRUE
    /\ UNCHANGED <<psNetwork, psRunning, psPc, participants, psOptions, listed>>

\* ps_signal_handler(); before it is installed the process just ends.
PsInterrupt ==
    /\ ~PsIsOver /\ psPc # "create" /\ psRunning
    /\ psRunning' = FALSE
    /\ UNCHANGED <<psNetwork, psTimedOut, psPc, participants, psOptions, listed>>

-----------------------------------------------------------------------------
(* The command.                                                            *)

\* The participant or a builtin reader may not be created; execute() returns 1.
PsCreate ==
    /\ psPc = "create"
    /\ psPc' \in {"check", "failed"}
    /\ UNCHANGED <<psNetwork, psTimedOut, psRunning, participants, psOptions, listed>>

PsPending(kind) == {e \in Entities : e.kind = kind /\ builtin[e] # "none"}

\* dds_take(): at most PsBatch of them, whichever come first.
PsBatches(kind) ==
    LET pending == PsPending(kind)
    IN IF Cardinality(pending) <= PsBatch THEN {pending} ELSE kSubset(PsBatch, pending)

IsInternal(e) == e.kind # "participant" /\ e.topic \in DcpsTopics

\* Only data of living entities counts, and none of the builtin topics.
IsEntered(e) == builtin[e] = "data" /\ psLife[e] = "alive" /\ ~IsInternal(e)

\* participants[key] adds an entry when there is none.
InfoOf(p) == IF p \in DOMAIN participants THEN participants[p]
             ELSE [guid |-> NoGuid, pub_topics |-> {}, sub_topics |-> {}]

TopicsIn(samples, kind, p) == {e.topic : e \in {s \in samples : s.kind = kind /\ s.owner = p}}

\* What samples add to the entries of their participants.
Enter(samples) ==
    participants' = [p \in DOMAIN participants \cup {e.owner : e \in samples} |->
        [guid       |-> IF TopicsIn(samples, "participant", p) # {} THEN p ELSE InfoOf(p).guid,
         pub_topics |-> InfoOf(p).pub_topics \cup TopicsIn(samples, "publication", p),
         sub_topics |-> InfoOf(p).sub_topics \cup TopicsIn(samples, "subscription", p)]]

PsTake_OfKnownParticipants(kind, next) ==
    /\ psPc = kind
    /\ \E batch \in PsBatches(kind) :
          /\ Enter({e \in batch :
                /\ IsEntered(e)
                /\ kind = "participant" \/ e.owner \in DOMAIN participants})
          /\ builtin' = [e \in Entities |-> IF e \in batch THEN "none" ELSE builtin[e]]
    /\ psPc' = next
    /\ UNCHANGED <<psLife, psChanges, psTimedOut, psRunning, psOptions, listed>>

\* One batch of one builtin reader; nothing is ever removed from the map.
PsTake(kind, next) ==
    /\ psPc = kind
    /\ \E batch \in PsBatches(kind) :
          /\ Enter({e \in batch : IsEntered(e)})
          /\ builtin' = [e \in Entities |-> IF e \in batch THEN "none" ELSE builtin[e]]
    /\ psPc' = next
    /\ UNCHANGED <<psLife, psChanges, psTimedOut, psRunning, psOptions, listed>>

\* A round of the loop, if there is time left.
PsRound ==
    /\ psPc = "check"
    /\ psRunning /\ ~psTimedOut
    /\ psPc' = "participant"
    /\ UNCHANGED <<psNetwork, psTimedOut, psRunning, participants, psOptions, listed>>

PassesFilter(info) ==
    topicFilter = NoFilter \/ (info.pub_topics \cup info.sub_topics) \cap topicFilter # {}

PsList ==
    /\ psPc = "check"
    /\ ~psRunning \/ psTimedOut
    /\ listed' = {p \in DOMAIN participants :
                     (p = Self => showSelf) /\ PassesFilter(participants[p])}
    /\ psPc' = "done"
    /\ UNCHANGED <<psNetwork, psTimedOut, psRunning, participants, psOptions>>

PsLoop ==
    \/ PsCreate \/ PsRound \/ PsList
    \/ PsTake("participant", "publication")
    \/ PsTake("publication", "subscription")
    \/ PsTake("subscription", "check")

PsNext == PsLoop \/ OthersAct \/ PsTimeout \/ PsInterrupt

PsSpec == PsInit /\ [][PsNext]_psVars

-----------------------------------------------------------------------------
(* Properties.                                                             *)

Entered(e) ==
    /\ e.owner \in DOMAIN participants
    /\ LET info == participants[e.owner]
       IN CASE e.kind = "participant"  -> info.guid = e.owner
            [] e.kind = "publication"  -> e.topic \in info.pub_topics
            [] e.kind = "subscription" -> e.topic \in info.sub_topics

\* What is alive is in the map or will be taken, even when its participant has not been
\* seen yet, changes, or comes in a batch that is full.
NobodyIsMissed ==
    \A e \in Entities : psLife[e] = "alive" /\ ~IsInternal(e) => Entered(e) \/ builtin[e] = "data"

\* There is no participant of which nothing was announced, and no topic of which it never
\* had an endpoint.
NobodyIsInvented ==
    \A p \in DOMAIN participants :
        LET of(kind) == {e \in Entities : e.owner = p /\ e.kind = kind /\ psLife[e] # "unborn"}
        IN /\ \E kind \in Kinds : of(kind) # {}
           /\ participants[p].guid # NoGuid => of("participant") # {} /\ participants[p].guid = p
           /\ participants[p].pub_topics \subseteq {e.topic : e \in of("publication")}
           /\ participants[p].sub_topics \subseteq {e.topic : e \in of("subscription")}

IsWanted(e) == topicFilter = NoFilter \/ (e.kind # "participant" /\ e.topic \in topicFilter)

\* An endpoint that the user asked for and that was taken is listed with its participant,
\* the command itself only on demand, and nobody else.
ListedAsAsked ==
    psPc = "done" =>
        /\ \A e \in Entities :
              /\ psLife[e] = "alive" /\ builtin[e] = "none" /\ ~IsInternal(e)
              /\ IsWanted(e)
              /\ e.owner # Self \/ showSelf
              => e.owner \in listed
        /\ \A p \in listed : \E e \in Entities :
              e.owner = p /\ psLife[e] # "unborn" /\ IsWanted(e)
        /\ Self \in listed => showSelf

\* What ps knows and shows is what there is: nobody is missed, invented or hidden.
PsInv == PsTypeOK /\ NobodyIsMissed /\ NobodyIsInvented /\ ListedAsAsked

\* As long as the loop goes on, it comes to know all that is alive, again and again; and it
\* ends with the timeout or a signal.
PsKeepsUp ==
    /\ []<>(PsIsOver \/ \A e \in Entities : psLife[e] = "alive" /\ ~IsInternal(e) => Entered(e))
    /\ psTimedOut \/ ~psRunning ~> PsIsOver
=============================================================================
