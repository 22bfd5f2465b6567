-------------------------- MODULE DiscoveryCommands --------------------------
(***************************************************************************)
(* The commands list, info, echo and hz (src/cli/commands) up to the point *)
(* where echo and hz begin to read: the main thread starts a discovery,    *)
(* waits for what it wants, for its timeout or for a signal, and stops the *)
(* discovery, while the discovery thread runs the command's callback over  *)
(* variables of the main thread's stack frame.                             *)
(*                                                                         *)
(* One behaviour is one execution of one of the commands.                  *)
(***************************************************************************)
EXTENDS TopicDiscovery

CONSTANTS
    Commands,   \* the commands to consider: any of "list", "info", "echo", "hz"
    Wanted,     \* the topic that info or echo is called with
    Tracked,    \* the topics that hz is called with, in order
    None        \* an empty type name, a reader or descriptor that is not there

ASSUME CommandAssumption ==
    /\ Commands \subseteq {"list", "info", "echo", "hz"}
    /\ Wanted \in Topics
    /\ Tracked \in Seq(Topics)
    /\ None \notin {e.type : e \in Endpoints}

VARIABLES
    command,      \* the command
    main,         \* where its execute() is
    answer,       \* what it tells the user: "none", "shown" or "not_found"
    topics,       \* list: topics, the type name of each
    endpoints,    \* info: endpoints
    typeName,     \* info and echo: discovered_type_name
    descriptor,   \* echo: topic_descriptor, by its type
    reader,       \* echo: reader, by the type it was created with
    topicFound,   \* echo: topic_found
    readerLocked, \* echo: the callback holds reader_mutex
    trackers,     \* hz: trackers, by the type of their reader
    foundTrackers \* hz: found_trackers

client == <<topics, endpoints, typeName, descriptor, reader, topicFound, readerLocked,
            trackers>>
control == <<command, main, answer, foundTrackers>>
vars == <<discovery, client, control>>

Types == {e.type : e \in Endpoints}
MainPC == {"start", "wait", "test", "collect", "read", "stop", "join", "show", "done"}

TypeOK ==
    /\ DiscoveryTypeOK
    /\ command \in Commands
    /\ main \in MainPC
    /\ answer \in {"none", "shown", "not_found"}
    /\ DOMAIN topics \subseteq Topics
    /\ topics \in [DOMAIN topics -> Types]
    /\ endpoints \in Seq(Endpoints)
    /\ typeName \in Types \cup {None}
    /\ descriptor \in Types \cup {None}
    /\ reader \in Types \cup {None}
    /\ topicFound \in BOOLEAN
    /\ readerLocked \in BOOLEAN
    /\ trackers \in [1..Len(Tracked) -> Types \cup {None}]
    /\ foundTrackers \subseteq 1..Len(Tracked)

Init ==
    /\ DiscoveryInit
    /\ command \in Commands
    /\ main = "start"
    /\ answer = "none"
    /\ topics = [t \in {} |-> None]
    /\ endpoints = <<>>
    /\ typeName = None
    /\ descriptor = None
    /\ reader = None
    /\ topicFound = FALSE
    /\ readerLocked = FALSE
    /\ trackers = [i \in 1..Len(Tracked) |-> None]
    /\ foundTrackers = {}

-----------------------------------------------------------------------------
(* The callbacks, on the discovery thread.                                 *)

\* list: the first type name of a topic stays.
ListCallback(e) ==
    /\ topics' = [t \in DOMAIN topics \cup {e.topic} |->
                     IF t \in DOMAIN topics THEN topics[t] ELSE e.type]
    /\ UNCHANGED <<endpoints, typeName, descriptor, reader, topicFound, readerLocked,
                   trackers>>

\* info: every endpoint of the topic, and the type name of the first.
InfoCallback(e) ==
    /\ IF e.topic # Wanted
       THEN UNCHANGED <<endpoints, typeName>>
       ELSE /\ typeName' = IF typeName = None THEN e.type ELSE typeName
            /\ endpoints' = Append(endpoints, e)
    /\ UNCHANGED <<topics, descriptor, reader, topicFound, readerLocked, trackers>>

\* hz: the first tracker of the topic that has no reader yet gets one, or DDS refuses it.
HzCallback(e) ==
    LET open == {i \in 1..Len(Tracked) : trackers[i] = None /\ Tracked[i] = e.topic} IN
    /\ \/ UNCHANGED trackers
       \/ \E i \in open : /\ \A j \in open : i <= j
                          /\ trackers' = [trackers EXCEPT ![i] = e.type]
    /\ UNCHANGED <<topics, endpoints, typeName, descriptor, reader, topicFound,
                   readerLocked>>

CallbackOf(e) ==
    \/ command = "list" /\ ListCallback(e)
    \/ command = "info" /\ InfoCallback(e)
    \/ command = "hz" /\ HzCallback(e)
    \/ /\ command = "echo"
       /\ e.topic # Wanted \/ reader # None
       /\ UNCHANGED client

Callback ==
    /\ ~readerLocked
    /\ InvokeCallback
    /\ CallbackOf(Head(batch).endpoint)
    /\ UNCHANGED control

EchoMakeReader_KeepsDescriptor ==
    LET e == Head(batch).endpoint IN
    /\ command = "echo" /\ thread = "callback"
    /\ ~readerLocked
    /\ e.topic = Wanted /\ reader = None
    /\ descriptor' \in IF descriptor = None THEN {e.type, None} ELSE {descriptor}
    /\ \/ /\ reader' = e.type
          /\ topicFound' = TRUE
          /\ readerLocked' = TRUE
          /\ UNCHANGED <<thread, batch>>
       \/ /\ thread' = "process"
          /\ batch' = Tail(batch)
          /\ UNCHANGED <<reader, topicFound, readerLocked>>
    /\ UNCHANGED <<network, running, polled, tables, topics, endpoints, typeName, trackers,
                   control>>

\* echo: a descriptor, if the type can be resolved, and a reader, if DDS accepts it.  The
\* flag that the main thread polls is set before the type name is stored, under the lock.
EchoMakeReader ==
    LET e == Head(batch).endpoint IN
    /\ command = "echo" /\ thread = "callback"
    /\ ~readerLocked
    /\ e.topic = Wanted /\ reader = None
    /\ descriptor' \in {e.type, None}
    /\ \/ /\ reader' = e.type
          /\ topicFound' = TRUE
          /\ readerLocked' = TRUE
          /\ UNCHANGED <<thread, batch>>
       \/ /\ thread' = "process"
          /\ batch' = Tail(batch)
          /\ UNCHANGED <<reader, topicFound, readerLocked>>
    /\ UNCHANGED <<network, running, polled, tables, topics, endpoints, typeName, trackers,
                   control>>

EchoStoreName ==
    /\ readerLocked
    /\ InvokeCallback
    /\ typeName' = Head(batch).endpoint.type
    /\ readerLocked' = FALSE
    /\ UNCHANGED <<topics, endpoints, descriptor, reader, topicFound, trackers, control>>

Discovery ==
    \/ Polling /\ UNCHANGED <<client, control>>
    \/ Callback \/ EchoMakeReader \/ EchoStoreName

-----------------------------------------------------------------------------
(* execute(), on the main thread.                                          *)

Goto(from, to) ==
    /\ main = from
    /\ main' = to
    /\ UNCHANGED <<command, client>>

Start ==
    /\ Goto("start", "wait")
    /\ DiscoveryStart
    /\ UNCHANGED <<answer, foundTrackers>>

AllFound == \A i \in 1..Len(Tracked) : trackers[i] # None

\* After the waiting loop each command goes its own way.
LeaveWait ==
    /\ Goto("wait", CASE command = "echo" -> "test"
                      [] command = "hz"   -> "collect"
                      [] OTHER            -> "stop")
    /\ UNCHANGED <<discovery, answer, foundTrackers>>

\* echo and hz leave the loop when they have found what they want ...
Found ==
    /\ \/ command = "echo" /\ topicFound
       \/ command = "hz" /\ AllFound
    /\ LeaveWait

\* ... and every command at its timeout or, but for info, at a signal.
GiveUp == LeaveWait

\* A topic that turns up after the loop gave up still counts.
EchoTest ==
    /\ Goto("test", IF topicFound THEN "read" ELSE "stop")
    /\ answer' = IF topicFound THEN answer ELSE "not_found"
    /\ UNCHANGED <<discovery, foundTrackers>>

HzCollect ==
    LET found == {i \in 1..Len(Tracked) : trackers[i] # None} IN
    /\ Goto("collect", IF found = {} THEN "stop" ELSE "read")
    /\ foundTrackers' = found
    /\ answer' = IF found = {} THEN "not_found" ELSE answer
    /\ UNCHANGED discovery

\* echo and hz read until a signal, or until echo has printed what it was asked for; its
\* first pass waits for the callback to leave reader_mutex.  What they read is the subject
\* of module ReadLoops.
Read ==
    /\ Goto("read", "stop")
    /\ ~readerLocked
    /\ answer' = "shown"
    /\ UNCHANGED <<discovery, foundTrackers>>

\* TopicDiscovery::stop() returns at once when discovery does not run.
Stop ==
    /\ Goto("stop", IF running THEN "join" ELSE "show")
    /\ IF running THEN DiscoveryStop ELSE UNCHANGED discovery
    /\ UNCHANGED <<answer, foundTrackers>>

Join_Detaches ==
    /\ Goto("join", "show")
    /\ UNCHANGED <<discovery, answer, foundTrackers>>

Join ==
    /\ Goto("join", "show")
    /\ DiscoveryJoin
    /\ UNCHANGED <<answer, foundTrackers>>

\* list and info print what they collected; then the frame of execute() is gone.
Show ==
    /\ Goto("show", "done")
    /\ answer' = IF answer # "none" THEN answer
                 ELSE IF command = "list" /\ topics = <<>> THEN "not_found"
                 ELSE IF command = "info" /\ endpoints = <<>> THEN "not_found"
                 ELSE "shown"
    /\ UNCHANGED <<discovery, foundTrackers>>

Execute ==
    \/ Start \/ Found \/ EchoTest \/ HzCollect \/ Read \/ Stop \/ Join \/ Show

\* The process is over.
Terminated == main = "done" /\ UNCHANGED vars

Next ==
    \/ Execute \/ Discovery \/ Terminated
    \/ GiveUp
    \/ main # "done" /\ Network /\ UNCHANGED <<client, control>>

Spec == Init /\ [][Next]_vars

\* Both threads are run and time passes; nobody has to announce, withdraw or interrupt,
\* and a command that reads may read forever.
FairSpec ==
    /\ Spec
    /\ WF_vars(Discovery)
    /\ WF_vars(Execute /\ main # "read")
    /\ WF_vars(GiveUp)

-----------------------------------------------------------------------------
(* Properties.                                                             *)

Regular(e) == e.topic \notin InternalTopics
BeingReported(e) == thread = "callback" /\ Head(batch).endpoint = e

\* list and info have been told all that the table of the discovery holds, but for the
\* endpoint that is being reported: what they print is complete.
ClientKnowsTheTable ==
    \A e \in Endpoints : InTable(e) /\ ~BeingReported(e) =>
        /\ command = "list" => e.topic \in DOMAIN topics
        /\ command = "info" /\ e.topic = Wanted =>
              typeName # None /\ \E i \in 1..Len(endpoints) : endpoints[i] = e

\* The callback captures variables of execute() by reference: no call of it is in
\* progress, or can begin, once execute() reads them without a lock or has returned.
CallbackStaysInScope ==
    main \in {"show", "done"} => thread \in {"none", "done"} /\ ~running

\* When echo prints, under the lock, its reader, its descriptor and the type name belong
\* to one endpoint: a sample is never decoded with the type of another.
EchoDecodesItsOwnType ==
    main = "read" /\ command = "echo" /\ ~readerLocked =>
        /\ reader # None
        /\ typeName = reader
        /\ descriptor \in {reader, None}

\* Every tracker that hz reads has a reader of its topic, as long as it reads.
HzReadsItsTopics ==
    \A i \in foundTrackers :
        trackers[i] # None /\ \E e \in Endpoints : e.topic = Tracked[i] /\ e.type = trackers[i]

\* The discovery thread is there from the start() of the command until the join() of its
\* stop(), and the flag until that stop().
ThreadInv ==
    /\ main \in {"start", "join", "show", "done"} => ~running
    /\ ~running /\ main # "join" => thread = "none"
    /\ thread \in {"none", "done"} => ~running

\* echo's reader, while the callback holds the lock and after that, and its companions.
ReaderInv ==
    /\ topicFound <=> reader # None
    /\ reader # None => command = "echo" /\ descriptor \in {reader, None}
    /\ reader # None /\ ~readerLocked => typeName = reader
    /\ readerLocked => thread = "callback" /\ reader = Head(batch).endpoint.type
    /\ main = "test" => command = "echo"
    /\ main = "collect" => command = "hz"
    /\ main = "read" /\ command = "echo" => topicFound

\* Each reader of hz, found in time or not, is one of its tracker's topic.
TrackerInv ==
    \A i \in 1..Len(Tracked) : trackers[i] # None =>
        \E e \in Endpoints : e.topic = Tracked[i] /\ e.type = trackers[i]

\* What a command holds is complete, belongs to its topics, and is written to by nobody
\* else when the command reads it.
ClientInv ==
    /\ TypeOK /\ ClientKnowsTheTable /\ CallbackStaysInScope /\ HzReadsItsTopics
    /\ ThreadInv /\ ReaderInv /\ TrackerInv

\* The wait of each command ends, and so does the command once it stops discovery: the
\* discovery thread always lets go.
CommandEnds ==
    /\ main = "wait" ~> main # "wait"
    /\ main = "stop" ~> main = "done"
=============================================================================
