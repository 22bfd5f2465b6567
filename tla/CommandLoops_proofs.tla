--------------------------- MODULE CommandLoops_proofs -------------------------
(***************************************************************************)
(* What ps knows and lists, for any entities, filters and batches; what    *)
(* echo prints and hz computes, for any messages, caches and batches.      *)
(***************************************************************************)
EXTENDS CommandLoops, SelectionTheorems

\* An entry of the map, or the one that participants[key] would add.
LEMMA InfoType ==
    ASSUME PsTypeOK, NEW p
    PROVE  /\ InfoOf(p) \in ParticipantInfo
           /\ p \in DOMAIN participants => InfoOf(p) = participants[p]
           /\ p \notin DOMAIN participants =>
                 /\ InfoOf(p).guid = NoGuid
                 /\ InfoOf(p).pub_topics = {} /\ InfoOf(p).sub_topics = {}
  BY DEF PsTypeOK, InfoOf, ParticipantInfo

\* What a batch makes of the map.
LEMMA EnterEntry ==
    ASSUME PsTypeOK, NEW samples \in SUBSET Entities, Enter(samples)
    PROVE  /\ DOMAIN participants' = DOMAIN participants \cup {e.owner : e \in samples}
           /\ DOMAIN participants' \subseteq Owners
           /\ participants' \in [DOMAIN participants' -> ParticipantInfo]
           /\ \A p \in DOMAIN participants' :
                 /\ participants'[p].guid =
                       IF TopicsIn(samples, "participant", p) # {} THEN p ELSE InfoOf(p).guid
                 /\ participants'[p].pub_topics =
                       InfoOf(p).pub_topics \cup TopicsIn(samples, "publication", p)
                 /\ participants'[p].sub_topics =
                       InfoOf(p).sub_topics \cup TopicsIn(samples, "subscription", p)
<1>1. DOMAIN participants' = DOMAIN participants \cup {e.owner : e \in samples}
  BY DEF Enter
<1>2. ASSUME NEW p \in DOMAIN participants'
      PROVE  participants'[p] =
                [guid       |-> IF TopicsIn(samples, "participant", p) # {} THEN p
                                ELSE InfoOf(p).guid,
                 pub_topics |-> InfoOf(p).pub_topics \cup TopicsIn(samples, "publication", p),
                 sub_topics |-> InfoOf(p).sub_topics \cup TopicsIn(samples, "subscription", p)]
  BY DEF Enter
<1>3. ASSUME NEW p, NEW kind
      PROVE  TopicsIn(samples, kind, p) \subseteq Topics
  BY DEF TopicsIn, Topics
<1>4. ASSUME NEW p
      PROVE  /\ InfoOf(p).guid \in Owners \cup {NoGuid}
             /\ InfoOf(p).pub_topics \subseteq Topics /\ InfoOf(p).sub_topics \subseteq Topics
  BY InfoType DEF ParticipantInfo
<1>5. DOMAIN participants' \subseteq Owners
  BY <1>1 DEF PsTypeOK, Owners
<1>6. ASSUME NEW p \in DOMAIN participants'
      PROVE  participants'[p] \in ParticipantInfo
  BY <1>2, <1>3, <1>4, <1>5 DEF ParticipantInfo
<1>7. ASSUME NEW p \in DOMAIN participants'
      PROVE  /\ participants'[p].guid =
                   IF TopicsIn(samples, "participant", p) # {} THEN p ELSE InfoOf(p).guid
             /\ participants'[p].pub_topics =
                   InfoOf(p).pub_topics \cup TopicsIn(samples, "publication", p)
             /\ participants'[p].sub_topics =
                   InfoOf(p).sub_topics \cup TopicsIn(samples, "subscription", p)
  BY <1>2
<1>8. participants' \in [DOMAIN participants' -> ParticipantInfo]
  BY <1>6 DEF Enter
<1> QED BY <1>1, <1>5, <1>7, <1>8

\* Nothing that is in the map is forgotten ...
LEMMA EnteredStays ==
    ASSUME PsTypeOK, NEW samples \in SUBSET Entities, Enter(samples),
           NEW e \in Entities, Entered(e)
    PROVE  Entered(e)'
<1>1. e.owner \in DOMAIN participants /\ e.owner \in DOMAIN participants'
  BY EnterEntry DEF Entered
<1>2. InfoOf(e.owner) = participants[e.owner]
  BY <1>1, InfoType
<1> QED BY <1>1, <1>2, EnterEntry, PsAssumption DEF Entered, Kinds

\* ... and the samples of a batch are in it.
LEMMA SamplesAreEntered ==
    ASSUME PsTypeOK, NEW samples \in SUBSET Entities, Enter(samples), NEW e \in samples
    PROVE  Entered(e)'
<1>1. DOMAIN participants' = DOMAIN participants \cup {f.owner : f \in samples}
  BY EnterEntry
<1>2. e.owner \in DOMAIN participants'
  BY <1>1
<1>3. e.topic \in TopicsIn(samples, e.kind, e.owner)
  BY DEF TopicsIn
<1>4. /\ participants'[e.owner].guid =
             IF TopicsIn(samples, "participant", e.owner) # {} THEN e.owner
             ELSE InfoOf(e.owner).guid
      /\ participants'[e.owner].pub_topics =
             InfoOf(e.owner).pub_topics \cup TopicsIn(samples, "publication", e.owner)
      /\ participants'[e.owner].sub_topics =
             InfoOf(e.owner).sub_topics \cup TopicsIn(samples, "subscription", e.owner)
  BY <1>2, EnterEntry
<1>5. e \in Entities /\ e.kind \in Kinds
  BY PsAssumption
<1> QED BY <1>2, <1>3, <1>4, <1>5 DEF Entered, Kinds

-----------------------------------------------------------------------------

LEMMA PsInitStep == PsInit => PsInv
<1> SUFFICES ASSUME PsInit PROVE PsInv
  OBVIOUS
<1> USE DEF PsInit
<1>1. PsTypeOK
  <2>1. /\ DOMAIN participants = {} /\ participants \in [DOMAIN participants -> ParticipantInfo]
    OBVIOUS
  <2>2. /\ psLife \in [Entities -> {"unborn", "alive", "gone"}]
        /\ builtin \in [Entities -> {"none", "data", "no_data"}]
    OBVIOUS
  <2>3. psChanges \in 0..MaxPsChanges
    BY PsAssumption
  <2> QED BY <2>1, <2>2, <2>3 DEF PsTypeOK
<1>2. NobodyIsMissed
  BY DEF NobodyIsMissed
<1>3. NobodyIsInvented
  BY DEF NobodyIsInvented
<1>4. ListedAsAsked
  BY DEF ListedAsAsked
<1> QED BY <1>1, <1>2, <1>3, <1>4 DEF PsInv

\* The others act: what comes or changes waits in its builtin reader.
LEMMA OthersStep ==
    ASSUME PsInv, OthersAct
    PROVE  PsInv'
<1> USE DEF PsInv, OthersAct, psOptions
<1>1. PICK e \in Entities : PsAnnounce(e) \/ PsUpdate(e) \/ PsWithdraw(e)
  OBVIOUS
<1> USE DEF PsAnnounce, PsUpdate, PsWithdraw
<1>2. PsTypeOK'
  BY <1>1, PsAssumption DEF PsTypeOK
<1>3. NobodyIsMissed'
  <2> SUFFICES ASSUME NEW f \in Entities, psLife'[f] = "alive", ~IsInternal(f)
               PROVE  Entered(f)' \/ builtin'[f] = "data"
    BY DEF NobodyIsMissed, IsInternal
  <2>1. Entered(f)' = Entered(f)
    BY DEF Entered
  <2>2. CASE f = e
    BY <1>1, <2>1, <2>2 DEF PsTypeOK
  <2>3. CASE f # e
    BY <1>1, <2>1, <2>3 DEF PsTypeOK, NobodyIsMissed
  <2> QED BY <2>2, <2>3
<1>4. NobodyIsInvented'
  <2>1. \A f \in Entities : psLife[f] # "unborn" => psLife'[f] # "unborn"
    BY <1>1 DEF PsTypeOK
  <2>2. participants' = participants
    OBVIOUS
  <2> HIDE DEF OthersAct, PsAnnounce, PsUpdate, PsWithdraw
  <2> QED BY <2>1, <2>2 DEF NobodyIsInvented
<1>5. ListedAsAsked'
  BY DEF ListedAsAsked, PsIsOver
<1> QED BY <1>2, <1>3, <1>4, <1>5

\* A batch of one builtin reader.
LEMMA TakeStep ==
    ASSUME PsInv, NEW kind \in Kinds, NEW next \in Kinds \cup {"check"}, PsTake(kind, next)
    PROVE  PsInv'
<1> DEFINE EnteredOf(batch) == {e \in batch : IsEntered(e)}
<1>1. PICK batch \in PsBatches(kind) :
        /\ Enter(EnteredOf(batch))
        /\ builtin' = [e \in Entities |-> IF e \in batch THEN "none" ELSE builtin[e]]
  BY DEF PsTake
<1>2. batch \in SUBSET Entities
  BY DEF PsBatches, PsPending, kSubset
<1> DEFINE samples == EnteredOf(batch)
<1>3. /\ samples \in SUBSET Entities /\ Enter(samples)
      /\ \A e \in samples : psLife[e] = "alive" /\ builtin[e] = "data"
      /\ \A e \in batch \ samples : psLife[e] = "alive" /\ ~IsInternal(e) => builtin[e] # "data"
  BY <1>1, <1>2 DEF IsEntered
<1> HIDE DEF samples
<1>4. /\ UNCHANGED <<psLife, psChanges, psTimedOut, psRunning, topicFilter, showSelf, listed>>
      /\ psPc = kind /\ psPc' = next
  BY DEF PsTake, psOptions
<1>5. PsTypeOK /\ NobodyIsMissed /\ NobodyIsInvented
  BY DEF PsInv
<1>6. PsTypeOK'
  <2>1. /\ DOMAIN participants' \subseteq Owners /\ DOMAIN participants \subseteq DOMAIN participants'
        /\ participants' \in [DOMAIN participants' -> ParticipantInfo]
    BY <1>3, <1>5, EnterEntry
  <2>2. builtin' \in [Entities -> {"none", "data", "no_data"}]
    BY <1>1, <1>5 DEF PsTypeOK
  <2>3. psPc' \in Kinds \cup {"create", "check", "done", "failed"}
    BY <1>4
  <2> QED BY <1>4, <1>5, <2>1, <2>2, <2>3 DEF PsTypeOK
<1>7. NobodyIsMissed'
  <2> SUFFICES ASSUME NEW e \in Entities, psLife'[e] = "alive", ~IsInternal(e)
               PROVE  Entered(e)' \/ builtin'[e] = "data"
    BY DEF NobodyIsMissed, IsInternal
  <2>1. CASE e \notin batch
    <3>1. ASSUME Entered(e) PROVE Entered(e)'
      BY <1>3, <1>5, <3>1, EnteredStays
    <3> QED BY <1>1, <1>4, <1>5, <2>1, <3>1 DEF NobodyIsMissed
  <2>2. CASE e \in batch \ samples
    <3>1. Entered(e)
      BY <1>3, <1>4, <1>5, <2>2 DEF NobodyIsMissed
    <3> QED BY <1>3, <1>5, <3>1, EnteredStays
  <2>3. CASE e \in samples
    BY <1>3, <1>5, <2>3, SamplesAreEntered
  <2> QED BY <2>1, <2>2, <2>3
<1>8. NobodyIsInvented'
  <2> DEFINE of(p, k) == {e \in Entities : e.owner = p /\ e.kind = k /\ psLife[e] # "unborn"}
  <2>1. ASSUME NEW p, NEW k
        PROVE  /\ TopicsIn(samples, k, p) \subseteq {e.topic : e \in of(p, k)}
               /\ TopicsIn(samples, k, p) # {} => of(p, k) # {}
    BY <1>3 DEF TopicsIn
  <2>2. ASSUME NEW p \in DOMAIN participants'
        PROVE  /\ \E k \in Kinds : of(p, k) # {}
               /\ participants'[p].guid # NoGuid =>
                     of(p, "participant") # {} /\ participants'[p].guid = p
               /\ participants'[p].pub_topics \subseteq {e.topic : e \in of(p, "publication")}
               /\ participants'[p].sub_topics \subseteq {e.topic : e \in of(p, "subscription")}
    <3>1. /\ participants'[p].guid =
                   IF TopicsIn(samples, "participant", p) # {} THEN p ELSE InfoOf(p).guid
          /\ participants'[p].pub_topics =
                   InfoOf(p).pub_topics \cup TopicsIn(samples, "publication", p)
          /\ participants'[p].sub_topics =
                   InfoOf(p).sub_topics \cup TopicsIn(samples, "subscription", p)
      BY <1>3, <1>5, EnterEntry
    <3>2. p \in DOMAIN participants \/ \E e \in samples : e.owner = p
      <4>1. DOMAIN participants' = DOMAIN participants \cup {e.owner : e \in samples}
        BY <1>3, <1>5, EnterEntry
      <4> QED BY <4>1
    <3>3. CASE p \in DOMAIN participants
      <4>1. /\ \E k \in Kinds : of(p, k) # {}
            /\ participants[p].guid # NoGuid =>
                  of(p, "participant") # {} /\ participants[p].guid = p
            /\ participants[p].pub_topics \subseteq {e.topic : e \in of(p, "publication")}
            /\ participants[p].sub_topics \subseteq {e.topic : e \in of(p, "subscription")}
        BY <1>5, <3>3 DEF NobodyIsInvented
      <4>2. InfoOf(p) = participants[p]
        BY <1>5, <3>3, InfoType
      <4> HIDE DEF of
      <4> QED BY <2>1, <3>1, <4>1, <4>2
    <3>4. CASE p \notin DOMAIN participants
      <4>1. \E k \in Kinds : of(p, k) # {}
        BY <1>3, <3>2, <3>4, PsAssumption
      <4>2. /\ InfoOf(p).guid = NoGuid
            /\ InfoOf(p).pub_topics = {} /\ InfoOf(p).sub_topics = {}
        BY <1>5, <3>4, InfoType
      <4> HIDE DEF of
      <4> QED BY <2>1, <3>1, <4>1, <4>2
    <3> QED BY <3>3, <3>4
  <2>3. psLife' = psLife
    BY <1>4
  <2> QED BY <2>2, <2>3 DEF NobodyIsInvented
<1>9. ListedAsAsked'
  BY <1>4 DEF ListedAsAsked, Kinds
<1> QED BY <1>6, <1>7, <1>8, <1>9 DEF PsInv

\* The end of the loop: what is listed.
LEMMA ListStep ==
    ASSUME PsInv, PsList
    PROVE  PsInv'
<1> USE DEF PsList, psNetwork, psOptions
<1>1. PsTypeOK /\ NobodyIsMissed /\ NobodyIsInvented
  BY DEF PsInv
<1>2. PsTypeOK'
  BY <1>1 DEF PsTypeOK
<1>3. NobodyIsMissed' /\ NobodyIsInvented'
  <2>1. UNCHANGED <<psLife, builtin, participants>>
    OBVIOUS
  <2> HIDE DEF PsList
  <2>2. NobodyIsMissed'
    BY <1>1, <2>1 DEF NobodyIsMissed, Entered, IsInternal
  <2>3. NobodyIsInvented'
    BY <1>1, <2>1 DEF NobodyIsInvented
  <2> QED BY <2>2, <2>3
<1>4. ASSUME NEW e \in Entities, psLife[e] = "alive", builtin[e] = "none", ~IsInternal(e),
             IsWanted(e), e.owner # Self \/ showSelf
      PROVE  e.owner \in listed'
  <2>1. Entered(e)
    BY <1>1, <1>4 DEF NobodyIsMissed
  <2>2. PassesFilter(participants[e.owner])
    BY <1>4, <2>1, PsAssumption DEF IsWanted, PassesFilter, Entered, Kinds
  <2> QED BY <1>4, <2>1, <2>2 DEF Entered
<1>5. ASSUME NEW p \in listed'
      PROVE  \E e \in Entities : e.owner = p /\ psLife[e] # "unborn" /\ IsWanted(e)
  <2>1. p \in DOMAIN participants /\ PassesFilter(participants[p])
    BY <1>5
  <2>2. CASE topicFilter = NoFilter
    BY <1>1, <2>1, <2>2 DEF NobodyIsInvented, IsWanted
  <2>3. CASE topicFilter # NoFilter
    <3>1. PICK t \in topicFilter :
                t \in participants[p].pub_topics \/ t \in participants[p].sub_topics
      BY <2>1, <2>3 DEF PassesFilter
    <3>2. PICK e \in Entities : /\ e.owner = p /\ psLife[e] # "unborn" /\ e.topic = t
                               /\ e.kind \in {"publication", "subscription"}
      BY <1>1, <2>1, <3>1 DEF NobodyIsInvented
    <3> QED BY <3>1, <3>2 DEF IsWanted
  <2> QED BY <2>2, <2>3
<1>6. ListedAsAsked'
  <2>1. UNCHANGED <<psLife, builtin, topicFilter, showSelf>> /\ (Self \in listed' => showSelf)
    OBVIOUS
  <2> HIDE DEF PsList
  <2> QED BY <1>4, <1>5, <2>1 DEF ListedAsAsked, IsWanted, IsInternal
<1> QED BY <1>2, <1>3, <1>6 DEF PsInv

\* The steps that touch neither the map nor the builtin readers.
LEMMA QuietStep ==
    ASSUME PsInv, PsCreate \/ PsRound \/ PsTimeout \/ PsInterrupt \/ UNCHANGED psVars
    PROVE  PsInv'
<1>1. /\ UNCHANGED <<psLife, builtin, psChanges, participants, topicFilter, showSelf, listed>>
      /\ psPc' \in Kinds \cup {"create", "check", "done", "failed"}
      /\ psTimedOut' \in BOOLEAN /\ psRunning' \in BOOLEAN
      /\ psPc' = "done" => psPc = "done"
  BY DEF PsCreate, PsRound, PsTimeout, PsInterrupt, psVars, psNetwork, psOptions, PsInv, PsTypeOK,
         Kinds
<1>2. PsTypeOK'
  BY <1>1 DEF PsInv, PsTypeOK
<1>3. NobodyIsMissed'
  BY <1>1 DEF PsInv, NobodyIsMissed, Entered, IsInternal
<1>4. NobodyIsInvented'
  BY <1>1 DEF PsInv, NobodyIsInvented
<1>5. ListedAsAsked'
  BY <1>1 DEF PsInv, ListedAsAsked, IsInternal, IsWanted
<1> QED BY <1>2, <1>3, <1>4, <1>5 DEF PsInv

-----------------------------------------------------------------------------

LEMMA PsStep ==
    ASSUME PsInv, [PsNext]_psVars
    PROVE  PsInv'
<1>1. CASE PsTake("participant", "publication")
  BY <1>1, TakeStep DEF Kinds
<1>2. CASE PsTake("publication", "subscription")
  BY <1>2, TakeStep DEF Kinds
<1>3. CASE PsTake("subscription", "check")
  BY <1>3, TakeStep DEF Kinds
<1>4. CASE PsList
  BY <1>4, ListStep
<1>5. CASE OthersAct
  BY <1>5, OthersStep
<1>6. CASE PsCreate \/ PsRound \/ PsTimeout \/ PsInterrupt \/ UNCHANGED psVars
  BY <1>6, QuietStep
<1> QED BY <1>1, <1>2, <1>3, <1>4, <1>5, <1>6 DEF PsNext, PsLoop

\* ps misses no living entity that its readers delivered, invents none, and lists those the
\* user asked for, whatever comes and goes while it looks.
THEOREM PsInvariant == LoopsSpec => []PsInv
<1>1. LoopsInit => PsInv
  BY PsInitStep DEF LoopsInit
<1>2. PsInv /\ [LoopsNext]_<<vars, psVars>> => PsInv'
  <2>1. LoopsNext => [PsNext]_psVars
    BY DEF LoopsNext, Ps
  <2>2. [LoopsNext]_<<vars, psVars>> => [PsNext]_psVars
    BY <2>1
  <2> QED BY <2>2, PsStep
<1> QED BY <1>1, <1>2, PTL DEF LoopsSpec

-----------------------------------------------------------------------------
(* The cache of a reader.                                                  *)

LEMMA LastOfFacts ==
    ASSUME NEW S, NEW seq \in Seq(S), NEW n \in Nat
    PROVE  /\ LastOf(seq, n) \in Seq(S)
           /\ Len(LastOf(seq, n)) = Smaller(n, Len(seq))
           /\ Len(LastOf(seq, n)) <= n /\ Len(LastOf(seq, n)) <= Len(seq)
           /\ \A i \in 1..Len(LastOf(seq, n)) :
                 LastOf(seq, n)[i] = seq[Len(seq) - Len(LastOf(seq, n)) + i]
<1> DEFINE k == Smaller(n, Len(seq))
<1>1. k \in Nat /\ k <= n /\ k <= Len(seq) /\ Len(seq) \in Nat
  BY DEF Smaller
<1> HIDE DEF k
<1> DEFINE l == SubSeq(seq, Len(seq) - k + 1, Len(seq))
<1>2. l \in Seq(S)
  BY <1>1
<1>3. Len(l) = k
  BY <1>1
<1>4. \A i \in 1..k : l[i] = seq[Len(seq) - k + i]
  BY <1>1
<1>5. LastOf(seq, n) = l
  BY DEF LastOf, k
<1> HIDE DEF l
<1> QED BY <1>1, <1>2, <1>3, <1>4, <1>5 DEF k

LEMMA SameSequence ==
    ASSUME NEW S, NEW s \in Seq(S), NEW t \in Seq(S), Len(s) = Len(t),
           \A i \in 1..Len(s) : s[i] = t[i]
    PROVE  s = t
  OBVIOUS

\* A sequence that ends like another is what is last of it.
LEMMA LastOfIs ==
    ASSUME NEW S, NEW seq \in Seq(S), NEW l \in Seq(S), Len(l) <= Len(seq),
           \A i \in 1..Len(l) : l[i] = seq[Len(seq) - Len(l) + i]
    PROVE  l = LastOf(seq, Len(l))
<1> DEFINE m == LastOf(seq, Len(l))
<1>1. m \in Seq(S) /\ Len(m) = Len(l) /\ \A i \in 1..Len(m) : m[i] = seq[Len(seq) - Len(m) + i]
  <2>1. Len(l) \in Nat /\ Smaller(Len(l), Len(seq)) = Len(l)
    BY DEF Smaller
  <2> DEFINE k == Len(l)
  <2>2. k \in Nat /\ Smaller(k, Len(seq)) = Len(l)
    BY <2>1
  <2>3. m = LastOf(seq, k)
    OBVIOUS
  <2> HIDE DEF k, m
  <2>4. /\ m \in Seq(S) /\ Len(m) = Smaller(k, Len(seq))
        /\ \A i \in 1..Len(m) : m[i] = seq[Len(seq) - Len(m) + i]
    BY <2>2, <2>3, LastOfFacts
  <2> QED BY <2>2, <2>4
<1> HIDE DEF m
<1>2. m = l
  BY <1>1, SMTT(20)
<1> QED BY <1>2 DEF m

\* Where the samples of a cache are among the arrivals, and so which arrivals are in it.
LEMMA Places ==
    ASSUME NEW a \in Seq(Sample), NEW c \in Seq(Sample), c = LastOf(a, Len(c)),
           \A i \in DOMAIN a : a[i].seq = i
    PROVE  /\ Len(c) \in Nat /\ Len(a) \in Nat /\ Len(c) <= Len(a)
           /\ \A j \in 1..Len(c) : c[j] = a[Len(a) - Len(c) + j]
           /\ \A i \in 1..Len(a) : a[i] \in ToSet(c) <=> i > Len(a) - Len(c)
<1> DEFINE k == Len(c)
           n == Len(a)
<1>2. c = LastOf(a, k) /\ \A i \in DOMAIN a : a[i].seq = i
  OBVIOUS
<1>3. k \in Nat /\ n \in Nat /\ DOMAIN a = 1..n /\ DOMAIN c = 1..k
  OBVIOUS
<1>4. k <= n /\ \A j \in 1..k : c[j] = a[n - k + j]
  <2>1. /\ Len(LastOf(a, k)) <= n
        /\ \A j \in 1..Len(LastOf(a, k)) : LastOf(a, k)[j] = a[n - Len(LastOf(a, k)) + j]
    BY <1>3, LastOfFacts, ZenonT(20)
  <2> QED BY <1>2, <2>1
<1>5. \A i \in 1..n : a[i].seq = i
  BY <1>2, <1>3
<1> HIDE DEF k, n
<1>6. ASSUME NEW i \in 1..n
      PROVE  a[i] \in ToSet(c) <=> i > n - k
  <2>1. ToSet(c) = {c[j] : j \in 1..k}
    BY <1>3 DEF ToSet
  <2>2. ASSUME a[i] \in ToSet(c)
        PROVE  i > n - k
    <3>1. PICK j \in 1..k : c[j] = a[i]
      BY <2>1, <2>2
    <3>2. n - k + j \in 1..n
      BY <1>3, <1>4
    <3>3. i = n - k + j
      BY <1>4, <1>5, <3>1, <3>2
    <3> QED BY <1>3, <3>3
  <2>3. ASSUME i > n - k
        PROVE  a[i] \in ToSet(c)
    <3>1. i - (n - k) \in 1..k /\ i = n - k + (i - (n - k))
      BY <1>3, <1>4, <2>3
    <3> QED BY <1>4, <2>1, <3>1
  <2> QED BY <2>2, <2>3
<1> QED BY <1>3, <1>4, <1>6 DEF k, n

LEMMA CachePlaces ==
    ASSUME ReadTypeOK, CacheIsTheNewest, NEW r \in Readers
    PROVE  /\ Len(cache[r]) \in Nat /\ Len(arrived[r]) \in Nat /\ Len(cache[r]) <= Len(arrived[r])
           /\ \A j \in 1..Len(cache[r]) :
                 cache[r][j] = arrived[r][Len(arrived[r]) - Len(cache[r]) + j]
           /\ \A i \in 1..Len(arrived[r]) :
                 /\ arrived[r][i].reader = r /\ arrived[r][i].seq = i
                 /\ arrived[r][i] \in ToSet(cache[r]) <=> i > Len(arrived[r]) - Len(cache[r])
                 /\ arrived[r][i] \in overwritten => i <= Len(arrived[r]) - Len(cache[r])
<1> DEFINE c == cache[r]
           a == arrived[r]
<1>1. c \in Seq(Sample) /\ a \in Seq(Sample)
  BY DEF ReadTypeOK
<1>2. /\ c = LastOf(a, Len(c))
      /\ \A i \in DOMAIN a : a[i].reader = r /\ a[i].seq = i
      /\ \A s \in overwritten : s.reader = r => s.seq <= Len(a) - Len(c)
  BY DEF CacheIsTheNewest
<1> HIDE DEF c, a
<1>3. /\ Len(c) \in Nat /\ Len(a) \in Nat /\ Len(c) <= Len(a)
      /\ \A j \in 1..Len(c) : c[j] = a[Len(a) - Len(c) + j]
      /\ \A i \in 1..Len(a) : a[i] \in ToSet(c) <=> i > Len(a) - Len(c)
  BY <1>1, <1>2, Places
<1>4. \A i \in 1..Len(a) :
         /\ a[i].reader = r /\ a[i].seq = i
         /\ a[i] \in overwritten => i <= Len(a) - Len(c)
  BY <1>1, <1>2
<1> QED BY <1>3, <1>4 DEF a, c

\* What one dds_takecdr() returns and what it leaves.
LEMMA TakenFacts ==
    ASSUME ReadTypeOK, NEW r \in Readers
    PROVE  /\ Taken(r) \in Seq(Sample) /\ Left(r) \in Seq(Sample)
           /\ Len(Taken(r)) \in Nat /\ Len(Left(r)) \in Nat
           /\ Len(Taken(r)) <= MaxSamples
           /\ Len(Taken(r)) + Len(Left(r)) = Len(cache[r])
           /\ \A i \in 1..Len(Taken(r)) : Taken(r)[i] = cache[r][i]
           /\ \A i \in 1..Len(Left(r)) : Left(r)[i] = cache[r][Len(Taken(r)) + i]
<1> DEFINE c == cache[r]
           k == Smaller(MaxSamples, Len(c))
<1>1. c \in Seq(Sample)
  BY DEF ReadTypeOK
<1> HIDE DEF c
<1>2. k \in Nat /\ k <= MaxSamples /\ k <= Len(c) /\ Len(c) \in Nat
  BY <1>1, ReadAssumption DEF Smaller
<1> HIDE DEF k
<1> DEFINE t == SubSeq(c, 1, k)
           l == SubSeq(c, k + 1, Len(c))
<1>3. t \in Seq(Sample) /\ Len(t) = k /\ \A i \in 1..k : t[i] = c[i]
  BY <1>1, <1>2
<1>4. l \in Seq(Sample) /\ Len(l) = Len(c) - k /\ \A i \in 1..(Len(c) - k) : l[i] = c[k + i]
  BY <1>1, <1>2
<1>5. Taken(r) = t /\ Len(Taken(r)) = k
  BY <1>3 DEF Taken, c, k
<1>6. Left(r) = l
  BY <1>5 DEF Left, c
<1> HIDE DEF t, l
<1>7. Len(t) + Len(l) = Len(c)
  BY <1>2, <1>3, <1>4
<1>8. \A i \in 1..Len(l) : l[i] = c[Len(t) + i]
  BY <1>2, <1>3, <1>4
<1>9. /\ t \in Seq(Sample) /\ l \in Seq(Sample) /\ Len(t) \in Nat /\ Len(l) \in Nat
      /\ Len(t) <= MaxSamples
      /\ \A i \in 1..Len(t) : t[i] = c[i]
  BY <1>2, <1>3, <1>4
<1>10. Taken(r) = t /\ Left(r) = l
  BY <1>5, <1>6
<1> QED BY <1>7, <1>8, <1>9, <1>10, Zenon DEF c

LEMMA DepthIsPositive ==
    ASSUME ReadTypeOK
    PROVE  Depth \in Nat /\ Depth >= 1
  BY ReadAssumption DEF ReadTypeOK, Depth

\* What a sample that arrives makes of the cache.
LEMMA KeptFacts ==
    ASSUME ReadTypeOK, CacheIsTheNewest, NEW r \in Readers, NEW s \in Sample,
           NEW kept, kept = LastOf(Append(cache[r], s), Depth)
    PROVE  /\ kept \in Seq(Sample) /\ Len(kept) \in Nat
           /\ 1 <= Len(kept) /\ Len(kept) <= Depth /\ Len(kept) <= Len(cache[r]) + 1
           /\ kept = LastOf(Append(arrived[r], s), Len(kept))
<1> DEFINE c == cache[r]
           a == arrived[r]
           k == Len(c)
           n == Len(a)
           cs == Append(c, s)
           as == Append(a, s)
           m == Len(kept)
<1>1. c \in Seq(Sample) /\ a \in Seq(Sample)
  BY DEF ReadTypeOK
<1>2. k \in Nat /\ n \in Nat /\ k <= n /\ \A j \in 1..k : c[j] = a[n - k + j]
  BY CachePlaces
<1>3. Depth \in Nat /\ Depth >= 1
  BY DepthIsPositive
<1> HIDE DEF c, a
<1>4. cs \in Seq(Sample) /\ Len(cs) = k + 1 /\ \A j \in 1..(k + 1) : cs[j] = IF j <= k THEN c[j] ELSE s
  BY <1>1
<1>5. as \in Seq(Sample) /\ Len(as) = n + 1 /\ \A j \in 1..(n + 1) : as[j] = IF j <= n THEN a[j] ELSE s
  BY <1>1
<1> HIDE DEF cs, as, k, n
<1>6. kept = LastOf(cs, Depth)
  BY DEF cs, c
<1> HIDE DEF m
<1>7. /\ kept \in Seq(Sample) /\ m = Smaller(Depth, k + 1)
      /\ \A i \in 1..m : kept[i] = cs[k + 1 - m + i]
  <2>1. /\ kept \in Seq(Sample) /\ Len(kept) = Smaller(Depth, Len(cs))
        /\ \A i \in 1..Len(kept) : kept[i] = cs[Len(cs) - Len(kept) + i]
    BY <1>3, <1>4, <1>6, LastOfFacts
  <2>2. Len(cs) = k + 1 /\ Len(kept) = m
    BY <1>4 DEF m
  <2>3. ASSUME NEW i \in 1..m
        PROVE  kept[i] = cs[k + 1 - m + i]
    <3>1. kept[i] = cs[Len(cs) - Len(kept) + i]
      BY <2>1, <2>2
    <3>2. Len(cs) - Len(kept) + i = k + 1 - m + i
      BY <1>2, <2>2
    <3> QED BY <3>1, <3>2
  <2> QED BY <2>1, <2>2, <2>3
<1>8. m \in Nat /\ 1 <= m /\ m <= Depth /\ m <= k + 1 /\ k \in Nat /\ n \in Nat /\ k <= n
  BY <1>2, <1>3, <1>7 DEF Smaller
<1>9. ASSUME NEW i \in 1..m
      PROVE  kept[i] = as[n + 1 - m + i]
  <2> DEFINE x == k + 1 - m + i
             y == n + 1 - m + i
  <2>1. x \in 1..(k + 1) /\ y \in 1..(n + 1)
    BY <1>8
  <2>2. kept[i] = cs[x]
    BY <1>7
  <2>3. CASE i = m
    <3>1. x = k + 1 /\ y = n + 1 /\ ~(x <= k) /\ ~(y <= n)
      BY <1>8, <2>3
    <3> HIDE DEF x, y
    <3>2. cs[x] = s /\ as[y] = s
      BY <1>4, <1>5, <2>1, <3>1, Zenon
    <3> QED BY <2>2, <3>2 DEF y
  <2>4. CASE i # m
    <3>1. x \in 1..k /\ x <= k /\ y <= n
      BY <1>8, <2>4
    <3>2. y = n - k + x
      BY <1>8
    <3> HIDE DEF x, y
    <3>3. c[x] = a[y]
      BY <1>2, <3>1, <3>2
    <3>4. cs[x] = c[x] /\ as[y] = a[y]
      BY <1>4, <1>5, <2>1, <3>1
    <3> QED BY <2>2, <3>3, <3>4 DEF y
  <2> QED BY <2>3, <2>4
<1>10. kept = LastOf(as, m)
  <2>1. m <= n + 1
    BY <1>8
  <2>3. Len(as) = n + 1
    BY <1>5
  <2>2. m <= Len(as) /\ \A i \in 1..m : kept[i] = as[Len(as) - m + i]
    <3>1. m <= Len(as)
      BY <2>1, <2>3
    <3>2. ASSUME NEW i \in 1..m
          PROVE  kept[i] = as[Len(as) - m + i]
      <4>1. kept[i] = as[n + 1 - m + i]
        BY <1>9
      <4>2. Len(as) - m + i = n + 1 - m + i
        BY <1>8, <2>3
      <4> QED BY <4>1, <4>2
    <3> QED BY <3>1, <3>2
  <2> QED BY <1>5, <1>7, <2>2, LastOfIs DEF m
<1> QED BY <1>7, <1>8, <1>10 DEF m, as, a, k, c

\* A sample that arrives.
LEMMA ArriveSample ==
    ASSUME ReadTypeOK, NEW r \in Readers, Arrive(r)
    PROVE  \E s \in Sample :
               /\ s.reader = r /\ s.seq = Len(arrived[r]) + 1
               /\ arrived' = [arrived EXCEPT ![r] = Append(@, s)]
               /\ cache' = [cache EXCEPT ![r] = LastOf(Append(cache[r], s), Depth)]
               /\ overwritten' = overwritten \cup
                     (ToSet(cache[r]) \ ToSet(LastOf(Append(cache[r], s), Depth)))
<1>1. PICK stamp \in Stamps \cup {0} : \E valid \in BOOLEAN :
           LET s == [reader |-> r, seq |-> Len(arrived[r]) + 1, stamp |-> stamp,
                     valid |-> valid]
               kept == LastOf(Append(cache[r], s), Depth)
           IN /\ arrived' = [arrived EXCEPT ![r] = Append(@, s)]
              /\ cache' = [cache EXCEPT ![r] = kept]
              /\ overwritten' = overwritten \cup (ToSet(cache[r]) \ ToSet(kept))
  BY DEF Arrive
<1>2. PICK valid \in BOOLEAN :
           LET s == [reader |-> r, seq |-> Len(arrived[r]) + 1, stamp |-> stamp,
                     valid |-> valid]
               kept == LastOf(Append(cache[r], s), Depth)
           IN /\ arrived' = [arrived EXCEPT ![r] = Append(@, s)]
              /\ cache' = [cache EXCEPT ![r] = kept]
              /\ overwritten' = overwritten \cup (ToSet(cache[r]) \ ToSet(kept))
  BY <1>1
<1> DEFINE s == [reader |-> r, seq |-> Len(arrived[r]) + 1, stamp |-> stamp, valid |-> valid]
<1>3. Len(arrived[r]) \in Nat
  BY DEF ReadTypeOK
<1>4. s \in Sample /\ s.reader = r /\ s.seq = Len(arrived[r]) + 1
  BY <1>3 DEF Sample
<1> QED BY <1>2, <1>4

LEMMA ArriveTypes ==
    ASSUME ReadTypeOK, CacheIsTheNewest, NEW r \in Readers, Arrive(r)
    PROVE  ReadTypeOK' /\ CacheIsTheNewest'
<1>1. PICK s : /\ s \in Sample /\ s.reader = r /\ s.seq = Len(arrived[r]) + 1
               /\ arrived' = [arrived EXCEPT ![r] = Append(@, s)]
               /\ cache' = [cache EXCEPT ![r] = LastOf(Append(cache[r], s), Depth)]
               /\ overwritten' = overwritten \cup
                     (ToSet(cache[r]) \ ToSet(LastOf(Append(cache[r], s), Depth)))
  BY ArriveSample
<1> DEFINE kept == LastOf(Append(cache[r], s), Depth)
           m == Len(kept)
           n == Len(arrived[r])
           k == Len(cache[r])
<1>2. UNCHANGED <<running, pc, options, printed, due, hz>>
  BY DEF Arrive
<1>3. Depth' = Depth
  BY <1>2 DEF Depth, options
<1>4. /\ kept \in Seq(Sample) /\ m \in Nat /\ 1 <= m /\ m <= Depth /\ m <= k + 1
      /\ kept = LastOf(Append(arrived[r], s), m)
  BY <1>1, KeptFacts
<1>5. /\ arrived[r] \in Seq(Sample) /\ cache[r] \in Seq(Sample)
      /\ cache \in [Readers -> Seq(Sample)] /\ arrived \in [Readers -> Seq(Sample)]
  BY DEF ReadTypeOK
<1>6. /\ cache' = [cache EXCEPT ![r] = kept]
      /\ overwritten' = overwritten \cup (ToSet(cache[r]) \ ToSet(kept))
  BY <1>1
<1> HIDE DEF kept
<1>7. /\ cache'[r] = kept /\ arrived'[r] = Append(arrived[r], s)
      /\ \A q \in Readers \ {r} : cache'[q] = cache[q] /\ arrived'[q] = arrived[q]
  BY <1>1, <1>5, <1>6
<1>8. ReadTypeOK'
  <2>1. cache' \in [Readers -> Seq(Sample)] /\ arrived' \in [Readers -> Seq(Sample)]
    <3>1. Append(arrived[r], s) \in Seq(Sample)
      BY <1>1, <1>5
    <3> QED BY <1>1, <1>4, <1>5, <1>6, <3>1
  <2>2. \A q \in Readers : Len(cache'[q]) <= Depth'
    BY <1>3, <1>4, <1>7 DEF ReadTypeOK
  <2>3. overwritten' \subseteq Sample
    <3>1. ToSet(cache[r]) \subseteq Sample
      BY <1>5 DEF ToSet
    <3> QED BY <1>6, <3>1 DEF ReadTypeOK
  <2> QED BY <1>2, <2>1, <2>2, <2>3 DEF ReadTypeOK, options, hz
<1>9. CacheIsTheNewest'
  <2>1. /\ k \in Nat /\ n \in Nat /\ k <= n
        /\ \A j \in 1..k : cache[r][j] = arrived[r][n - k + j]
        /\ \A i \in 1..n : arrived[r][i].reader = r /\ arrived[r][i].seq = i
    BY CachePlaces
  <2>2. ToSet(cache[r]) = {cache[r][j] : j \in 1..k}
    BY <1>5 DEF ToSet
  <2> HIDE DEF k, n
  <2>3. \A x \in ToSet(cache[r]) : x.reader = r
    <3>1. \A j \in 1..k : n - k + j \in 1..n
      BY <2>1
    <3> QED BY <2>1, <2>2, <3>1
  <2>4. ASSUME NEW q \in Readers \ {r}
        PROVE  /\ \A i \in DOMAIN arrived'[q] : arrived'[q][i].reader = q /\ arrived'[q][i].seq = i
               /\ cache'[q] = LastOf(arrived'[q], Len(cache'[q]))
               /\ \A x \in overwritten' :
                     x.reader = q => x.seq <= Len(arrived'[q]) - Len(cache'[q])
    <3>1. \A x \in overwritten' : x.reader = q => x \in overwritten
      BY <1>6, <2>3
    <3> QED BY <1>7, <3>1 DEF CacheIsTheNewest
  <2> DEFINE as == Append(arrived[r], s)
  <2>5. Len(as) = n + 1 /\ DOMAIN as = 1..(n + 1) /\ \A i \in 1..(n + 1) : as[i] = IF i <= n THEN arrived[r][i] ELSE s
    BY <1>1, <1>5 DEF n
  <2> HIDE DEF as
  <2>6. ASSUME NEW i \in DOMAIN as
        PROVE  as[i].reader = r /\ as[i].seq = i
    <3>1. i \in 1..(n + 1) /\ n \in Nat
      BY <2>1, <2>5
    <3>2. as[i] = IF i <= n THEN arrived[r][i] ELSE s
      BY <2>5, <3>1, Zenon
    <3>3. CASE i <= n
      <4>1. i \in 1..n
        BY <3>1, <3>3
      <4> QED BY <2>1, <3>2, <3>3, <4>1, Zenon
    <3>4. CASE ~(i <= n)
      <4>1. i = n + 1
        BY <3>1, <3>4
      <4> QED BY <1>1, <3>2, <3>4, <4>1 DEF n
    <3> QED BY <3>3, <3>4
  <2>7. ASSUME NEW x \in overwritten', x.reader = r
        PROVE  x.seq <= n + 1 - m
    <3>1. CASE x \in overwritten
      <4>1. x.seq <= n - k
        BY <2>7, <3>1 DEF CacheIsTheNewest, n, k
      <4>2. x.seq \in Nat
        BY <3>1 DEF ReadTypeOK, Sample
      <4> QED BY <1>4, <2>1, <4>1, <4>2
    <3>2. CASE x \in ToSet(cache[r]) \ ToSet(kept)
      <4>1. PICK j \in 1..k : x = cache[r][j]
        BY <2>2, <3>2
      <4>2. n - k + j \in 1..n /\ x = as[n - k + j] /\ x.seq = n - k + j
        <5> DEFINE i == n - k + j
        <5>1. i \in 1..n /\ i \in 1..(n + 1) /\ i <= n
          BY <2>1
        <5>2. x = arrived[r][i]
          BY <2>1, <4>1
        <5> HIDE DEF i
        <5>3. x = as[i] /\ x.seq = i
          BY <2>1, <2>5, <5>1, <5>2
        <5> QED BY <5>1, <5>3 DEF i
      <4>3. n - k + j <= n + 1 - m
        <5> SUFFICES ASSUME n - k + j > n + 1 - m PROVE FALSE
          BY <1>4, <2>1
        <5> DEFINE i == n - k + j - (n + 1 - m)
        <5>1. i \in 1..m /\ n - k + j = n + 1 - m + i
          BY <1>4, <2>1, <4>2
        <5> HIDE DEF i
        <5>2. kept[i] = as[n + 1 - m + i]
          <6>1. as \in Seq(Sample) /\ kept = LastOf(as, m)
            BY <1>1, <1>4, <1>5 DEF as
          <6>2. Len(LastOf(as, m)) = m
            BY <6>1 DEF m
          <6>3. \A l \in 1..Len(LastOf(as, m)) :
                   LastOf(as, m)[l] = as[Len(as) - Len(LastOf(as, m)) + l]
            BY <1>4, <6>1, LastOfFacts
          <6>4. Len(as) = n + 1
            BY <2>5
          <6>5. kept[i] = as[Len(as) - Len(LastOf(as, m)) + i]
            BY <5>1, <6>1, <6>2, <6>3
          <6>6. Len(as) - Len(LastOf(as, m)) + i = n + 1 - m + i
            BY <1>4, <2>1, <6>2, <6>4
          <6> QED BY <6>5, <6>6
        <5>3. x \in ToSet(kept)
          <6>1. DOMAIN kept = 1..m
            BY <1>4 DEF m
          <6> QED BY <4>2, <5>1, <5>2, <6>1 DEF ToSet
        <5> QED BY <3>2, <5>3
      <4> QED BY <4>2, <4>3
    <3> QED BY <1>6, <3>1, <3>2
  <2>8. /\ \A i \in DOMAIN arrived'[r] : arrived'[r][i].reader = r /\ arrived'[r][i].seq = i
        /\ cache'[r] = LastOf(arrived'[r], Len(cache'[r]))
        /\ \A x \in overwritten' :
              x.reader = r => x.seq <= Len(arrived'[r]) - Len(cache'[r])
    <3>1. cache'[r] = kept /\ arrived'[r] = as /\ Len(as) = n + 1 /\ kept = LastOf(as, m)
      BY <1>4, <1>7, <2>5 DEF as
    <3>5. Len(arrived'[r]) = n + 1 /\ Len(cache'[r]) = m
      BY <3>1 DEF m
    <3>2. Len(arrived'[r]) - Len(cache'[r]) = n + 1 - m
      BY <1>4, <2>1, <3>5
    <3>3. cache'[r] = LastOf(arrived'[r], Len(cache'[r]))
      BY <3>1 DEF m
    <3>4. \A i \in DOMAIN arrived'[r] : arrived'[r][i].reader = r /\ arrived'[r][i].seq = i
      BY <2>6, <3>1
    <3> QED BY <2>7, <3>2, <3>3, <3>4, Zenon
  <2>9. \A q \in Readers :
           /\ \A i \in DOMAIN arrived'[q] : arrived'[q][i].reader = q /\ arrived'[q][i].seq = i
           /\ cache'[q] = LastOf(arrived'[q], Len(cache'[q]))
           /\ \A x \in overwritten' :
                 x.reader = q => x.seq <= Len(arrived'[q]) - Len(cache'[q])
    BY <2>4, <2>8
  <2> QED BY <2>9 DEF CacheIsTheNewest
<1> QED BY <1>8, <1>9

-----------------------------------------------------------------------------
(* What echo prints.                                                       *)

LEMMA EchoArrive ==
    ASSUME ReadTypeOK, CacheIsTheNewest, EchoPrintsAllInOrder, NEW r \in Readers, Arrive(r)
    PROVE  EchoPrintsAllInOrder'
<1>1. SUFFICES ASSUME command' = "echo"
               PROVE  printed' = Selected(arrived'[EchoReader],
                          Data \ (overwritten' \cup ToSet(cache'[EchoReader])))
  BY DEF EchoPrintsAllInOrder, Data
<1>2. r = EchoReader /\ printed' = printed /\ command = "echo"
  BY <1>1 DEF Arrive, options
<1>3. PICK s : /\ s \in Sample /\ s.reader = r /\ s.seq = Len(arrived[r]) + 1
               /\ arrived' = [arrived EXCEPT ![r] = Append(@, s)]
               /\ cache' = [cache EXCEPT ![r] = LastOf(Append(cache[r], s), Depth)]
               /\ overwritten' = overwritten \cup
                     (ToSet(cache[r]) \ ToSet(LastOf(Append(cache[r], s), Depth)))
  BY ArriveSample
<1> DEFINE a == arrived[r]
           c == cache[r]
           as == Append(a, s)
           kept == LastOf(Append(c, s), Depth)
           n == Len(a)
           k == Len(c)
           m == Len(kept)
           d == overwritten
           e == overwritten'
<1>4. a \in Seq(Sample) /\ c \in Seq(Sample)
  BY DEF ReadTypeOK
<1>5. /\ kept \in Seq(Sample) /\ m \in Nat /\ 1 <= m /\ m <= k + 1
      /\ kept = LastOf(as, m)
  BY <1>3, KeptFacts
<1>6. /\ cache'[r] = kept /\ arrived'[r] = as /\ e = d \cup (ToSet(c) \ ToSet(kept))
  BY <1>3 DEF ReadTypeOK
<1>7. \A i \in DOMAIN arrived'[r] : arrived'[r][i].seq = i
  BY ArriveTypes DEF CacheIsTheNewest
<1>8. /\ k \in Nat /\ n \in Nat /\ k <= n
      /\ \A i \in 1..n : a[i] \in ToSet(c) <=> i > n - k
  BY CachePlaces
<1>9. \A i \in DOMAIN as : as[i].seq = i
  BY <1>6, <1>7, Zenon
<1>10. printed = Selected(a, Data \ (d \cup ToSet(c)))
  BY <1>2 DEF EchoPrintsAllInOrder
<1> HIDE DEF kept, a, c, d, e
<1>11. as \in Seq(Sample) /\ Len(as) = n + 1 /\ as[n + 1] = s /\ \A i \in 1..n : as[i] = a[i]
  BY <1>3, <1>4
<1> HIDE DEF as, n, k
<1>12. \A i \in 1..Len(as) : as[i] \in ToSet(kept) <=> i > Len(as) - m
  BY <1>5, <1>9, <1>11, Places
<1> HIDE DEF m
<1>13. \A i \in 1..(n + 1) : as[i] \in ToSet(kept) <=> i > n + 1 - m
  <2>1. Len(as) = n + 1
    BY <1>11
  <2>2. n \in Nat /\ m \in Nat
    BY <1>5, <1>8
  <2>3. ASSUME NEW i \in 1..(n + 1) PROVE as[i] \in ToSet(kept) <=> i > n + 1 - m
    <3>1. i \in 1..Len(as)
      BY <2>1, <2>2
    <3>2. as[i] \in ToSet(kept) <=> i > Len(as) - m
      BY <1>12, <3>1
    <3>3. Len(as) - m = n + 1 - m
      BY <2>1, <2>2
    <3> QED BY <3>2, <3>3
  <2> QED BY <2>3
<1>14. s \in ToSet(kept)
  <2>1. n + 1 \in 1..(n + 1) /\ n + 1 > n + 1 - m
    BY <1>5, <1>8
  <2> QED BY <1>11, <1>13, <2>1
<1>15. ASSUME NEW i \in 1..n
       PROVE  a[i] \in Data \ (e \cup ToSet(kept)) <=> a[i] \in Data \ (d \cup ToSet(c))
  <2>1. a[i] \in ToSet(kept) => i > n + 1 - m
    <3>1. as[i] = a[i]
      BY <1>11
    <3>2. n \in Nat
      BY <1>8
    <3>3. i \in 1..(n + 1)
      BY <3>2
    <3> QED BY <1>13, <3>1, <3>3
  <2>2. i > n + 1 - m => i > n - k
    BY <1>5, <1>8
  <2>3. a[i] \in ToSet(kept) => a[i] \in ToSet(c)
    BY <1>8, <2>1, <2>2
  <2> QED BY <1>6, <2>3
<1> DEFINE w == Data \ (e \cup ToSet(kept))
<1>16. Selected(as, w) = Selected(a, w)
  <2>1. s \notin w
    BY <1>14
  <2> HIDE DEF w
  <2> QED BY <1>3, <1>4, <2>1, SelectedAppend DEF as
<1>17. Selected(a, w) = Selected(a, Data \ (d \cup ToSet(c)))
  <2> DEFINE v == Data \ (d \cup ToSet(c))
  <2>1. \A i \in 1..Len(a) : a[i] \in w <=> a[i] \in v
    BY <1>15 DEF n
  <2> HIDE DEF w, v
  <2>2. Selected(a, w) = Selected(a, v)
    BY <1>4, <2>1, SelectedAgree
  <2> QED BY <2>2 DEF v
<1>18. Selected(arrived'[r], Data \ (overwritten' \cup ToSet(cache'[r]))) = Selected(as, w)
  BY <1>6 DEF e
<1> QED BY <1>2, <1>10, <1>16, <1>17, <1>18

\* Of the arrivals a, of which d were dropped and c waited in the cache, t is taken and l
\* is left.
IsBatch(a, d, c, t, l) ==
    /\ Len(t) + Len(l) = Len(c) /\ Len(c) <= Len(a)
    /\ \A i \in 1..Len(c) : c[i] = a[Len(a) - Len(c) + i]
    /\ \A i \in 1..Len(t) : t[i] = c[i]
    /\ \A i \in 1..Len(l) : l[i] = c[Len(t) + i]
    /\ \A i \in 1..Len(a) : a[i] \in ToSet(c) <=> i > Len(a) - Len(c)
    /\ \A i \in 1..Len(a) : a[i] \in ToSet(l) <=> i > Len(a) - Len(l)
    /\ \A i \in 1..Len(a) : a[i] \in d => i <= Len(a) - Len(c)

\* A batch adds to what is selected of all arrivals.
LEMMA SelectedTaken ==
    ASSUME NEW a \in Seq(Sample), NEW c \in Seq(Sample), NEW t \in Seq(Sample),
           NEW l \in Seq(Sample), NEW d, IsBatch(a, d, c, t, l)
    PROVE  Selected(a, Data \ (d \cup ToSet(l))) =
               Joined(Selected(a, Data \ (d \cup ToSet(c))), Selected(t, Data))
<1> DEFINE n == Len(a)
           k == Len(c)
           first == SubSeq(a, 1, n - k)
           tl == Joined(t, l)
           w == Data \ (d \cup ToSet(c))
           v == Data \ (d \cup ToSet(l))
<1>1. n \in Nat /\ k \in Nat /\ Len(t) \in Nat /\ Len(l) \in Nat /\ Len(t) + Len(l) = k /\ k <= n
  BY DEF IsBatch
<1>2. /\ \A i \in 1..k : c[i] = a[n - k + i]
      /\ \A i \in 1..Len(t) : t[i] = c[i]
      /\ \A i \in 1..Len(l) : l[i] = c[Len(t) + i]
      /\ \A i \in 1..n : a[i] \in ToSet(c) <=> i > n - k
      /\ \A i \in 1..n : a[i] \in ToSet(l) <=> i > n - Len(l)
      /\ \A i \in 1..n : a[i] \in d => i <= n - k
  BY DEF IsBatch
<1>3. tl \in Seq(Sample) /\ Len(tl) = k /\ \A i \in 1..k : tl[i] = c[i]
  <2>1. tl \in Seq(Sample) /\ Len(tl) = k
    BY <1>1 DEF Joined
  <2>2. ASSUME NEW i \in 1..k
        PROVE  tl[i] = c[i]
    <3>1. CASE i <= Len(t)
      BY <1>1, <1>2, <3>1 DEF Joined
    <3>2. CASE ~(i <= Len(t))
      <4>1. i - Len(t) \in 1..Len(l) /\ Len(t) + (i - Len(t)) = i
        BY <1>1, <3>2
      <4>2. tl[i] = l[i - Len(t)]
        BY <1>1, <3>2, <4>1 DEF Joined
      <4> QED BY <1>2, <4>1, <4>2
    <3> QED BY <3>1, <3>2
  <2> QED BY <2>1, <2>2
<1>4. first \in Seq(Sample) /\ Len(first) = n - k /\ \A i \in 1..(n - k) : first[i] = a[i]
  BY <1>1
<1> HIDE DEF tl, first, n, k
<1>5. a = Joined(first, tl)
  <2> DEFINE b == Joined(first, tl)
  <2>1. /\ b \in Seq(Sample) /\ Len(b) = n
        /\ \A i \in 1..(n - k) : b[i] = first[i]
        /\ \A i \in 1..k : b[n - k + i] = tl[i]
    <3>1. /\ b \in Seq(Sample) /\ Len(b) = Len(first) + Len(tl)
          /\ \A i \in 1..Len(first) : b[i] = first[i]
          /\ \A i \in 1..Len(tl) : b[Len(first) + i] = tl[i]
      <4>1. first \in Seq(Sample) /\ tl \in Seq(Sample)
        BY <1>3, <1>4
      <4> QED BY <4>1 DEF Joined
    <3>2. Len(first) + Len(tl) = n
      BY <1>1, <1>3, <1>4
    <3> HIDE DEF b
    <3> QED BY <1>3, <1>4, <3>1, <3>2
  <2> HIDE DEF b
  <2>2. ASSUME NEW i \in 1..n
        PROVE  b[i] = a[i]
    <3>1. CASE i <= n - k
      <4>1. i \in 1..(n - k)
        BY <1>1, <3>1
      <4> QED BY <1>4, <2>1, <4>1
    <3>2. CASE ~(i <= n - k)
      <4> DEFINE j == i - (n - k)
      <4>1. j \in 1..k /\ i = n - k + j
        BY <1>1, <3>2
      <4> HIDE DEF j
      <4>2. b[n - k + j] = tl[j] /\ tl[j] = c[j] /\ c[j] = a[n - k + j]
        BY <1>2, <1>3, <2>1, <4>1
      <4> QED BY <4>1, <4>2
    <3> QED BY <3>1, <3>2
  <2>3. a = b
    BY <2>1, <2>2, SameSequence DEF n
  <2> QED BY <2>3 DEF b
<1>6. \A i \in 1..(n - k) : first[i] \in v <=> first[i] \in w
  <2> SUFFICES ASSUME NEW i \in 1..(n - k)
               PROVE  first[i] \in v <=> first[i] \in w
    OBVIOUS
  <2>1. i \in 1..n /\ ~(i > n - k) /\ ~(i > n - Len(l))
    BY <1>1
  <2> QED BY <1>2, <1>4, <2>1
<1>7. \A i \in 1..k : tl[i] \notin w
  <2> SUFFICES ASSUME NEW i \in 1..k
               PROVE  tl[i] \notin w
    OBVIOUS
  <2>1. n - k + i \in 1..n /\ n - k + i > n - k
    BY <1>1
  <2> QED BY <1>2, <1>3, <2>1
<1>8. \A i \in 1..Len(l) : l[i] \notin v
  <2> SUFFICES ASSUME NEW i \in 1..Len(l)
               PROVE  l[i] \notin v
    OBVIOUS
  <2>1. l[i] \in ToSet(l)
    BY DEF ToSet
  <2> QED BY <2>1
<1>9. \A i \in 1..Len(t) : t[i] \in v <=> t[i] \in Data
  <2> SUFFICES ASSUME NEW i \in 1..Len(t)
               PROVE  t[i] \in v <=> t[i] \in Data
    OBVIOUS
  <2> DEFINE j == n - k + i
  <2>1. j \in 1..n /\ ~(j > n - Len(l)) /\ ~(j <= n - k) /\ i \in 1..k
    BY <1>1
  <2>2. t[i] = c[i] /\ c[i] = a[j]
    BY <1>2, <2>1
  <2> HIDE DEF j
  <2> QED BY <1>2, <2>1, <2>2
<1> HIDE DEF v, w
<1>10. Selected(a, w) = Selected(first, w)
  <2>1. Selected(a, w) = Joined(Selected(first, w), Selected(tl, w))
    BY <1>3, <1>4, <1>5, SelectedJoined
  <2>2. Selected(tl, w) = <<>>
    BY <1>3, <1>7, SelectedNone
  <2>3. Selected(first, w) \in Seq(Sample)
    BY <1>4, SelectedElements
  <2> QED BY <2>1, <2>2, <2>3 DEF Joined
<1>11. Selected(a, v) = Joined(Selected(first, v), Selected(t, v))
  <2>1. Selected(a, v) = Joined(Selected(first, v), Selected(tl, v))
    BY <1>3, <1>4, <1>5, SelectedJoined
  <2>2. Selected(tl, v) = Joined(Selected(t, v), Selected(l, v))
    BY SelectedJoined DEF tl
  <2>3. Selected(l, v) = <<>>
    BY <1>8, SelectedNone
  <2>4. Selected(t, v) \in Seq(Sample)
    BY SelectedElements
  <2>5. Selected(tl, v) = Selected(t, v)
    BY <2>2, <2>3, <2>4 DEF Joined
  <2> QED BY <2>1, <2>5
<1>12. Selected(first, v) = Selected(first, w)
  BY <1>4, <1>6, SelectedAgree
<1>13. Selected(t, v) = Selected(t, Data)
  BY <1>9, SelectedAgree
<1>14. Selected(a, v) = Joined(Selected(a, w), Selected(t, Data))
  BY <1>10, <1>11, <1>12, <1>13
<1> QED BY <1>14 DEF v, w

\* What a batch leaves is again what is newest of the arrivals.
LEMMA LeftIsNewest ==
    ASSUME ReadTypeOK, CacheIsTheNewest, NEW r \in Readers
    PROVE  /\ Left(r) \in Seq(Sample) /\ Len(Left(r)) <= Len(cache[r])
           /\ Left(r) = LastOf(arrived[r], Len(Left(r)))
           /\ \A x \in overwritten :
                 x.reader = r => x.seq <= Len(arrived[r]) - Len(Left(r))
<1> DEFINE a == arrived[r]
           c == cache[r]
           t == Taken(r)
           l == Left(r)
           n == Len(a)
           k == Len(c)
           j == Len(t)
           m == Len(l)
<1>1. a \in Seq(Sample) /\ c \in Seq(Sample)
  BY DEF ReadTypeOK
<1>2. /\ l \in Seq(Sample) /\ j \in Nat /\ m \in Nat /\ j + m = k
      /\ \A i \in 1..m : l[i] = c[j + i]
  BY TakenFacts
<1>3. /\ k \in Nat /\ n \in Nat /\ k <= n /\ \A i \in 1..k : c[i] = a[n - k + i]
  BY CachePlaces
<1>4. \A x \in overwritten : x.reader = r => x.seq \in Nat /\ x.seq <= n - k
  BY DEF CacheIsTheNewest, ReadTypeOK, Sample
<1>8. arrived[r] = a /\ cache[r] = c /\ Left(r) = l /\ Len(c) = k /\ Len(a) = n /\ Len(l) = m
  OBVIOUS
<1> HIDE DEF a, c, t, l, n, k, j, m
<1>5. m <= k /\ k <= n /\ m \in Nat /\ k \in Nat /\ n \in Nat /\ j \in Nat /\ j + m = k
  BY <1>2, <1>3
<1>6. \A x \in overwritten : x.reader = r => x.seq <= n - m
  <2>1. \A x \in Nat : x <= n - k => x <= n - m
    BY <1>5
  <2> QED BY <1>4, <2>1
<1>7. l = LastOf(a, m)
  <2>1. ASSUME NEW i \in 1..m
        PROVE  l[i] = a[n - m + i]
    <3>1. j + i \in 1..k /\ n - k + (j + i) = n - m + i
      BY <1>5
    <3>2. l[i] = c[j + i] /\ c[j + i] = a[n - k + (j + i)]
      BY <1>2, <1>3, <3>1
    <3> QED BY <3>1, <3>2
  <2>2. Len(l) <= Len(a) /\ \A i \in 1..Len(l) : l[i] = a[Len(a) - Len(l) + i]
    BY <1>5, <1>8, <2>1
  <2> QED BY <1>1, <1>2, <1>8, <2>2, LastOfIs
<1> QED BY <1>2, <1>5, <1>6, <1>7, <1>8

\* A batch of echo.
LEMMA EchoBatch ==
    ASSUME ReadTypeOK, CacheIsTheNewest, EchoPrintsAllInOrder, EchoRead
    PROVE  CacheIsTheNewest' /\ EchoPrintsAllInOrder'
<1> DEFINE r == EchoReader
<1>1. /\ r \in Readers /\ command = "echo" /\ command' = "echo"
      /\ cache' = [cache EXCEPT ![r] = Left(r)]
      /\ printed' = printed \o Selected(Taken(r), Data)
      /\ arrived' = arrived /\ overwritten' = overwritten
  BY ReadAssumption DEF EchoRead, TakeAndPrint, options
<1> HIDE DEF r
<1>2. cache'[r] = Left(r) /\ \A q \in Readers \ {r} : cache'[q] = cache[q]
  BY <1>1 DEF ReadTypeOK
<1>3. /\ Left(r) \in Seq(Sample) /\ Left(r) = LastOf(arrived[r], Len(Left(r)))
      /\ \A x \in overwritten :
            x.reader = r => x.seq <= Len(arrived[r]) - Len(Left(r))
  BY <1>1, LeftIsNewest
<1>4. CacheIsTheNewest'
  <2>1. ASSUME NEW q \in Readers
        PROVE  /\ \A i \in DOMAIN arrived'[q] : arrived'[q][i].reader = q /\ arrived'[q][i].seq = i
               /\ cache'[q] = LastOf(arrived'[q], Len(cache'[q]))
               /\ \A x \in overwritten' :
                     x.reader = q => x.seq <= Len(arrived'[q]) - Len(cache'[q])
    <3>1. CASE q = r
      BY <1>1, <1>2, <1>3, <3>1 DEF CacheIsTheNewest
    <3>2. CASE q # r
      BY <1>1, <1>2, <3>2 DEF CacheIsTheNewest
    <3> QED BY <3>1, <3>2
  <2> QED BY <2>1 DEF CacheIsTheNewest
<1>5. EchoPrintsAllInOrder'
  <2> DEFINE a == arrived[r]
             c == cache[r]
             t == Taken(r)
             l == Left(r)
             d == overwritten
  <2>1. /\ a \in Seq(Sample) /\ c \in Seq(Sample) /\ t \in Seq(Sample) /\ l \in Seq(Sample)
        /\ Len(t) + Len(l) = Len(c)
        /\ \A i \in 1..Len(t) : t[i] = c[i]
        /\ \A i \in 1..Len(l) : l[i] = c[Len(t) + i]
    BY <1>1, TakenFacts DEF ReadTypeOK
  <2>2. /\ Len(c) <= Len(a)
        /\ \A i \in 1..Len(c) : c[i] = a[Len(a) - Len(c) + i]
        /\ \A i \in 1..Len(a) : a[i] \in ToSet(c) <=> i > Len(a) - Len(c)
        /\ \A i \in 1..Len(a) : a[i] \in d => i <= Len(a) - Len(c)
        /\ \A i \in 1..Len(a) : a[i].seq = i
    BY <1>1, CachePlaces
  <2>3. l = LastOf(a, Len(l))
    BY <1>3
  <2>4. printed = Selected(a, Data \ (d \cup ToSet(c)))
    BY <1>1 DEF EchoPrintsAllInOrder, r
  <2>5. printed' = Joined(printed, Selected(t, Data))
    BY <1>1 DEF Joined
  <2>6. cache'[r] = l /\ arrived'[r] = a /\ overwritten' = d
    BY <1>1, <1>2
  <2> HIDE DEF a, c, t, l, d
  <2>7. \A i \in 1..Len(a) : a[i] \in ToSet(l) <=> i > Len(a) - Len(l)
    <3>1. \A i \in DOMAIN a : a[i].seq = i
      BY <2>1, <2>2
    <3> QED BY <2>1, <2>3, <3>1, Places
  <2>8. Selected(a, Data \ (d \cup ToSet(l))) =
           Joined(Selected(a, Data \ (d \cup ToSet(c))), Selected(t, Data))
    <3>1. IsBatch(a, d, c, t, l)
      BY <2>1, <2>2, <2>7 DEF IsBatch
    <3> QED BY <2>1, <3>1, SelectedTaken
  <2>9. printed' = Selected(arrived'[r], Data \ (overwritten' \cup ToSet(cache'[r])))
    BY <2>4, <2>5, <2>6, <2>8
  <2> QED BY <2>9 DEF EchoPrintsAllInOrder, Data, r
<1> QED BY <1>4, <1>5

\* The count was not reached before the batch.
LEMMA EchoCounts ==
    ASSUME ReadTypeOK, EchoRead
    PROVE  printed' \in Seq(Sample) /\ OvershootIsLessThanABatch'
<1> DEFINE r == EchoReader
           new == Selected(Taken(r), Data)
<1>1. /\ r \in Readers /\ printed' = printed \o new /\ maxCount' = maxCount
      /\ ~(maxCount > 0 /\ Len(printed) >= maxCount)
  BY ReadAssumption DEF EchoRead, TakeAndPrint, EchoReachedCount, options
<1>2. Taken(r) \in Seq(Sample) /\ Len(Taken(r)) <= MaxSamples
  BY <1>1, TakenFacts
<1>3. new \in Seq(Sample) /\ Len(new) <= Len(Taken(r))
  BY <1>2, SelectedElements
<1> HIDE DEF new
<1>4. printed \in Seq(Sample) /\ maxCount \in Nat /\ MaxSamples \in Nat
  BY ReadAssumption DEF ReadTypeOK
<1>5. printed' \in Seq(Sample) /\ Len(printed') = Len(printed) + Len(new)
  BY <1>1, <1>3, <1>4
<1>6. /\ Len(printed) \in Nat /\ Len(new) \in Nat /\ Len(Taken(r)) \in Nat
      /\ Len(new) <= MaxSamples
  BY <1>2, <1>3, <1>4
<1>7. ASSUME maxCount > 0
      PROVE  Len(printed') < maxCount + MaxSamples
  BY <1>1, <1>4, <1>5, <1>6, <1>7
<1> QED BY <1>1, <1>5, <1>7 DEF OvershootIsLessThanABatch

-----------------------------------------------------------------------------
(* The windows of hz.                                                      *)

RecordPlaces(got) == {i \in DOMAIN got : \A j \in 1..(i - 1) : got[j] < got[i]}
Ids(got) == [i \in DOMAIN got |-> i]

\* The records and where they are.
LEMMA RecordsFacts ==
    ASSUME NEW got \in Seq(Int)
    PROVE  LET places == Selected(Ids(got), RecordPlaces(got))
           IN  /\ places \in Seq(1..Len(got)) /\ Len(places) \in Nat
               /\ Records(got) \in Seq(Int) /\ Len(Records(got)) = Len(places)
               /\ \A k \in 1..Len(places) :
                     places[k] \in 1..Len(got) /\ Records(got)[k] = got[places[k]]
<1> DEFINE places == Selected(Ids(got), RecordPlaces(got))
<1>1. Ids(got) \in Seq(1..Len(got))
  BY DEF Ids
<1>2. places \in Seq(1..Len(got))
  BY <1>1, SelectedElements
<1>3. Records(got) = [k \in DOMAIN places |-> got[places[k]]]
  BY DEF Records, RecordPlaces, Ids
<1> HIDE DEF places
<1>4. Len(places) \in Nat /\ DOMAIN places = 1..Len(places)
      /\ \A k \in 1..Len(places) : places[k] \in 1..Len(got)
  BY <1>2
<1>5. \A k \in 1..Len(places) : got[places[k]] \in Int
  BY <1>4
<1>6. Records(got) \in Seq(Int) /\ Len(Records(got)) = Len(places)
      /\ \A k \in 1..Len(places) : Records(got)[k] = got[places[k]]
  BY <1>3, <1>4, <1>5
<1> QED BY <1>2, <1>4, <1>6 DEF places

\* A timestamp is a record if it is later than all before it.
LEMMA RecordsAppend ==
    ASSUME NEW got \in Seq(Int), NEW x \in Int
    PROVE  /\ (\A j \in 1..Len(got) : got[j] < x) =>
                  Records(Append(got, x)) = Append(Records(got), x)
           /\ (\E j \in 1..Len(got) : ~(got[j] < x)) => Records(Append(got, x)) = Records(got)
<1> DEFINE as == Append(got, x)
           n == Len(got)
           p == Selected(Ids(got), RecordPlaces(got))
           q == Selected(Ids(as), RecordPlaces(as))
<1>1. /\ as \in Seq(Int) /\ Len(as) = n + 1 /\ n \in Nat /\ DOMAIN as = 1..(n + 1)
      /\ DOMAIN got = 1..n /\ as[n + 1] = x /\ \A i \in 1..n : as[i] = got[i]
  OBVIOUS
<1> HIDE DEF as, n
<1>2. Ids(as) = Append(Ids(got), n + 1) /\ Ids(got) \in Seq(1..(n + 1))
      /\ Len(Ids(got)) = n /\ \A i \in 1..n : Ids(got)[i] = i
  <2>1. Ids(got) \in Seq(1..(n + 1)) /\ Len(Ids(got)) = n /\ \A i \in 1..n : Ids(got)[i] = i
    BY <1>1 DEF Ids
  <2>2. Ids(as) \in Seq(1..(n + 1)) /\ Len(Ids(as)) = n + 1 /\ \A i \in 1..(n + 1) : Ids(as)[i] = i
    BY <1>1 DEF Ids
  <2> DEFINE b == Append(Ids(got), n + 1)
  <2>3. b \in Seq(1..(n + 1)) /\ Len(b) = n + 1 /\ \A i \in 1..(n + 1) : b[i] = i
    <3>1. n + 1 \in 1..(n + 1)
      BY <1>1
    <3>2. b \in Seq(1..(n + 1)) /\ Len(b) = n + 1 /\ b[n + 1] = n + 1
      BY <1>1, <2>1, <3>1
    <3>3. ASSUME NEW i \in 1..n PROVE b[i] = i
      BY <1>1, <2>1
    <3> QED BY <1>1, <3>2, <3>3
  <2> HIDE DEF b
  <2>4. Ids(as) = b
    BY <2>2, <2>3, SameSequence
  <2> QED BY <2>1, <2>4 DEF b
<1>3. ASSUME NEW i \in 1..n
      PROVE  i \in RecordPlaces(as) <=> i \in RecordPlaces(got)
  <2>1. i \in 1..(n + 1) /\ \A j \in 1..(i - 1) : j \in 1..n
    BY <1>1
  <2> QED BY <1>1, <2>1 DEF RecordPlaces
<1>4. n + 1 \in RecordPlaces(as) <=> \A j \in 1..n : got[j] < x
  <2>1. n + 1 \in 1..(n + 1) /\ (n + 1) - 1 = n
    BY <1>1
  <2> QED BY <1>1, <2>1 DEF RecordPlaces
<1>5. Selected(Ids(got), RecordPlaces(as)) = p
  <2>1. \A i \in 1..Len(Ids(got)) :
           Ids(got)[i] \in RecordPlaces(as) <=> Ids(got)[i] \in RecordPlaces(got)
    BY <1>2, <1>3
  <2> QED BY <1>2, <2>1, SelectedAgree
<1>6. q = IF n + 1 \in RecordPlaces(as) THEN Append(p, n + 1) ELSE p
  <2> DEFINE y == n + 1
             ids == Ids(got)
             w == RecordPlaces(as)
             S == 1..(n + 1)
  <2>1. y \in S /\ ids \in Seq(S)
    BY <1>1, <1>2
  <2>2. Ids(as) = Append(ids, y) /\ Selected(ids, w) = p
    BY <1>2, <1>5
  <2> HIDE DEF y, ids, w, S
  <2>3. Selected(Append(ids, y), w) = IF y \in w THEN Append(Selected(ids, w), y) ELSE Selected(ids, w)
    BY <2>1, SelectedAppend
  <2>4. q = IF y \in w THEN Append(p, y) ELSE p
    BY <2>2, <2>3 DEF w
  <2> QED BY <2>4 DEF y, w
<1>7. /\ Records(got) \in Seq(Int) /\ Len(Records(got)) = Len(p) /\ Len(p) \in Nat
      /\ p \in Seq(1..n)
      /\ \A k \in 1..Len(p) : p[k] \in 1..n /\ Records(got)[k] = got[p[k]]
  BY RecordsFacts DEF n
<1>8. /\ Records(as) \in Seq(Int) /\ Len(Records(as)) = Len(q)
      /\ \A k \in 1..Len(q) : q[k] \in 1..(n + 1) /\ Records(as)[k] = as[q[k]]
  BY <1>1, RecordsFacts
<1> HIDE DEF p, q
<1>9. ASSUME ~(n + 1 \in RecordPlaces(as))
      PROVE  Records(as) = Records(got)
  <2>1. q = p
    BY <1>6, <1>9
  <2>2. ASSUME NEW k \in 1..Len(p)
        PROVE  Records(as)[k] = Records(got)[k]
    <3>1. Records(as)[k] = as[p[k]]
      BY <1>8, <2>1
    <3>2. p[k] \in 1..n /\ Records(got)[k] = got[p[k]]
      BY <1>7
    <3> QED BY <1>1, <3>1, <3>2
  <2> QED BY <1>7, <1>8, <2>1, <2>2, SameSequence
<1>10. ASSUME n + 1 \in RecordPlaces(as)
       PROVE  Records(as) = Append(Records(got), x)
  <2> DEFINE b == Append(Records(got), x)
             m == Len(p)
  <2>1. q = Append(p, n + 1)
    BY <1>6, <1>10
  <2>2. Len(q) = m + 1 /\ q[m + 1] = n + 1 /\ \A k \in 1..m : q[k] = p[k]
    BY <1>7, <2>1
  <2>3. b \in Seq(Int) /\ Len(b) = m + 1 /\ b[m + 1] = x /\ \A k \in 1..m : b[k] = Records(got)[k]
    BY <1>7
  <2>4. m \in Nat
    BY <1>7
  <2>5. \A k \in 1..m : p[k] \in 1..n /\ Records(got)[k] = got[p[k]]
    BY <1>7
  <2> HIDE DEF b, m
  <2>6. ASSUME NEW k \in 1..(m + 1)
        PROVE  Records(as)[k] = b[k]
    <3>1. Records(as)[k] = as[q[k]]
      BY <1>8, <2>2
    <3>2. CASE k = m + 1
      BY <1>1, <2>2, <2>3, <3>1, <3>2
    <3>3. CASE k # m + 1
      <4>1. k \in 1..m
        BY <2>4, <3>3
      <4> QED BY <1>1, <2>2, <2>3, <2>5, <3>1, <4>1
    <3> QED BY <3>2, <3>3
  <2>7. Records(as) = b
    BY <1>8, <2>2, <2>3, <2>6, SameSequence
  <2> QED BY <2>7 DEF b
<1> QED BY <1>4, <1>9, <1>10 DEF as, n

\* What is last of a sequence, after another element.
LEMMA LastOfAppend ==
    ASSUME NEW seq \in Seq(Int), NEW x \in Int, NEW n \in Nat, n >= 1
    PROVE  LastOf(Append(LastOf(seq, n), x), n) = LastOf(Append(seq, x), n)
<1> DEFINE l == LastOf(seq, n)
           lx == Append(l, x)
           sx == Append(seq, x)
           u == LastOf(lx, n)
           v == LastOf(sx, n)
           s == Len(seq)
           k == Len(l)
<1>1. /\ l \in Seq(Int) /\ k = Smaller(n, s) /\ s \in Nat
      /\ \A i \in 1..k : l[i] = seq[s - k + i]
  BY LastOfFacts
<1> HIDE DEF l
<1>2. lx \in Seq(Int) /\ Len(lx) = k + 1 /\ lx[k + 1] = x /\ \A i \in 1..k : lx[i] = l[i]
  BY <1>1
<1>3. sx \in Seq(Int) /\ Len(sx) = s + 1 /\ sx[s + 1] = x /\ \A i \in 1..s : sx[i] = seq[i]
  OBVIOUS
<1> HIDE DEF lx, sx, s, k
<1>4. k \in Nat /\ k <= s /\ (k = n \/ k = s) /\ k <= n /\ s \in Nat
  BY <1>1 DEF Smaller
<1>5. /\ u \in Seq(Int) /\ Len(u) = Smaller(n, Len(lx))
      /\ \A i \in 1..Len(u) : u[i] = lx[Len(lx) - Len(u) + i]
  <2>1. lx \in Seq(Int)
    BY <1>2
  <2> QED BY <2>1, LastOfFacts
<1>6. /\ v \in Seq(Int) /\ Len(v) = Smaller(n, Len(sx))
      /\ \A i \in 1..Len(v) : v[i] = sx[Len(sx) - Len(v) + i]
  <2>1. sx \in Seq(Int)
    BY <1>3
  <2> QED BY <2>1, LastOfFacts
<1> HIDE DEF u, v
<1> DEFINE m == Smaller(n, k + 1)
<1>7. m = Smaller(n, s + 1) /\ m \in Nat /\ m <= k + 1 /\ m >= 1
  BY <1>4 DEF Smaller
<1>8. Len(u) = m /\ Len(v) = m
  BY <1>2, <1>3, <1>5, <1>6, <1>7
<1> HIDE DEF m
<1>9. ASSUME NEW i \in 1..m
      PROVE  u[i] = v[i]
  <2> DEFINE a == k + 1 - m + i
             b == s + 1 - m + i
  <2>1. Len(lx) - Len(u) + i = a /\ Len(sx) - Len(v) + i = b
    <3>1. Len(lx) = k + 1 /\ Len(sx) = s + 1
      BY <1>2, <1>3
    <3>2. Len(u) = m /\ Len(v) = m
      BY <1>8
    <3>3. m \in Nat
      BY <1>7
    <3>4. k \in Nat /\ s \in Nat
      BY <1>4
    <3> QED BY <3>1, <3>2, <3>3, <3>4
  <2>2. u[i] = lx[a] /\ v[i] = sx[b]
    <3>1. u[i] = lx[Len(lx) - Len(u) + i]
      BY <1>5, <1>8
    <3>2. v[i] = sx[Len(sx) - Len(v) + i]
      BY <1>6, <1>8
    <3> QED BY <2>1, <3>1, <3>2, Zenon
  <2>3. CASE i = m
    <3>1. a = k + 1 /\ b = s + 1
      BY <1>4, <1>7, <2>3
    <3> HIDE DEF a, b
    <3> QED BY <1>2, <1>3, <2>2, <3>1
  <2>4. CASE i # m
    <3>1. a \in 1..k
      BY <1>4, <1>7, <2>4
    <3>4. b = s - k + a
      BY <1>4, <1>7
    <3>5. b \in 1..s
      BY <1>4, <3>1, <3>4
    <3> HIDE DEF a, b
    <3>2. lx[a] = l[a] /\ sx[b] = seq[b] /\ l[a] = seq[s - k + a]
      BY <1>1, <1>2, <1>3, <3>1, <3>5
    <3> QED BY <2>2, <3>2, <3>4
  <2> QED BY <2>3, <2>4
<1>10. u = v
  BY <1>5, <1>6, <1>8, <1>9, SameSequence
<1> QED BY <1>10 DEF u, v, lx, sx, l

Increasing(window) == \A i \in 1..(Len(window) - 1) : window[i] < window[i + 1]

\* What a window of so many timestamps is of the timestamps that were got.
Tracks(window, got, size) ==
    /\ window = LastOf(Records(got), size)
    /\ Increasing(window)
    /\ \A i \in 1..Len(got) : Len(window) >= 1 /\ got[i] <= window[Len(window)]

\* The last timestamp of a window was got.
LEMMA LastWasGot ==
    ASSUME NEW window \in Seq(Int), NEW got \in Seq(Int), NEW size \in Nat,
           Tracks(window, got, size), Len(window) >= 1
    PROVE  \E j \in 1..Len(got) : window[Len(window)] = got[j]
<1> DEFINE places == Selected(Ids(got), RecordPlaces(got))
           rec == Records(got)
           k == Len(window)
<1>1. /\ rec \in Seq(Int) /\ Len(rec) = Len(places)
      /\ \A i \in 1..Len(places) : places[i] \in 1..Len(got) /\ rec[i] = got[places[i]]
  BY RecordsFacts
<1>2. window = LastOf(rec, size)
  BY DEF Tracks
<1> HIDE DEF places, rec
<1>3. k <= Len(rec) /\ \A i \in 1..k : window[i] = rec[Len(rec) - k + i]
  BY <1>1, <1>2, LastOfFacts
<1>4. k \in Nat /\ k >= 1
  OBVIOUS
<1> HIDE DEF k
<1>5. window[k] = rec[Len(rec)]
  <2>1. Len(rec) \in Nat
    BY <1>1
  <2>2. k \in 1..k /\ Len(rec) - k + k = Len(rec)
    BY <1>4, <2>1
  <2> QED BY <1>3, <2>2
<1>6. Len(rec) \in 1..Len(places)
  <2>1. Len(rec) \in Nat
    BY <1>1
  <2>2. Len(rec) \in 1..Len(rec)
    BY <1>3, <1>4, <2>1
  <2> QED BY <1>1, <2>2
<1> QED BY <1>1, <1>5, <1>6 DEF k

\* add_timestamp() keeps what a window is.
LEMMA AddStep ==
    ASSUME NEW window \in Seq(Int), NEW got \in Seq(Int), NEW stamp \in Int,
           windowSize \in Nat \ {0, 1}, Tracks(window, got, windowSize)
    PROVE  /\ AddTimestamp(window, stamp) \in Seq(Int)
           /\ Tracks(AddTimestamp(window, stamp), Append(got, stamp), windowSize)
<1> DEFINE k == Len(window)
           n == Len(got)
           as == Append(got, stamp)
<1>1. k \in Nat /\ n \in Nat /\ (window # <<>> <=> k >= 1)
  OBVIOUS
<1>2. /\ as \in Seq(Int) /\ Len(as) = n + 1 /\ as[n + 1] = stamp
      /\ \A i \in 1..n : as[i] = got[i] /\ got[i] \in Int
  OBVIOUS
<1>3. \A i \in 1..n : k >= 1 /\ got[i] <= window[k]
  BY DEF Tracks
<1>4. \A i \in 1..k : window[i] \in Int
  OBVIOUS
<1>5. Last(window) = window[k]
  BY DEF Last
<1>6. CASE window # <<>> /\ stamp <= Last(window)
  <2>1. AddTimestamp(window, stamp) = window
    BY <1>6 DEF AddTimestamp
  <2>2. k >= 1 /\ stamp <= window[k]
    BY <1>1, <1>5, <1>6
  <2>3. \E j \in 1..n : ~(got[j] < stamp)
    <3>1. PICK j \in 1..n : window[k] = got[j]
      BY <2>2, LastWasGot
    <3> QED BY <1>2, <2>2, <3>1
  <2>4. Records(as) = Records(got)
    BY <2>3, RecordsAppend
  <2>5. ASSUME NEW i \in 1..(n + 1)
        PROVE  as[i] <= window[k]
    <3>1. CASE i = n + 1
      BY <1>2, <2>2, <3>1
    <3>2. CASE i # n + 1
      <4>1. i \in 1..n
        BY <1>1, <3>2
      <4> QED BY <1>2, <1>3, <4>1
    <3> QED BY <3>1, <3>2
  <2> HIDE DEF as
  <2>6. Tracks(window, as, windowSize)
    BY <1>2, <2>2, <2>4, <2>5 DEF Tracks
  <2> QED BY <2>1, <2>6 DEF as
<1>7. CASE ~(window # <<>> /\ stamp <= Last(window))
  <2> DEFINE wx == Append(window, stamp)
             w == LastOf(wx, windowSize)
             m == Len(w)
  <2>1. AddTimestamp(window, stamp) = w
    BY <1>7 DEF AddTimestamp
  <2>2. k >= 1 => window[k] < stamp
    BY <1>1, <1>4, <1>5, <1>7
  <2>3. \A i \in 1..n : got[i] < stamp
    <3> SUFFICES ASSUME NEW i \in 1..n PROVE got[i] < stamp
      OBVIOUS
    <3>1. k >= 1 /\ got[i] <= window[k] /\ window[k] < stamp
      BY <1>3, <2>2
    <3>2. window[k] \in Int /\ got[i] \in Int
      BY <1>1, <1>2, <1>4, <3>1
    <3> QED BY <3>1, <3>2
  <2>4. Records(as) = Append(Records(got), stamp)
    BY <2>3, RecordsAppend
  <2>5. w = LastOf(Records(as), windowSize)
    <3> DEFINE rec == Records(got)
    <3>1. rec \in Seq(Int) /\ window = LastOf(rec, windowSize)
      BY RecordsFacts DEF Tracks
    <3> HIDE DEF rec
    <3>2. LastOf(Append(LastOf(rec, windowSize), stamp), windowSize) =
             LastOf(Append(rec, stamp), windowSize)
      BY <3>1, LastOfAppend
    <3> QED BY <2>4, <3>1, <3>2 DEF rec
  <2>6. /\ wx \in Seq(Int) /\ Len(wx) = k + 1 /\ wx[k + 1] = stamp
        /\ \A i \in 1..k : wx[i] = window[i]
    OBVIOUS
  <2> HIDE DEF wx, k
  <2>7. /\ w \in Seq(Int) /\ m \in Nat /\ 1 <= m /\ m <= k + 1
        /\ \A i \in 1..m : w[i] = wx[k + 1 - m + i]
    <3>1. /\ w \in Seq(Int) /\ Len(w) = Smaller(windowSize, Len(wx)) /\ Len(w) <= Len(wx)
          /\ \A i \in 1..Len(w) : w[i] = wx[Len(wx) - Len(w) + i]
      <4>1. wx \in Seq(Int) /\ windowSize \in Nat
        BY <2>6
      <4> QED BY <4>1, LastOfFacts
    <3>2. m \in Nat /\ 1 <= m /\ m <= k + 1
      BY <1>1, <2>6, <3>1 DEF Smaller
    <3>4. Len(wx) = k + 1 /\ Len(w) = m
      BY <2>6
    <3> HIDE DEF w, m
    <3>3. ASSUME NEW i \in 1..m
          PROVE  w[i] = wx[k + 1 - m + i]
      <4>1. w[i] = wx[Len(wx) - Len(w) + i]
        BY <3>1, <3>4
      <4>2. Len(wx) - Len(w) + i = k + 1 - m + i
        BY <1>1, <3>2, <3>4
      <4> QED BY <4>1, <4>2
    <3> QED BY <3>1, <3>2, <3>3
  <2>8. Len(w) = m
    OBVIOUS
  <2> HIDE DEF w, m
  <2>9. w[m] = stamp
    <3>1. m \in 1..m /\ k + 1 - m + m = k + 1
      BY <1>1, <2>7
    <3> QED BY <2>6, <2>7, <3>1
  <2>10. ASSUME NEW i \in 1..k
         PROVE  wx[i] < wx[i + 1]
    <3>1. CASE i = k
      BY <1>1, <2>2, <2>6, <3>1
    <3>2. CASE i # k
      <4>1. i \in 1..(k - 1) /\ i + 1 \in 1..k
        BY <1>1, <3>2
      <4>2. window[i] < window[i + 1]
        BY <4>1 DEF Tracks, Increasing, k
      <4> QED BY <2>6, <4>1, <4>2
    <3> QED BY <3>1, <3>2
  <2>11. Increasing(w)
    <3> SUFFICES ASSUME NEW i \in 1..(m - 1)
                 PROVE  w[i] < w[i + 1]
      BY <2>8 DEF Increasing
    <3> DEFINE j == k + 1 - m + i
    <3>1. i \in 1..m /\ i + 1 \in 1..m /\ j \in 1..k /\ k + 1 - m + (i + 1) = j + 1
      BY <1>1, <2>7
    <3>2. w[i] = wx[j]
      BY <2>7, <3>1
    <3>3. w[i + 1] = wx[k + 1 - m + (i + 1)]
      BY <2>7, <3>1
    <3> HIDE DEF j
    <3> QED BY <2>10, <3>1, <3>2, <3>3
  <2>12. ASSUME NEW i \in 1..(n + 1)
         PROVE  as[i] <= stamp
    <3>1. CASE i = n + 1
      BY <1>2, <3>1
    <3>2. CASE i # n + 1
      <4>1. i \in 1..n
        BY <1>1, <3>2
      <4>2. as[i] = got[i] /\ got[i] < stamp /\ got[i] \in Int
        BY <1>2, <2>3, <4>1
      <4> QED BY <4>2
    <3> QED BY <3>1, <3>2
  <2> HIDE DEF as
  <2>13. Tracks(w, as, windowSize)
    <3>1. \A i \in 1..Len(as) : Len(w) >= 1 /\ as[i] <= w[Len(w)]
      BY <1>2, <2>7, <2>8, <2>9, <2>12
    <3> QED BY <2>5, <2>11, <3>1 DEF Tracks
  <2> QED BY <2>1, <2>7, <2>13 DEF as
<1> QED BY <1>6, <1>7

-----------------------------------------------------------------------------
(* One timestamp after the other.                                          *)

TrackStep(window, stamps, f, n) == IF n = 0 THEN window ELSE AddTimestamp(f[n - 1], stamps[n])

TrackUpTo(window, stamps) ==
    CHOOSE f : f = [n \in 0..Len(stamps) |-> TrackStep(window, stamps, f, n)]

\* The recursive function exists.
LEMMA TrackExists ==
    ASSUME NEW window, NEW stamps \in Seq(Int)
    PROVE  \A n \in 0..Len(stamps) : \E f : f = [i \in 0..n |-> TrackStep(window, stamps, f, i)]
<1> DEFINE Is(f, n) == f = [i \in 0..n |-> TrackStep(window, stamps, f, i)]
           G == {n \in 0..Len(stamps) : \E f : Is(f, n)}
<1>1. Len(stamps) \in Nat /\ 0 \in 0..Len(stamps)
  OBVIOUS
<1>2. 0 \in G
  <2> DEFINE f == [i \in 0..0 |-> window]
  <2>1. Is(f, 0)
    BY DEF TrackStep
  <2> QED BY <1>1, <2>1
<1>3. ASSUME NEW n \in 1..Len(stamps), n - 1 \in G
      PROVE  n \in G
  <2>1. PICK f : Is(f, n - 1)
    BY <1>3
  <2> DEFINE g == [i \in 0..n |-> IF i = n THEN AddTimestamp(f[n - 1], stamps[n]) ELSE f[i]]
  <2>2. n \in Nat /\ n >= 1 /\ n \in 0..Len(stamps)
    OBVIOUS
  <2>3. ASSUME NEW i \in 0..(n - 1)
        PROVE  g[i] = f[i] /\ f[i] = TrackStep(window, stamps, f, i)
    <3>1. i \in 0..n /\ i # n
      BY <2>2
    <3>2. g[i] = f[i]
      BY <3>1
    <3>3. f[i] = TrackStep(window, stamps, f, i)
      <4>1. f = [l \in 0..(n - 1) |-> TrackStep(window, stamps, f, l)]
        BY <2>1
      <4> QED BY <4>1
    <3> QED BY <3>2, <3>3
  <2>4. ASSUME NEW i \in 0..n
        PROVE  g[i] = TrackStep(window, stamps, g, i)
    <3>1. CASE i = n
      <4>1. g[i] = AddTimestamp(f[n - 1], stamps[n]) /\ n - 1 \in 0..(n - 1) /\ i # 0
        BY <2>2, <3>1
      <4>2. g[n - 1] = f[n - 1]
        BY <2>3, <4>1
      <4> HIDE DEF g
      <4> QED BY <3>1, <4>1, <4>2 DEF TrackStep
    <3>2. CASE i # n
      <4>1. i \in 0..(n - 1) /\ (i # 0 => i - 1 \in 0..(n - 1))
        BY <2>2, <3>2
      <4>2. g[i] = TrackStep(window, stamps, f, i) /\ (i # 0 => g[i - 1] = f[i - 1])
        BY <2>3, <4>1
      <4> HIDE DEF g
      <4> QED BY <4>2 DEF TrackStep
    <3> QED BY <3>1, <3>2
  <2>5. Is(g, n)
    BY <2>4
  <2> HIDE DEF g, Is
  <2> QED BY <2>2, <2>5
<1> HIDE DEF G
<1>4. 0..Len(stamps) \subseteq G
  BY <1>1, <1>2, <1>3, InductionUpTo
<1> QED BY <1>4 DEF G

LEMMA TrackRecursion ==
    ASSUME NEW window, NEW stamps \in Seq(Int)
    PROVE  /\ Track(window, stamps) = TrackUpTo(window, stamps)[Len(stamps)]
           /\ TrackUpTo(window, stamps)[0] = window
           /\ \A n \in 1..Len(stamps) :
                 TrackUpTo(window, stamps)[n] =
                     AddTimestamp(TrackUpTo(window, stamps)[n - 1], stamps[n])
<1> DEFINE f == TrackUpTo(window, stamps)
<1>1. Track(window, stamps) = f[Len(stamps)]
  BY DEF Track, TrackUpTo, TrackStep
<1>2. \E g : g = [n \in 0..Len(stamps) |-> TrackStep(window, stamps, g, n)]
  <2>1. Len(stamps) \in 0..Len(stamps)
    OBVIOUS
  <2> QED BY <2>1, TrackExists
<1>3. f = CHOOSE g : g = [n \in 0..Len(stamps) |-> TrackStep(window, stamps, g, n)]
  BY DEF TrackUpTo
<1>4. f = [n \in 0..Len(stamps) |-> TrackStep(window, stamps, f, n)]
  BY <1>2, <1>3
<1> HIDE DEF f
<1>5. f[0] = window
  BY <1>4 DEF TrackStep
<1>6. \A n \in 1..Len(stamps) : f[n] = TrackStep(window, stamps, f, n)
  BY <1>4, SMTT(20)
<1> QED BY <1>1, <1>5, <1>6 DEF TrackStep, f

\* What a window becomes by any timestamps.
LEMMA TrackFacts ==
    ASSUME NEW window \in Seq(Int), NEW got \in Seq(Int), NEW stamps \in Seq(Int),
           windowSize \in Nat \ {0, 1}, Tracks(window, got, windowSize)
    PROVE  /\ Track(window, stamps) \in Seq(Int)
           /\ Tracks(Track(window, stamps), got \o stamps, windowSize)
<1> DEFINE f == TrackUpTo(window, stamps)
           first(n) == SubSeq(stamps, 1, n)
           G == {n \in 0..Len(stamps) :
                   f[n] \in Seq(Int) /\ Tracks(f[n], Joined(got, first(n)), windowSize)}
<1>1. /\ Track(window, stamps) = f[Len(stamps)] /\ f[0] = window
      /\ \A n \in 1..Len(stamps) : f[n] = AddTimestamp(f[n - 1], stamps[n])
  BY TrackRecursion
<1> HIDE DEF f
<1>2. Len(stamps) \in Nat /\ 0 \in 0..Len(stamps)
  OBVIOUS
<1>3. 0 \in G
  <2>1. Joined(got, first(0)) = got
    BY DEF Joined
  <2> QED BY <1>1, <1>2, <2>1
<1>4. ASSUME NEW n \in 1..Len(stamps), n - 1 \in G
      PROVE  n \in G
  <2> DEFINE w == f[n - 1]
             x == stamps[n]
             t == first(n - 1)
             g == Joined(got, t)
  <2>1. w \in Seq(Int) /\ Tracks(w, g, windowSize)
    BY <1>4
  <2>2. n \in Nat /\ n >= 1 /\ n <= Len(stamps) /\ n \in 0..Len(stamps)
    BY <1>2
  <2>3. x \in Int /\ t \in Seq(Int) /\ first(n) = Append(t, x)
    <3>1. x \in Int /\ t \in Seq(Int) /\ Len(t) = n - 1 /\ \A i \in 1..(n - 1) : t[i] = stamps[i]
      BY <2>2
    <3>2. first(n) \in Seq(Int) /\ Len(first(n)) = n /\ \A i \in 1..n : first(n)[i] = stamps[i]
      BY <2>2
    <3> DEFINE tx == Append(t, x)
               fn == first(n)
    <3> HIDE DEF t, fn
    <3>3. tx \in Seq(Int) /\ Len(tx) = n /\ \A i \in 1..n : tx[i] = stamps[i]
      <4>1. tx \in Seq(Int) /\ Len(tx) = n /\ tx[n] = x /\ \A i \in 1..(n - 1) : tx[i] = t[i]
        BY <2>2, <3>1
      <4> HIDE DEF tx
      <4>2. ASSUME NEW i \in 1..n PROVE tx[i] = stamps[i]
        <5>1. CASE i = n
          BY <4>1, <5>1
        <5>2. CASE i # n
          <6>1. i \in 1..(n - 1)
            BY <2>2, <5>2
          <6> QED BY <3>1, <4>1, <6>1
        <5> QED BY <5>1, <5>2
      <4> QED BY <4>1, <4>2
    <3> HIDE DEF tx
    <3>4. fn = tx
      <4>1. fn \in Seq(Int) /\ Len(fn) = n /\ \A i \in 1..n : fn[i] = stamps[i]
        BY <3>2 DEF fn
      <4> QED BY <3>3, <4>1, SameSequence
    <3> QED BY <3>1, <3>4 DEF fn, tx
  <2> HIDE DEF t, w, x
  <2>4. g \in Seq(Int) /\ Append(g, x) = Joined(got, first(n))
    <3>1. g \in Seq(Int)
      BY <2>3 DEF Joined
    <3>2. Append(Joined(got, t), x) = Joined(got, Append(t, x))
      <4> DEFINE S == Int
      <4>1. got \in Seq(S) /\ x \in S /\ t \in Seq(S)
        BY <2>3
      <4> HIDE DEF S
      <4> QED BY <4>1, AppendJoined
    <3> QED BY <2>3, <3>1, <3>2
  <2>5. f[n] = AddTimestamp(w, x)
    BY <1>1 DEF w, x
  <2> HIDE DEF g
  <2>6. /\ AddTimestamp(w, x) \in Seq(Int)
        /\ Tracks(AddTimestamp(w, x), Append(g, x), windowSize)
    BY <2>1, <2>3, <2>4, AddStep
  <2> QED BY <2>2, <2>4, <2>5, <2>6
<1> HIDE DEF G
<1>5. 0..Len(stamps) \subseteq G
  BY <1>2, <1>3, <1>4, InductionUpTo
<1>6. f[Len(stamps)] \in Seq(Int) /\ Tracks(f[Len(stamps)], Joined(got, first(Len(stamps))), windowSize)
  BY <1>2, <1>5 DEF G
<1>7. first(Len(stamps)) = stamps
  OBVIOUS
<1> QED BY <1>1, <1>6, <1>7 DEF Joined

-----------------------------------------------------------------------------
(* The statistics of a window.                                             *)

SumStep(seq, f, n) == IF n = 0 THEN 0 ELSE f[n - 1] + seq[n]

SumUpTo(seq) == CHOOSE f : f = [n \in 0..Len(seq) |-> SumStep(seq, f, n)]

LEMMA SumExists ==
    ASSUME NEW seq \in Seq(Int)
    PROVE  \A n \in 0..Len(seq) : \E f : f = [i \in 0..n |-> SumStep(seq, f, i)]
<1> DEFINE Is(f, n) == f = [i \in 0..n |-> SumStep(seq, f, i)]
           G == {n \in 0..Len(seq) : \E f : Is(f, n)}
<1>1. Len(seq) \in Nat /\ 0 \in 0..Len(seq)
  OBVIOUS
<1>2. 0 \in G
  <2> DEFINE f == [i \in 0..0 |-> 0]
  <2>1. Is(f, 0)
    BY DEF SumStep
  <2> QED BY <1>1, <2>1
<1>3. ASSUME NEW n \in 1..Len(seq), n - 1 \in G
      PROVE  n \in G
  <2>1. PICK f : Is(f, n - 1)
    BY <1>3
  <2> DEFINE g == [i \in 0..n |-> IF i = n THEN f[n - 1] + seq[n] ELSE f[i]]
  <2>2. n \in Nat /\ n >= 1 /\ n \in 0..Len(seq)
    OBVIOUS
  <2>3. ASSUME NEW i \in 0..(n - 1)
        PROVE  g[i] = f[i] /\ f[i] = SumStep(seq, f, i)
    <3>1. i \in 0..n /\ i # n
      BY <2>2
    <3>2. g[i] = f[i]
      BY <3>1
    <3>3. f[i] = SumStep(seq, f, i)
      <4>1. f = [l \in 0..(n - 1) |-> SumStep(seq, f, l)]
        BY <2>1
      <4> QED BY <4>1
    <3> QED BY <3>2, <3>3
  <2>4. ASSUME NEW i \in 0..n
        PROVE  g[i] = SumStep(seq, g, i)
    <3>1. CASE i = n
      <4>1. g[i] = f[n - 1] + seq[n] /\ n - 1 \in 0..(n - 1) /\ i # 0
        BY <2>2, <3>1
      <4>2. g[n - 1] = f[n - 1]
        BY <2>3, <4>1
      <4> HIDE DEF g
      <4> QED BY <3>1, <4>1, <4>2 DEF SumStep
    <3>2. CASE i # n
      <4>1. i \in 0..(n - 1) /\ (i # 0 => i - 1 \in 0..(n - 1))
        BY <2>2, <3>2
      <4>2. g[i] = SumStep(seq, f, i) /\ (i # 0 => g[i - 1] = f[i - 1])
        BY <2>3, <4>1
      <4> HIDE DEF g
      <4> QED BY <4>2 DEF SumStep
    <3> QED BY <3>1, <3>2
  <2>5. Is(g, n)
    BY <2>4
  <2> HIDE DEF g, Is
  <2> QED BY <2>2, <2>5
<1> HIDE DEF G
<1>4. 0..Len(seq) \subseteq G
  BY <1>1, <1>2, <1>3, InductionUpTo
<1> QED BY <1>4 DEF G

LEMMA SumRecursion ==
    ASSUME NEW seq \in Seq(Int)
    PROVE  /\ Sum(seq) = SumUpTo(seq)[Len(seq)] /\ SumUpTo(seq)[0] = 0
           /\ \A n \in 1..Len(seq) : SumUpTo(seq)[n] = SumUpTo(seq)[n - 1] + seq[n]
<1> DEFINE f == SumUpTo(seq)
<1>1. Sum(seq) = f[Len(seq)]
  BY DEF Sum, SumUpTo, SumStep
<1>2. \E g : g = [n \in 0..Len(seq) |-> SumStep(seq, g, n)]
  <2>1. Len(seq) \in 0..Len(seq)
    OBVIOUS
  <2> QED BY <2>1, SumExists
<1>3. f = CHOOSE g : g = [n \in 0..Len(seq) |-> SumStep(seq, g, n)]
  BY DEF SumUpTo
<1>4. f = [n \in 0..Len(seq) |-> SumStep(seq, f, n)]
  BY <1>2, <1>3
<1> HIDE DEF f
<1>5. f[0] = 0
  BY <1>4 DEF SumStep
<1>6. \A n \in 1..Len(seq) : f[n] = SumStep(seq, f, n)
  BY <1>4, SMTT(20)
<1> QED BY <1>1, <1>5, <1>6 DEF SumStep, f

\* A sum lies between as many times the smallest and the largest of its terms.
LEMMA SumBounds ==
    ASSUME NEW seq \in Seq(Int), NEW lo \in Int, NEW hi \in Int,
           \A i \in 1..Len(seq) : lo <= seq[i] /\ seq[i] <= hi
    PROVE  Sum(seq) \in Int /\ lo * Len(seq) <= Sum(seq) /\ Sum(seq) <= hi * Len(seq)
<1> DEFINE f == SumUpTo(seq)
           G == {n \in 0..Len(seq) : f[n] \in Int /\ lo * n <= f[n] /\ f[n] <= hi * n}
<1>1. /\ Sum(seq) = f[Len(seq)] /\ f[0] = 0
      /\ \A n \in 1..Len(seq) : f[n] = f[n - 1] + seq[n]
  BY SumRecursion
<1> HIDE DEF f
<1>2. Len(seq) \in Nat /\ 0 \in 0..Len(seq)
  OBVIOUS
<1>3. 0 \in G
  BY <1>1, <1>2
<1>4. ASSUME NEW n \in 1..Len(seq), n - 1 \in G
      PROVE  n \in G
  <2> DEFINE p == f[n - 1]
             x == seq[n]
  <2>1. p \in Int /\ lo * (n - 1) <= p /\ p <= hi * (n - 1)
    BY <1>4
  <2>2. x \in Int /\ lo <= x /\ x <= hi
    OBVIOUS
  <2>3. f[n] = p + x
    BY <1>1
  <2>4. n \in 0..Len(seq) /\ n \in Int
    BY <1>2
  <2> HIDE DEF p, x
  <2>5. lo * n = lo * (n - 1) + lo /\ hi * n = hi * (n - 1) + hi
    BY <2>4
  <2>6. lo * (n - 1) \in Int /\ hi * (n - 1) \in Int
    BY <2>4
  <2>7. p + x \in Int /\ lo * n <= p + x /\ p + x <= hi * n
    <3> DEFINE u == lo * (n - 1)
               v == hi * (n - 1)
               y == lo * n
               z == hi * n
    <3>1. u \in Int /\ v \in Int /\ y = u + lo /\ z = v + hi /\ u <= p /\ p <= v
      BY <2>1, <2>5, <2>6
    <3> HIDE DEF u, v, y, z
    <3>2. p + x \in Int /\ y <= p + x /\ p + x <= z
      BY <2>1, <2>2, <3>1
    <3> QED BY <3>2 DEF y, z
  <2> QED BY <2>3, <2>4, <2>7
<1> HIDE DEF G
<1>5. 0..Len(seq) \subseteq G
  BY <1>2, <1>3, <1>4, InductionUpTo
<1>6. Len(seq) \in G
  BY <1>2, <1>5
<1>7. f[Len(seq)] \in Int /\ lo * Len(seq) <= f[Len(seq)] /\ f[Len(seq)] <= hi * Len(seq)
  BY <1>6 DEF G
<1> QED BY <1>1, <1>7

\* The extremes of a sequence of positive numbers.
LEMMA Extremes ==
    ASSUME NEW seq \in Seq(Nat \ {0}), Len(seq) >= 1
    PROVE  /\ Min(ToSet(seq)) \in Nat \ {0} /\ Max(ToSet(seq)) \in Nat \ {0}
           /\ \A i \in 1..Len(seq) : Min(ToSet(seq)) <= seq[i] /\ seq[i] <= Max(ToSet(seq))
<1> DEFINE S == ToSet(seq)
           N == Len(seq)
<1>1. N \in Nat /\ N >= 1 /\ S = {seq[i] : i \in 1..N} /\ \A i \in 1..N : seq[i] \in Nat \ {0}
  BY DEF ToSet
<1>2. S \subseteq Nat \ {0} /\ S # {} /\ \A i \in 1..N : seq[i] \in S
  <2>1. 1 \in 1..N
    BY <1>1
  <2> QED BY <1>1, <2>1
<1> HIDE DEF S, N
<1>3. \E m \in S : \A y \in S : m <= y
  <2>1. PICK m \in S : \A y \in S : ~(y < m)
    BY <1>2, SmallestElement
  <2> QED BY <1>2, <2>1
<1>4. Min(S) \in S /\ \A y \in S : Min(S) <= y
  BY <1>3 DEF Min
<1>5. \E m \in S : \A y \in S : m >= y
  <2> DEFINE G == {n \in 0..N : n = 0 \/ \E m \in 1..n : \A i \in 1..n : seq[m] >= seq[i]}
  <2>1. 0 \in G
    BY <1>1
  <2>2. ASSUME NEW n \in 1..N, n - 1 \in G
        PROVE  n \in G
    <3>1. n \in Nat /\ n \in 0..N /\ n \in 1..n /\ \A i \in 1..n : i \in 1..N
      BY <1>1
    <3>2. CASE n - 1 = 0
      <4>1. \A i \in 1..n : seq[n] >= seq[i]
        <5> SUFFICES ASSUME NEW i \in 1..n PROVE seq[n] >= seq[i]
          OBVIOUS
        <5>1. i = n /\ seq[n] \in Nat
          BY <1>1, <3>1, <3>2
        <5> QED BY <5>1
      <4> QED BY <3>1, <4>1
    <3>3. CASE n - 1 # 0
      <4>1. PICK m \in 1..(n - 1) : \A i \in 1..(n - 1) : seq[m] >= seq[i]
        BY <2>2, <3>3
      <4>2. m \in 1..n /\ seq[m] \in Nat /\ seq[n] \in Nat
        BY <1>1, <3>1
      <4>3. ASSUME seq[m] >= seq[n]
            PROVE  \A i \in 1..n : seq[m] >= seq[i]
        <5> SUFFICES ASSUME NEW i \in 1..n PROVE seq[m] >= seq[i]
          OBVIOUS
        <5>1. i = n \/ i \in 1..(n - 1)
          BY <3>1
        <5> QED BY <4>1, <4>3, <5>1
      <4>4. ASSUME ~(seq[m] >= seq[n])
            PROVE  \A i \in 1..n : seq[n] >= seq[i]
        <5> SUFFICES ASSUME NEW i \in 1..n PROVE seq[n] >= seq[i]
          OBVIOUS
        <5>1. i = n \/ i \in 1..(n - 1)
          BY <3>1
        <5>2. seq[i] \in Nat
          BY <1>1, <3>1
        <5> QED BY <4>1, <4>2, <4>4, <5>1, <5>2
      <4> QED BY <3>1, <4>2, <4>3, <4>4
    <3> QED BY <3>2, <3>3
  <2> HIDE DEF G
  <2>3. 0..N \subseteq G
    BY <1>1, <2>1, <2>2, InductionUpTo
  <2>4. PICK m \in 1..N : \A i \in 1..N : seq[m] >= seq[i]
    <3>1. N \in G /\ N # 0
      BY <1>1, <2>3
    <3> QED BY <3>1 DEF G
  <2>5. seq[m] \in S
    BY <1>2, <2>4
  <2>6. \A y \in S : seq[m] >= y
    BY <1>1, <2>4
  <2> QED BY <2>5, <2>6
<1>6. Max(S) \in S /\ \A y \in S : Max(S) >= y
  BY <1>5 DEF Max
<1>7. Min(S) \in Nat \ {0} /\ Max(S) \in Nat \ {0}
  BY <1>2, <1>4, <1>6
<1>8. ASSUME NEW i \in 1..N
      PROVE  Min(S) <= seq[i] /\ seq[i] <= Max(S)
  <2>1. seq[i] \in S /\ seq[i] \in Nat
    BY <1>1, <1>2
  <2>2. Min(S) <= seq[i] /\ Max(S) >= seq[i]
    BY <1>4, <1>6, <2>1
  <2> QED BY <1>7, <2>1, <2>2
<1> QED BY <1>7, <1>8 DEF S, N

\* The rates are those of all the intervals of a window.
Rates(s) ==
    /\ s.shortest > 0
    /\ s.intervals = s.window - 1
    /\ s.shortest * s.intervals <= s.total /\ s.total <= s.longest * s.intervals

LEMMA CalculateFacts ==
    ASSUME NEW window \in Seq(Int), Increasing(window), HasData(window)
    PROVE  Calculate(window) \in Stats /\ Rates(Calculate(window))
<1> DEFINE k == Len(window)
           each == [i \in 1..(k - 1) |-> window[i + 1] - window[i]]
           P == Nat \ {0}
           gaps == Selected(each, P)
<1>1. k \in Nat /\ k >= 2 /\ \A i \in 1..k : window[i] \in Int
  BY DEF HasData
<1>2. \A i \in 1..(k - 1) : window[i + 1] - window[i] \in P
  <2> SUFFICES ASSUME NEW i \in 1..(k - 1) PROVE window[i + 1] - window[i] \in P
    OBVIOUS
  <2>1. window[i] < window[i + 1]
    BY DEF Increasing
  <2>2. window[i] \in Int /\ window[i + 1] \in Int
    <3>1. i \in 1..k /\ i + 1 \in 1..k
      BY <1>1
    <3> QED BY <1>1, <3>1
  <2> DEFINE x == window[i]
             y == window[i + 1]
  <2> HIDE DEF x, y
  <2>3. y - x \in P
    <3>1. x \in Int /\ y \in Int /\ x < y
      BY <2>1, <2>2 DEF x, y
    <3> QED BY <3>1
  <2> QED BY <2>3 DEF x, y
<1> DEFINE n == k - 1
<1>3. n \in Nat /\ n >= 1 /\ k = n + 1
  BY <1>1
<1> HIDE DEF P
<1>4. each \in Seq(P) /\ Len(each) = n /\ \A i \in 1..n : each[i] \in P
  BY <1>2, <1>3
<1>5. Calculate(window) =
         [total |-> Sum(gaps), intervals |-> Len(gaps), window |-> k,
          shortest |-> Min(ToSet(gaps)), longest |-> Max(ToSet(gaps))]
  BY DEF Calculate, P
<1> HIDE DEF each
<1>6. gaps = each
  BY <1>4, SelectedAll
<1> HIDE DEF gaps, k, n
<1>7. gaps \in Seq(P) /\ Len(gaps) = n
  BY <1>4, <1>6
<1> DEFINE lo == Min(ToSet(gaps))
           hi == Max(ToSet(gaps))
<1>8. lo \in P /\ hi \in P /\ \A i \in 1..Len(gaps) : lo <= gaps[i] /\ gaps[i] <= hi
  BY <1>3, <1>7, Extremes DEF P
<1> HIDE DEF lo, hi
<1>9. gaps \in Seq(Int) /\ lo \in Int /\ hi \in Int
  BY <1>7, <1>8 DEF P
<1>10. Sum(gaps) \in Int /\ lo * n <= Sum(gaps) /\ Sum(gaps) <= hi * n
  BY <1>7, <1>8, <1>9, SumBounds
<1> DEFINE c == [total |-> Sum(gaps), intervals |-> n, window |-> k, shortest |-> lo,
                 longest |-> hi]
<1>11. Calculate(window) = c
  BY <1>5, <1>7 DEF lo, hi
<1>12. c \in Stats
  BY <1>1, <1>3, <1>9, <1>10 DEF Stats
<1>13. Rates(c)
  <2>1. lo > 0 /\ n = k - 1
    BY <1>3, <1>8 DEF P
  <2> QED BY <1>10, <2>1 DEF Rates
<1> QED BY <1>11, <1>12, <1>13

-----------------------------------------------------------------------------
(* The invariants.                                                         *)

ReadInv == EchoInv /\ HzInv

LEMMA TracksIs ==
    ASSUME NEW window \in Seq(Int), NEW got \in Seq(Int), NEW size
    PROVE  Tracks(window, got, size) <=>
               /\ window = LastOf(Records(got), size)
               /\ \A i \in 1..(Len(window) - 1) : window[i] < window[i + 1]
               /\ \A stamp \in ToSet(got) : window # <<>> /\ stamp <= Last(window)
<1>1. ToSet(got) = {got[i] : i \in 1..Len(got)}
  BY DEF ToSet
<1>2. (window # <<>> <=> Len(window) >= 1) /\ Last(window) = window[Len(window)]
  BY DEF Last
<1>3. (\A stamp \in ToSet(got) : window # <<>> /\ stamp <= Last(window)) <=>
         \A i \in 1..Len(got) : Len(window) >= 1 /\ got[i] <= window[Len(window)]
  BY <1>1, <1>2
<1> QED BY <1>3 DEF Tracks, Increasing

\* HzInv is about Tracks.
LEMMA HzInvIs ==
    ASSUME ReadTypeOK
    PROVE  HzInv <=> /\ \A r \in Readers : Tracks(timestamps[r], recorded[r], windowSize)
                     /\ \A r \in Readers : shown[r] # <<>> => Rates(shown[r])
<1>1. \A r \in Readers : timestamps[r] \in Seq(Int) /\ recorded[r] \in Seq(Int)
  BY DEF ReadTypeOK
<1>2. \A r \in Readers :
         Tracks(timestamps[r], recorded[r], windowSize) <=>
             /\ timestamps[r] = LastOf(Records(recorded[r]), windowSize)
             /\ \A i \in 1..(Len(timestamps[r]) - 1) : timestamps[r][i] < timestamps[r][i + 1]
             /\ \A stamp \in ToSet(recorded[r]) :
                   timestamps[r] # <<>> /\ stamp <= Last(timestamps[r])
  BY <1>1, TracksIs
<1>3. WindowIsTheNewestRecords /\ WindowIsIncreasing <=>
         \A r \in Readers : Tracks(timestamps[r], recorded[r], windowSize)
  BY <1>2, Zenon DEF WindowIsTheNewestRecords, WindowIsIncreasing
<1>4. RatesAreThoseOfAWindow <=> \A r \in Readers : shown[r] # <<>> => Rates(shown[r])
  BY DEF RatesAreThoseOfAWindow, Rates
<1> QED BY <1>3, <1>4 DEF HzInv

LEMMA RecordsOfNone == Records(<<>>) = <<>>
<1> DEFINE got == <<>>
           places == Selected(Ids(got), RecordPlaces(got))
<1>1. got \in Seq(Int) /\ Len(got) = 0
  OBVIOUS
<1> HIDE DEF got
<1>2. /\ Records(got) \in Seq(Int) /\ Len(Records(got)) = Len(places) /\ Len(places) \in Nat
      /\ \A k \in 1..Len(places) : places[k] \in 1..Len(got)
  BY <1>1, RecordsFacts
<1> HIDE DEF places
<1>3. Len(places) = 0
  <2> SUFFICES ASSUME Len(places) # 0 PROVE FALSE
    OBVIOUS
  <2>1. 1 \in 1..Len(places)
    BY <1>2
  <2>2. places[1] \in 1..0
    BY <1>1, <1>2, <2>1
  <2> QED BY <2>2
<1>4. Records(got) = <<>>
  BY <1>2, <1>3
<1> QED BY <1>4 DEF got

LEMMA ReadInitStep == Init => ReadInv
<1> SUFFICES ASSUME Init PROVE ReadInv
  OBVIOUS
<1>1. /\ cache = Empty /\ arrived = Empty /\ overwritten = {} /\ printed = <<>>
      /\ timestamps = Empty /\ recorded = Empty /\ shown = Empty
  BY DEF Init
<1>2. \A r \in Readers : Empty[r] = <<>>
  BY DEF Empty
<1>3. windowSize \in Nat \ {0, 1} /\ maxCount \in Nat
  <2>1. \A n \in Counts : CountOption(n) \in Nat
    BY ReadAssumption DEF CountOption
  <2>2. \A n \in Windows : WindowOption(n) \in Nat \ {0, 1}
    BY ReadAssumption DEF WindowOption
  <2> QED BY <2>1, <2>2 DEF Init
<1>4. ReadTypeOK
  <2>1. /\ Empty \in [Readers -> Seq(Sample)] /\ Empty \in [Readers -> Seq(Int)]
        /\ Empty \in [Readers -> Stats \cup {<<>>}]
    BY DEF Empty
  <2>2. Depth \in Nat
    BY <1>3, ReadAssumption DEF Depth
  <2>3. \A r \in Readers : Len(cache[r]) <= Depth
    BY <1>1, <1>2, <2>2
  <2>4. now \in 0..MaxNow
    BY ReadAssumption DEF Init
  <2>5. /\ command \in {"echo", "hz", "ps"} /\ running \in BOOLEAN
        /\ pc \in {"read", "print", "done"} /\ due \in BOOLEAN
    BY DEF Init
  <2> QED BY <1>1, <1>3, <2>1, <2>3, <2>4, <2>5 DEF ReadTypeOK
<1>5. CacheIsTheNewest
  <2>1. <<>> \in Seq(Sample) /\ Len(<<>>) = 0 /\ DOMAIN <<>> = {}
    OBVIOUS
  <2>2. <<>> = LastOf(<<>>, Len(<<>>))
    BY DEF LastOf, Smaller
  <2> QED BY <1>1, <1>2, <2>1, <2>2 DEF CacheIsTheNewest
<1>6. EchoPrintsAllInOrder
  <2>1. <<>> \in Seq(Sample) /\ \A i \in 1..Len(<<>>) : FALSE
    OBVIOUS
  <2>2. \A w : Selected(<<>>, w) = <<>>
    BY <2>1, SelectedNone
  <2>3. arrived[EchoReader] = <<>>
    BY <1>1, <1>2, ReadAssumption
  <2> QED BY <1>1, <2>2, <2>3 DEF EchoPrintsAllInOrder
<1>7. OvershootIsLessThanABatch
  BY <1>1, <1>3, ReadAssumption DEF OvershootIsLessThanABatch
<1>8. HzInv
  <2>1. \A r \in Readers : Tracks(timestamps[r], recorded[r], windowSize)
    <3>1. <<>> = LastOf(<<>>, windowSize)
      BY <1>3 DEF LastOf, Smaller
    <3>2. Len(<<>>) = 0
      OBVIOUS
    <3>3. Tracks(<<>>, <<>>, windowSize)
      BY <3>1, <3>2, RecordsOfNone DEF Tracks, Increasing
    <3> QED BY <1>1, <1>2, <3>3
  <2>2. \A r \in Readers : shown[r] # <<>> => Rates(shown[r])
    BY <1>1, <1>2
  <2> QED BY <1>4, <2>1, <2>2, HzInvIs
<1> QED BY <1>4, <1>5, <1>6, <1>7, <1>8 DEF ReadInv, EchoInv

\* What depends on what.
LEMMA EchoSame ==
    ASSUME UNCHANGED <<options, dds, printed>>
    PROVE  /\ CacheIsTheNewest => CacheIsTheNewest'
           /\ EchoPrintsAllInOrder => EchoPrintsAllInOrder'
           /\ OvershootIsLessThanABatch => OvershootIsLessThanABatch'
<1>1. UNCHANGED <<command, maxCount, cache, arrived, overwritten, printed>>
  BY DEF options, dds
<1>2. CacheIsTheNewest => CacheIsTheNewest'
  BY <1>1 DEF CacheIsTheNewest
<1>3. EchoPrintsAllInOrder => EchoPrintsAllInOrder'
  BY <1>1 DEF EchoPrintsAllInOrder, Data
<1>4. OvershootIsLessThanABatch => OvershootIsLessThanABatch'
  BY <1>1 DEF OvershootIsLessThanABatch
<1> QED BY <1>2, <1>3, <1>4

LEMMA HzSame ==
    ASSUME UNCHANGED <<windowSize, timestamps, recorded, shown>>, HzInv
    PROVE  HzInv'
<1>1. WindowIsTheNewestRecords'
  BY DEF HzInv, WindowIsTheNewestRecords
<1>2. WindowIsIncreasing'
  BY DEF HzInv, WindowIsIncreasing
<1>3. RatesAreThoseOfAWindow'
  BY DEF HzInv, RatesAreThoseOfAWindow
<1> QED BY <1>1, <1>2, <1>3 DEF HzInv

LEMMA ArriveStep ==
    ASSUME ReadInv, NEW r \in Readers, Arrive(r)
    PROVE  ReadInv'
<1>1. ReadTypeOK /\ CacheIsTheNewest /\ EchoPrintsAllInOrder /\ OvershootIsLessThanABatch /\ HzInv
  BY DEF ReadInv, EchoInv
<1>2. ReadTypeOK' /\ CacheIsTheNewest'
  BY <1>1, ArriveTypes
<1>3. EchoPrintsAllInOrder'
  BY <1>1, EchoArrive
<1>4. UNCHANGED <<options, printed, hz>>
  BY DEF Arrive
<1>5. OvershootIsLessThanABatch'
  BY <1>1, <1>4 DEF OvershootIsLessThanABatch, options
<1>6. HzInv'
  BY <1>1, <1>4, HzSame DEF options, hz
<1> QED BY <1>2, <1>3, <1>5, <1>6 DEF ReadInv, EchoInv

LEMMA EchoReadStep ==
    ASSUME ReadInv, EchoRead
    PROVE  ReadInv'
<1>1. ReadTypeOK /\ CacheIsTheNewest /\ EchoPrintsAllInOrder /\ OvershootIsLessThanABatch /\ HzInv
  BY DEF ReadInv, EchoInv
<1>2. CacheIsTheNewest' /\ EchoPrintsAllInOrder'
  BY <1>1, EchoBatch
<1>3. printed' \in Seq(Sample) /\ OvershootIsLessThanABatch'
  BY <1>1, EchoCounts
<1>4. /\ UNCHANGED <<running, pc, options, arrived, overwritten, due, hz>>
      /\ cache' = [cache EXCEPT ![EchoReader] = Left(EchoReader)] /\ EchoReader \in Readers
  BY ReadAssumption DEF EchoRead, TakeAndPrint
<1>5. ReadTypeOK'
  <2>1. Left(EchoReader) \in Seq(Sample) /\ Len(Left(EchoReader)) <= Len(cache[EchoReader])
    BY <1>1, <1>4, LeftIsNewest
  <2>2. cache \in [Readers -> Seq(Sample)] /\ \A r \in Readers : Len(cache[r]) <= Depth
    BY <1>1 DEF ReadTypeOK
  <2>3. Depth' = Depth /\ Depth \in Nat
    BY <1>1, <1>4, DepthIsPositive DEF Depth, options
  <2>4. cache' \in [Readers -> Seq(Sample)]
    BY <1>4, <2>1, <2>2
  <2>5. ASSUME NEW r \in Readers
        PROVE  Len(cache'[r]) <= Depth'
    <3>1. CASE r = EchoReader
      <4>1. cache'[r] = Left(r)
        BY <1>4, <2>2, <3>1
      <4>2. Len(Left(r)) \in Nat /\ Len(cache[r]) \in Nat
        BY <2>1, <2>2, <3>1
      <4> QED BY <2>1, <2>2, <2>3, <3>1, <4>1, <4>2
    <3>2. CASE r # EchoReader
      BY <1>4, <2>2, <2>3, <3>2
    <3> QED BY <3>1, <3>2
  <2> QED BY <1>1, <1>3, <1>4, <2>4, <2>5 DEF ReadTypeOK, options, hz
<1>6. HzInv'
  BY <1>1, <1>4, HzSame DEF options, hz
<1> QED BY <1>2, <1>3, <1>5, <1>6 DEF ReadInv, EchoInv

LEMMA StampsAreInt ==
    ASSUME ReadTypeOK, NEW r \in Readers, NEW time \in Int
    PROVE  StampsOf(r, time) \in Seq(Int)
<1> DEFINE batch == Selected(Taken(r), Data)
<1>1. batch \in Seq(Sample)
  BY TakenFacts, SelectedElements
<1>2. StampsOf(r, time) =
         [i \in 1..Len(batch) |-> IF batch[i].stamp > 0 THEN batch[i].stamp ELSE time]
  BY DEF StampsOf
<1> HIDE DEF batch
<1>3. \A i \in 1..Len(batch) : batch[i].stamp \in Int
  <2>1. \A i \in 1..Len(batch) : batch[i] \in Sample
    BY <1>1
  <2>2. \A x \in Sample : x.stamp \in Stamps \cup {0}
    BY DEF Sample
  <2>3. Stamps \cup {0} \subseteq Int
    BY ReadAssumption
  <2> QED BY <2>1, <2>2, <2>3
<1>4. \A i \in 1..Len(batch) : (IF batch[i].stamp > 0 THEN batch[i].stamp ELSE time) \in Int
  BY <1>3
<1>5. Len(batch) \in Nat
  BY <1>1
<1> QED BY <1>2, <1>4, <1>5

LEMMA HzReadStep ==
    ASSUME ReadInv, HzRead
    PROVE  ReadInv'
<1>1. ReadTypeOK /\ CacheIsTheNewest /\ EchoPrintsAllInOrder /\ OvershootIsLessThanABatch /\ HzInv
  BY DEF ReadInv, EchoInv
<1>2. PICK time \in now..MaxNow :
        /\ now' = time
        /\ recorded' = [r \in Readers |-> recorded[r] \o StampsOf(r, time)]
        /\ timestamps' = [r \in Readers |-> Track(timestamps[r], StampsOf(r, time))]
  BY DEF HzRead
<1>3. /\ cache' = [r \in Readers |-> Left(r)] /\ command = "hz" /\ pc' = "print"
      /\ UNCHANGED <<running, options, arrived, overwritten, printed, due, shown>>
  BY DEF HzRead
<1>4. UNCHANGED <<command, maxCount, windowSize>>
  BY <1>3 DEF options
<1>5. time \in Int /\ now' \in 0..MaxNow
  BY <1>1, <1>2, ReadAssumption DEF ReadTypeOK
<1>6. /\ windowSize \in Nat \ {0, 1}
      /\ \A r \in Readers : timestamps[r] \in Seq(Int) /\ recorded[r] \in Seq(Int)
  BY <1>1 DEF ReadTypeOK
<1>7. /\ \A r \in Readers : Tracks(timestamps[r], recorded[r], windowSize)
      /\ \A r \in Readers : shown[r] # <<>> => Rates(shown[r])
  BY <1>1, HzInvIs
<1>8. ASSUME NEW r \in Readers
      PROVE  /\ recorded'[r] \in Seq(Int) /\ timestamps'[r] \in Seq(Int)
             /\ Tracks(timestamps'[r], recorded'[r], windowSize)
  <2> DEFINE stamps == StampsOf(r, time)
  <2>1. stamps \in Seq(Int)
    BY <1>1, <1>5, StampsAreInt
  <2>2. recorded'[r] = recorded[r] \o stamps /\ timestamps'[r] = Track(timestamps[r], stamps)
    BY <1>2
  <2> HIDE DEF stamps
  <2>3. /\ Track(timestamps[r], stamps) \in Seq(Int)
        /\ Tracks(Track(timestamps[r], stamps), recorded[r] \o stamps, windowSize)
    BY <1>6, <1>7, <2>1, TrackFacts
  <2>4. recorded[r] \o stamps \in Seq(Int)
    BY <1>6, <2>1
  <2> QED BY <2>2, <2>3, <2>4
<1>9. ASSUME NEW r \in Readers
      PROVE  /\ cache'[r] = Left(r) /\ Left(r) \in Seq(Sample) /\ Len(Left(r)) <= Len(cache[r])
             /\ Left(r) = LastOf(arrived[r], Len(Left(r)))
             /\ \A x \in overwritten :
                   x.reader = r => x.seq <= Len(arrived[r]) - Len(Left(r))
  BY <1>1, <1>3, LeftIsNewest
<1>10. ReadTypeOK'
  <2>1. /\ recorded' \in [Readers -> Seq(Int)] /\ timestamps' \in [Readers -> Seq(Int)]
    BY <1>2, <1>8
  <2>2. cache' \in [Readers -> Seq(Sample)]
    BY <1>3, <1>9
  <2>3. Depth' = Depth /\ Depth \in Nat
    BY <1>1, <1>4, DepthIsPositive DEF Depth
  <2>4. ASSUME NEW r \in Readers
        PROVE  Len(cache'[r]) <= Depth'
    <3>1. Len(cache[r]) <= Depth /\ Len(cache[r]) \in Nat
      BY <1>1 DEF ReadTypeOK
    <3>2. Len(Left(r)) \in Nat
      BY <1>9
    <3> QED BY <1>9, <2>3, <3>1, <3>2
  <2> QED BY <1>1, <1>3, <1>4, <1>5, <2>1, <2>2, <2>4 DEF ReadTypeOK
<1>11. CacheIsTheNewest'
  <2>1. ASSUME NEW r \in Readers
        PROVE  /\ \A i \in DOMAIN arrived'[r] : arrived'[r][i].reader = r /\ arrived'[r][i].seq = i
               /\ cache'[r] = LastOf(arrived'[r], Len(cache'[r]))
               /\ \A x \in overwritten' :
                     x.reader = r => x.seq <= Len(arrived'[r]) - Len(cache'[r])
    BY <1>1, <1>3, <1>9 DEF CacheIsTheNewest
  <2> QED BY <2>1 DEF CacheIsTheNewest
<1>12. EchoPrintsAllInOrder' /\ OvershootIsLessThanABatch'
  BY <1>1, <1>3, <1>4 DEF EchoPrintsAllInOrder, OvershootIsLessThanABatch
<1>13. HzInv'
  <2>1. ASSUME NEW r \in Readers
        PROVE  /\ timestamps'[r] = LastOf(Records(recorded'[r]), windowSize')
               /\ \A i \in 1..(Len(timestamps'[r]) - 1) : timestamps'[r][i] < timestamps'[r][i + 1]
               /\ \A stamp \in ToSet(recorded'[r]) :
                     timestamps'[r] # <<>> /\ stamp <= Last(timestamps'[r])
    <3> DEFINE w == timestamps'[r]
               g == recorded'[r]
    <3>1. w \in Seq(Int) /\ g \in Seq(Int) /\ Tracks(w, g, windowSize') 
      BY <1>4, <1>8
    <3> HIDE DEF w, g
    <3>2. /\ w = LastOf(Records(g), windowSize')
          /\ \A i \in 1..(Len(w) - 1) : w[i] < w[i + 1]
          /\ \A stamp \in ToSet(g) : w # <<>> /\ stamp <= Last(w)
      BY <3>1, TracksIs
    <3> QED BY <3>2 DEF w, g
  <2>2. WindowIsTheNewestRecords'
    BY <2>1 DEF WindowIsTheNewestRecords
  <2>3. WindowIsIncreasing'
    BY <2>1, Zenon DEF WindowIsIncreasing
  <2>4. RatesAreThoseOfAWindow'
    BY <1>1, <1>3 DEF HzInv, RatesAreThoseOfAWindow
  <2> QED BY <2>2, <2>3, <2>4 DEF HzInv
<1> QED BY <1>10, <1>11, <1>12, <1>13 DEF ReadInv, EchoInv

\* The statistics that are shown are rates.
LEMMA ShowFacts ==
    ASSUME ReadInv, ShowStatistics
    PROVE  shown' \in [Readers -> Stats \cup {<<>>}] /\ \A r \in Readers : shown'[r] # <<>> => Rates(shown'[r])
<1>1. ReadTypeOK /\ HzInv
  BY DEF ReadInv, EchoInv
<1>2. /\ \A r \in Readers : Tracks(timestamps[r], recorded[r], windowSize)
      /\ \A r \in Readers : shown[r] # <<>> => Rates(shown[r])
  BY <1>1, HzInvIs
<1>3. ASSUME NEW r \in Readers
      PROVE  shown'[r] \in Stats \cup {<<>>} /\ (shown'[r] # <<>> => Rates(shown'[r]))
  <2>1. CASE r \in WithData
    <3>1. shown'[r] = Calculate(timestamps[r]) /\ HasData(timestamps[r])
      BY <2>1 DEF ShowStatistics, WithData
    <3>2. timestamps[r] \in Seq(Int) /\ Increasing(timestamps[r])
      BY <1>1, <1>2 DEF ReadTypeOK, Tracks
    <3>3. Calculate(timestamps[r]) \in Stats /\ Rates(Calculate(timestamps[r]))
      BY <3>1, <3>2, CalculateFacts
    <3> QED BY <3>1, <3>3
  <2>2. CASE r \notin WithData
    <3>1. shown'[r] = shown[r]
      BY <2>2 DEF ShowStatistics
    <3> QED BY <1>1, <1>2, <3>1 DEF ReadTypeOK
  <2> QED BY <2>1, <2>2
<1>4. shown' \in [Readers -> Stats \cup {<<>>}]
  BY <1>3 DEF ShowStatistics
<1> QED BY <1>3, <1>4

LEMMA HzShowStep ==
    ASSUME ReadInv, HzPrint \/ HzExit
    PROVE  ReadInv'
<1>1. ReadTypeOK /\ CacheIsTheNewest /\ EchoPrintsAllInOrder /\ OvershootIsLessThanABatch /\ HzInv
  BY DEF ReadInv, EchoInv
<1>2. /\ UNCHANGED <<running, options, dds, printed, now, timestamps, recorded>>
      /\ pc' \in {"read", "print", "done"} /\ due' \in BOOLEAN
      /\ ShowStatistics \/ shown' = shown
  BY <1>1 DEF HzPrint, HzExit, ReadTypeOK
<1>3. UNCHANGED <<running, command, maxCount, windowSize, cache, arrived, overwritten, printed, now,
                  timestamps, recorded>>
  BY <1>2 DEF options, dds
<1>4. /\ shown' \in [Readers -> Stats \cup {<<>>}]
      /\ \A r \in Readers : shown'[r] # <<>> => Rates(shown'[r])
  <2>1. CASE ShowStatistics
    BY <2>1, ShowFacts
  <2>2. CASE shown' = shown
    BY <1>1, <2>2, HzInvIs DEF ReadTypeOK
  <2> QED BY <1>2, <2>1, <2>2
<1>5. ReadTypeOK'
  <2>1. Depth' = Depth
    BY <1>3 DEF Depth
  <2> QED BY <1>1, <1>2, <1>3, <1>4, <2>1 DEF ReadTypeOK
<1>6. CacheIsTheNewest' /\ EchoPrintsAllInOrder' /\ OvershootIsLessThanABatch'
  BY <1>1, <1>2, EchoSame
<1>7. HzInv'
  <2>1. WindowIsTheNewestRecords'
    BY <1>1, <1>3 DEF HzInv, WindowIsTheNewestRecords
  <2>2. WindowIsIncreasing'
    BY <1>1, <1>3 DEF HzInv, WindowIsIncreasing
  <2>3. RatesAreThoseOfAWindow'
    BY <1>4 DEF RatesAreThoseOfAWindow, Rates
  <2> QED BY <2>1, <2>2, <2>3 DEF HzInv
<1> QED BY <1>5, <1>6, <1>7 DEF ReadInv, EchoInv

\* The steps that touch neither samples nor windows.
LEMMA ReadQuietStep ==
    ASSUME ReadInv, EchoExit \/ SecondPasses \/ Interrupt \/ UNCHANGED vars
    PROVE  ReadInv'
<1>1. ReadTypeOK /\ CacheIsTheNewest /\ EchoPrintsAllInOrder /\ OvershootIsLessThanABatch /\ HzInv
  BY DEF ReadInv, EchoInv
<1>2. /\ UNCHANGED <<options, dds, printed, hz>>
      /\ running' \in BOOLEAN /\ pc' \in {"read", "print", "done"} /\ due' \in BOOLEAN
  BY <1>1 DEF EchoExit, SecondPasses, Interrupt, vars, ReadTypeOK
<1>3. ReadTypeOK'
  <2>1. Depth' = Depth
    BY <1>2 DEF Depth, options
  <2> QED BY <1>1, <1>2, <2>1 DEF ReadTypeOK, options, dds, hz
<1>4. CacheIsTheNewest' /\ EchoPrintsAllInOrder' /\ OvershootIsLessThanABatch'
  BY <1>1, <1>2, EchoSame
<1>5. HzInv'
  BY <1>1, <1>2, HzSame DEF options, hz
<1> QED BY <1>3, <1>4, <1>5 DEF ReadInv, EchoInv

LEMMA ReadStep ==
    ASSUME ReadInv, [Next]_vars
    PROVE  ReadInv'
<1>1. CASE EchoRead
  BY <1>1, EchoReadStep
<1>2. CASE HzRead
  BY <1>2, HzReadStep
<1>3. CASE HzPrint \/ HzExit
  BY <1>3, HzShowStep
<1>4. CASE \E r \in Readers : Arrive(r)
  BY <1>4, ArriveStep
<1>5. CASE EchoExit \/ SecondPasses \/ Interrupt \/ UNCHANGED vars
  BY <1>5, ReadQuietStep
<1> QED BY <1>1, <1>2, <1>3, <1>4, <1>5 DEF Next, Loop, Terminated

LEMMA ReadInduction == LoopsSpec => []ReadInv
<1>1. LoopsInit => ReadInv
  BY ReadInitStep DEF LoopsInit
<1>2. ReadInv /\ [LoopsNext]_<<vars, psVars>> => ReadInv'
  <2>1. [LoopsNext]_<<vars, psVars>> => [Next]_vars
    BY DEF LoopsNext, Ps
  <2> QED BY <2>1, ReadStep
<1> QED BY <1>1, <1>2, PTL DEF LoopsSpec

\* echo prints every message once and in the order of arrival, but for those that the history
\* of its reader dropped before it came to take them, and overshoots --count by less than one
\* batch: for any history, batches, arrivals and signals.
THEOREM EchoInvariant == LoopsSpec => []EchoInv
<1>1. ReadInv => EchoInv
  BY DEF ReadInv
<1> QED BY <1>1, ReadInduction, PTL

\* The window of every tracker of hz is the last timestamps of those that were later than all
\* before them, and the rates that are shown are those of all its intervals: finite, ordered,
\* with an average that is of the whole window.
THEOREM HzInvariant == LoopsSpec => []HzInv
<1>1. ReadInv => HzInv
  BY DEF ReadInv
<1> QED BY <1>1, ReadInduction, PTL
=============================================================================
