------------------------------ MODULE Registry ------------------------------
(***************************************************************************)
(* The topology registry: what registry/loader.py makes of a YAML file,    *)
(* what it refuses, and how registry/resolver.py finds the stream and the  *)
(* owner of an anomalous scope.                                            *)
(*                                                                         *)
(* A place stands for an (env, cluster_id) pair and names stand for        *)
(* themselves.  All ways in which the text is not the expected shape (YAML *)
(* errors, repeated mapping keys, wrong types, blank required strings) are *)
(* one flag of a file, since all raise the same exception.  Descriptions,  *)
(* team data, confidences and downstream components are left out.          *)
(***************************************************************************)
EXTENDS Integers, Sequences, FiniteSets

CONSTANTS
    Places, Topics, Groups, Streams, Systems,
    Keys,               \* routing keys
    DefaultPlace,       \* default_env and default_cluster_id of the loader
    FailOnUnknownRole,  \* fail_on_unknown_topic_role of the loader rules
    None

RawRole == {"SOURCE_TOPIC", "KAFKA_SOURCE_STREAM", "STANDARDIZER_SHARED", "AUDIT_RAW_SHARED",
            "SHARED_TOPIC", "SINK_TOPIC", "UNSUPPORTED"}
NormalRole ==
    [SOURCE_TOPIC |-> "SOURCE_TOPIC", KAFKA_SOURCE_STREAM |-> "SOURCE_TOPIC",
     STANDARDIZER_SHARED |-> "SHARED_TOPIC", AUDIT_RAW_SHARED |-> "SHARED_TOPIC",
     SHARED_TOPIC |-> "SHARED_TOPIC", SINK_TOPIC |-> "SINK_TOPIC", UNSUPPORTED |-> None]
BlastRadius ==
    [SOURCE_TOPIC |-> "LOCAL_SOURCE_INGESTION", SHARED_TOPIC |-> "SHARED_KAFKA_INGESTION",
     SINK_TOPIC |-> "SHARED_KAFKA_INGESTION"]


\* An anomaly's scope: (env, cluster, topic) or (env, cluster, group, topic).  A topic None
\* is a label that is blank.
Scope == [place: Places, group: Groups \cup {None}, topic: Topics \cup {None}]

ASSUME RegistryAssumption ==
    /\ DefaultPlace \in Places
    /\ FailOnUnknownRole \in BOOLEAN
    /\ None \notin Places \cup Topics \cup Groups \cup Streams \cup Systems \cup Keys
    /\ None \notin DOMAIN BlastRadius

-----------------------------------------------------------------------------
(* A registry file. *)

Optional(S) == S \cup {None}
IndexEntry == [stream: Optional(Streams), role: RawRole, system: Optional(Systems)]
TopicIndex == UNION {[T -> IndexEntry] : T \in SUBSET Topics}
SourceEntry == [topic: Topics, system: Optional(Systems), tier: Optional(STRING)]
InstanceEntry == [place: Places, index: TopicIndex, sources: Seq(SourceEntry)]
StreamEntry ==
    [id: Streams, tier: Optional(STRING), place: Optional(Places), sources: Seq(SourceEntry),
     instances: Optional(Seq(InstanceEntry))]
Level == {"consumer_group_owner", "topic_owner", "stream_default_owner"}
OwnerEntry ==
    [match: [level: Level, place: Places, name: Groups \cup Topics \cup Streams], key: Keys]
RegistryText ==
    [readable: BOOLEAN, version: Optional(Nat), index: TopicIndex, streams: Seq(StreamEntry),
     directory: Seq(Keys), owners: Seq(OwnerEntry), platform: Optional(Keys)]

-----------------------------------------------------------------------------
(* Loading. *)

Elements(s) == {s[i] : i \in DOMAIN s}
Repeats(s, Name(_)) == \E i, j \in DOMAIN s : i # j /\ Name(s[i]) = Name(s[j])

\* The element at the first of some positions; the elements at some positions, in order.
First(s, at) == s[CHOOSE i \in at : \A j \in at : i <= j]
Subsequence(s, at) ==
    [k \in 1..Cardinality(at) |-> s[CHOOSE i \in at : Cardinality({j \in at : j <= i}) = k]]
FirstKnown(s) ==
    LET known == {i \in DOMAIN s : s[i] # None}
    IN  IF known = {} THEN None ELSE First(s, known)

\* _detect_registry_version
Version(text) ==
    IF text.version # None THEN text.version
    ELSE IF \E s \in Elements(text.streams) : s.instances # None THEN 2 ELSE 1

Home(s, default) == IF s.place = None THEN default ELSE s.place

\* The one instance of a v0 stream: the topics of the global index that name the stream.
V0Stream(text, s, default) ==
    LET mine == {t \in DOMAIN text.index : text.index[t].stream = s.id}
    IN  [id |-> s.id, tier |-> s.tier,
         instances |-> <<[place |-> Home(s, default),
                          index |-> [t \in mine |-> text.index[t]],
                          sources |-> s.sources]>>]

\* A v1/v2 stream lists its instances, each with an index of its own.
V1Stream(s) ==
    [id |-> s.id, tier |-> s.tier,
     instances |->
        [i \in DOMAIN s.instances |->
            [s.instances[i] EXCEPT !.index = [t \in DOMAIN @ |-> [@[t] EXCEPT !.stream = s.id]]]]]

CanonicalStreams(text, default) ==
    [i \in DOMAIN text.streams |->
        IF Version(text) >= 2 THEN V1Stream(text.streams[i])
        ELSE V0Stream(text, text.streams[i], default)]

\* A stream that a v0 index names must exist; a v2 index may only name its own stream.
V0Problems(text) ==
    \E t \in DOMAIN text.index :
        text.index[t].stream \notin {s.id : s \in Elements(text.streams)}
V1Problems(text) ==
    \E s \in Elements(text.streams) :
        \/ s.instances = None
        \/ \E inst \in Elements(s.instances) : \E t \in DOMAIN inst.index :
            inst.index[t].stream \notin {None, s.id}

\* The instances at a place, with the positions that tell equal ones apart.
At(streams, p) ==
    {x \in UNION {{<<i, j>> : j \in DOMAIN streams[i].instances} : i \in DOMAIN streams} :
        streams[x[1]].instances[x[2]].place = p}
Placed(streams, x) == streams[x[1]].instances[x[2]]

\* Mutant: a topic listed twice in one place is let through, the later entry wins.
StreamProblemsSharedTopic(streams) ==
    \/ Repeats(streams, LAMBDA s : s.id)
    \/ \E s \in Elements(streams) : Repeats(s.instances, LAMBDA x : x.place)

\* _canonicalize_registry: ids, scopes per stream and topics per scope are unique.
StreamProblems(streams) ==
    \/ Repeats(streams, LAMBDA s : s.id)
    \/ \E s \in Elements(streams) : Repeats(s.instances, LAMBDA x : x.place)
    \/ \E p \in Places : \E x, y \in At(streams, p) :
        /\ x # y
        /\ DOMAIN Placed(streams, x).index \cap DOMAIN Placed(streams, y).index # {}
    \/ /\ FailOnUnknownRole
       /\ \E s \in Elements(streams) : \E inst \in Elements(s.instances) :
            \E t \in DOMAIN inst.index : inst.index[t].role = "UNSUPPORTED"

\* _canonicalize_routing_directory
DirectoryProblems(text) == Repeats(text.directory, LAMBDA k : k)

\* _validate_ownership_matrix, routing_key_required being on
OwnershipProblems(text) ==
    \/ Repeats(text.owners, LAMBDA o : o.match)
    \/ ~(({o.key : o \in Elements(text.owners)} \cup {text.platform}) \ {None}
            \subseteq Elements(text.directory))

\* load_topology_registry raises no TopologyRegistryValidationError.
ValidWith(text, default) ==
    /\ text.readable
    /\ Version(text) \in {1, 2}
    /\ IF Version(text) = 2 THEN ~V1Problems(text) ELSE ~V0Problems(text)
    /\ ~StreamProblems(CanonicalStreams(text, default))
    /\ ~DirectoryProblems(text)
    /\ ~OwnershipProblems(text)
Valid(text) == ValidWith(text, DefaultPlace)

\* The lookup tables of CanonicalOwnershipMap keep the first entry.
OwnerTable(text) ==
    [m \in {o.match : o \in Elements(text.owners)} |->
        First(text.owners, {i \in DOMAIN text.owners : text.owners[i].match = m}).key]

\* CanonicalTopologyRegistry
CanonicalWith(text, default) ==
    [streams |-> CanonicalStreams(text, default),
     directory |-> Elements(text.directory),
     owners |-> OwnerTable(text),
     platform |-> text.platform]
Canonical(text) == CanonicalWith(text, DefaultPlace)

\* topic_index_by_scope[p]
IndexAt(reg, p) ==
    [t \in UNION {DOMAIN Placed(reg.streams, x).index : x \in At(reg.streams, p)} |->
        Placed(reg.streams,
                 CHOOSE x \in At(reg.streams, p) : t \in DOMAIN Placed(reg.streams, x).index
                ).index[t]]

-----------------------------------------------------------------------------
(* The v0 compatibility view of one place, itself a registry file.  Its    *)
(* streams carry no cluster: whoever loads it supplies the place.          *)

StreamsAt(reg, p) ==
    Subsequence(reg.streams, {i \in DOMAIN reg.streams :
                                \E x \in Elements(reg.streams[i].instances) : x.place = p})

\* _find_stream_instance_for_scope
InstanceOf(stream, p) ==
    First(stream.instances, {j \in DOMAIN stream.instances : stream.instances[j].place = p})

\* Mutant: the view lists the topics of every place.
CompatViewAllPlaces(reg, p) ==
    [readable |-> TRUE, version |-> 1,
     streams |->
        LET here == StreamsAt(reg, p)
        IN  [i \in DOMAIN here |->
                [id |-> here[i].id, tier |-> here[i].tier, place |-> None, instances |-> None,
                 sources |-> InstanceOf(here[i], p).sources]],
     index |-> [t \in UNION {DOMAIN IndexAt(reg, q) : q \in Places} |->
                    LET q == CHOOSE q \in Places : t \in DOMAIN IndexAt(reg, q)
                    IN  IndexAt(reg, q)[t]],
     directory |-> <<>>, owners |-> <<>>, platform |-> None]

CompatView(reg, p) ==
    [readable |-> TRUE, version |-> 1,
     streams |->
        LET here == StreamsAt(reg, p)
        IN  [i \in DOMAIN here |->
                [id |-> here[i].id, tier |-> here[i].tier, place |-> None, instances |-> None,
                 sources |-> InstanceOf(here[i], p).sources]],
     index |-> IndexAt(reg, p),
     directory |-> <<>>, owners |-> <<>>, platform |-> None]

-----------------------------------------------------------------------------
(* Resolving. *)

\* _select_owner_routing_key: what each level says of a scope, most specific first.
Match(level, p, name) == [level |-> level, place |-> p, name |-> name]
Candidates(reg, scope, stream) ==
    LET key(m) == IF m \in DOMAIN reg.owners THEN reg.owners[m] ELSE None
    IN  <<IF scope.group = None THEN None
          ELSE key(Match("consumer_group_owner", scope.place, scope.group)),
          key(Match("topic_owner", scope.place, scope.topic)),
          key(Match("stream_default_owner", scope.place, stream)),
          reg.platform>>

Owner(reg, scope, stream) == FirstKnown(Candidates(reg, scope, stream))

\* Fields of the sources of an instance that pass a test, in the order of the file.
Field(sources, Test(_), Get(_)) ==
    LET chosen == Subsequence(sources, {i \in DOMAIN sources : Test(sources[i])})
    IN  [i \in DOMAIN chosen |-> Get(chosen[i])]

\* _resolve_source_system
SourceSystem(entry, inst, topic) ==
    FirstKnown(<<entry.system>>
               \o Field(inst.sources, LAMBDA s : s.topic = topic, LAMBDA s : s.system)
               \o Field(inst.sources, LAMBDA s : TRUE, LAMBDA s : s.system))

\* _resolve_criticality_tier
Tier(stream, inst, topic, system) ==
    LET tier == FirstKnown(
            <<stream.tier>>
            \o Field(inst.sources, LAMBDA s : s.topic = topic, LAMBDA s : s.tier)
            \o Field(inst.sources, LAMBDA s : system # None /\ s.system = system, LAMBDA s : s.tier)
            \o Field(inst.sources, LAMBDA s : TRUE, LAMBDA s : s.tier))
    IN  IF tier = None THEN "UNKNOWN" ELSE tier

Unresolved(reason) == [status |-> "unresolved", reason |-> reason]

\* resolve_anomaly_scope, its early returns in their order.
Resolve(reg, scope) ==
    LET index == IndexAt(reg, scope.place)
        entry == index[scope.topic]
        streams == {s \in Elements(reg.streams) : s.id = entry.stream}
        stream == CHOOSE s \in streams : TRUE
        instances == {x \in Elements(stream.instances) : x.place = scope.place}
        inst == CHOOSE x \in instances : TRUE
        role == NormalRole[entry.role]
        system == SourceSystem(entry, inst, scope.topic)
        owner == Owner(reg, scope, stream.id)
    IN  IF scope.topic = None THEN Unresolved("invalid_scope_shape")
        ELSE IF At(reg.streams, scope.place) = {} THEN Unresolved("scope_not_found")
        ELSE IF scope.topic \notin DOMAIN index THEN Unresolved("topic_not_found")
        ELSE IF streams = {} THEN Unresolved("stream_not_found")
        ELSE IF instances = {} THEN Unresolved("stream_instance_not_found")
        ELSE IF role = None THEN Unresolved("UNSUPPORTED_TOPIC_ROLE")
        ELSE IF owner = None THEN Unresolved("owner_not_found")
        ELSE IF owner \notin reg.directory THEN Unresolved("routing_key_not_found")
        ELSE [status |-> "resolved", stream |-> stream.id, role |-> role,
              tier |-> Tier(stream, inst, scope.topic, system), system |-> system,
              blast |-> BlastRadius[role], owner |-> owner]

-----------------------------------------------------------------------------
(* What the file says itself, apart from how it is loaded and resolved. *)

\* Its streams that list the topic of a scope there, and its owners of the scope.
WrittenStreams(text, scope) ==
    IF Version(text) = 2
    THEN {s.id : s \in {s \in Elements(text.streams) : \E i \in Elements(s.instances) :
            i.place = scope.place /\ scope.topic \in DOMAIN i.index
            /\ i.index[scope.topic].role # "UNSUPPORTED"}}
    ELSE {s.id : s \in {s \in Elements(text.streams) :
            /\ scope.place = Home(s, DefaultPlace)
            /\ scope.topic \in DOMAIN text.index
            /\ text.index[scope.topic].stream = s.id
            /\ text.index[scope.topic].role # "UNSUPPORTED"}}
Specific(text, scope, stream) ==
    {o \in Elements(text.owners) :
        /\ o.match.place = scope.place
        /\ <<o.match.level, o.match.name>> \in {<<"consumer_group_owner", scope.group>>,
                <<"topic_owner", scope.topic>>, <<"stream_default_owner", stream>>}}
Rank == [consumer_group_owner |-> 1, topic_owner |-> 2, stream_default_owner |-> 3]

\* An answer of the resolver names the stream that lists the topic and its most specific
\* owner; there is none only when the file names no stream or no owner.
AsWritten(text, scope, answer) ==
    LET streams == WrittenStreams(text, scope)
        owners(s) == Specific(text, scope, s)
    IN  IF answer.status = "unresolved"
        THEN \A s \in streams : owners(s) = {} /\ text.platform = None
        ELSE /\ streams = {answer.stream}
             /\ IF owners(answer.stream) = {} THEN answer.owner = text.platform
                ELSE \E o \in owners(answer.stream) :
                        /\ answer.owner = o.key
                        /\ \A q \in owners(answer.stream) :
                            Rank[o.match.level] <= Rank[q.match.level]

\* The compatibility view of a place, loaded again, indexes the same topics.
CompatLoads(reg, p) ==
    LET view == CompatView(reg, p)
    IN  /\ ValidWith(view, p)
        /\ IndexAt(CanonicalWith(view, p), p) = IndexAt(reg, p)
=============================================================================
