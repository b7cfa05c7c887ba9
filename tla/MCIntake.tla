------------------------------ MODULE MCIntake ------------------------------
(* Model-checking instance of Intake: three registry files, what Prometheus may report, *)
(* and the histories over which the peak classification is compared.                   *)
EXTENDS Intake

V1Needs == [CONSUMER_LAG |-> {"lag", "offset"}, VOLUME_DROP |-> {"messages", "produce"}]

Seen(group, topic) == [place |-> "p1", group |-> group, topic |-> topic]
Rows(metrics, scope) == [metric: metrics, scope: {scope}]
\* Nothing; one group consuming two topics, a metric of both missing while a topic has all
\* of its own, or of one while a topic of a place whose env the contracts do not know has.
Reported ==
    {{},
     Rows({"lag"}, Seen("g1", "t1")) \cup Rows({"offset"}, Seen("g1", "t2"))
        \cup Rows({"messages", "produce"}, Seen(None, "t1")),
     Rows({"lag", "offset"}, Seen("g1", "t1")) \cup Rows({"offset"}, Seen("g1", "t2"))
        \cup Rows({"messages", "produce"}, [place |-> "p2", group |-> None, topic |-> "t3"])}

Entry(stream, role) == [stream |-> stream, role |-> role, system |-> None]
Source(topic, tier) == [topic |-> topic, system |-> "y1", tier |-> tier]
Owned(level, p, name, key) == [match |-> Match(level, p, name), key |-> key]
Deployed(p, index, sources) == [place |-> p, index |-> index, sources |-> sources]
Listed(id, tier, instances) ==
    [id |-> id, tier |-> tier, place |-> None, sources |-> <<>>, instances |-> instances]

\* The current format: one stream in two places, owners of three levels.
Current ==
    [readable |-> TRUE, version |-> 2, index |-> Empty,
     streams |-> <<Listed("s1", "TIER_0",
        <<Deployed("p1", [t1 |-> Entry(None, "SOURCE_TOPIC"), t2 |-> Entry("s1", "SHARED_TOPIC")],
                   <<Source("t1", None)>>),
          Deployed("p2", [t3 |-> Entry(None, "SINK_TOPIC")], <<>>)>>)>>,
     directory |-> <<"k1", "k2", "k3">>,
     owners |-> <<Owned("consumer_group_owner", "p1", "g1", "k1"), Owned("topic_owner", "p1", "t1", "k2"),
                  Owned("stream_default_owner", "p1", "s1", "k3"), Owned("topic_owner", "p2", "t3", "k2")>>,
     platform |-> None]

\* The legacy format: no version, one global index, a default place.
Legacy ==
    [readable |-> TRUE, version |-> None,
     index |-> [t1 |-> Entry("s1", "KAFKA_SOURCE_STREAM"), t2 |-> Entry("s2", "UNSUPPORTED")],
     streams |-> <<[Listed("s1", None, None) EXCEPT !.sources = <<Source("t1", "TIER_1")>>],
                   Listed("s2", None, None)>>,
     directory |-> <<"k1", "k2">>,
     owners |-> <<Owned("topic_owner", "p1", "t1", "k2")>>,
     platform |-> "k1"]

\* A file the loader refuses: a topic listed by two streams of a place.
TwiceListed ==
    [Current EXCEPT !.streams = @ \o
        <<Listed("s2", None, <<Deployed("p1", [t1 |-> Entry("s2", "SINK_TOPIC")], <<>>)>>)>>]

RegistryFiles == [current |-> Current, legacy |-> Legacy, twice |-> TwiceListed]

\* The percentiles of the policy are 90 and 95; smaller ones tell short histories apart.
PastVolumes == UNION {[1..n -> Volumes] : n \in 0..4}
=============================================================================
