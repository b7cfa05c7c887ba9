--------------------------- MODULE RegistryProofs ---------------------------
(***************************************************************************)
(* What loading and resolving make of a registry file, for every file of   *)
(* the expected shape, however many streams, places and owners it lists.   *)
(***************************************************************************)
EXTENDS Registry, FiniteSetTheorems, TLAPS

-----------------------------------------------------------------------------
(* Loading: the canonical streams say what the file says. *)

\* A stream of the canonical form lists a topic at a place.
Lists(streams, i, j, p, t) ==
    /\ i \in DOMAIN streams /\ j \in DOMAIN streams[i].instances
    /\ streams[i].instances[j].place = p
    /\ t \in DOMAIN streams[i].instances[j].index
EntryAt(streams, i, j, t) == streams[i].instances[j].index[t]

\* The loader refuses nothing in the format of the file.
Formatted(text) ==
    /\ text \in RegistryText
    /\ Version(text) \in {1, 2}
    /\ IF Version(text) = 2 THEN ~V1Problems(text) ELSE ~V0Problems(text)

LEMMA NoneDistinct ==
    /\ None \notin Places /\ None \notin Topics /\ None \notin Groups
    /\ None \notin Streams /\ None \notin Keys /\ None \notin DOMAIN BlastRadius
  BY RegistryAssumption

LEMMA TextFields ==
    ASSUME NEW text \in RegistryText
    PROVE  /\ text.index \in TopicIndex /\ text.streams \in Seq(StreamEntry)
           /\ text.directory \in Seq(Keys) /\ text.owners \in Seq(OwnerEntry)
           /\ text.platform \in Keys \cup {None}
           /\ DOMAIN text.streams = 1..Len(text.streams) /\ Len(text.streams) \in Nat
           /\ DOMAIN text.owners = 1..Len(text.owners) /\ Len(text.owners) \in Nat
           /\ \A i \in DOMAIN text.streams : text.streams[i] \in StreamEntry
           /\ \A i \in DOMAIN text.owners : text.owners[i] \in OwnerEntry
<1>1. /\ text.index \in TopicIndex /\ text.streams \in Seq(StreamEntry)
      /\ text.directory \in Seq(Keys) /\ text.owners \in Seq(OwnerEntry)
      /\ text.platform \in Keys \cup {None}
  BY DEF RegistryText, Optional
<1> QED
  BY <1>1

LEMMA IndexFacts ==
    ASSUME NEW index \in TopicIndex
    PROVE  /\ DOMAIN index \subseteq Topics
           /\ \A t \in DOMAIN index : index[t] \in IndexEntry
  BY DEF TopicIndex

LEMMA CanonicalDomain ==
    ASSUME NEW text, NEW default
    PROVE  /\ DOMAIN CanonicalStreams(text, default) = DOMAIN text.streams
           /\ \A i \in DOMAIN text.streams :
                CanonicalStreams(text, default)[i] =
                    IF Version(text) >= 2 THEN V1Stream(text.streams[i])
                    ELSE V0Stream(text, text.streams[i], default)
  BY DEF CanonicalStreams

(* A stream that lists its instances. *)
LEMMA V1Facts ==
    ASSUME NEW s \in StreamEntry, s.instances # None
    PROVE  /\ V1Stream(s).id = s.id
           /\ DOMAIN V1Stream(s).instances = DOMAIN s.instances
           /\ \A j \in DOMAIN s.instances :
                LET new == V1Stream(s).instances[j]
                    old == s.instances[j]
                IN  /\ new.place = old.place /\ DOMAIN new.index = DOMAIN old.index
                    /\ \A t \in DOMAIN old.index :
                        new.index[t] \in IndexEntry
                        /\ new.index[t].stream = s.id /\ new.index[t].role = old.index[t].role
<1>1. s.id \in Streams /\ s.instances \in Seq(InstanceEntry)
  BY DEF StreamEntry, Optional
<1>2. V1Stream(s).id = s.id
  BY DEF V1Stream
<1>3. V1Stream(s).instances = [i \in DOMAIN s.instances |->
            [s.instances[i] EXCEPT !.index = [t \in DOMAIN s.instances[i].index |->
                [s.instances[i].index[t] EXCEPT !.stream = s.id]]]]
  BY DEF V1Stream
<1>4. ASSUME NEW j \in DOMAIN s.instances
      PROVE  LET new == V1Stream(s).instances[j]
                 old == s.instances[j]
             IN  /\ new.place = old.place /\ DOMAIN new.index = DOMAIN old.index
                 /\ \A t \in DOMAIN old.index :
                     new.index[t] \in IndexEntry
                     /\ new.index[t].stream = s.id /\ new.index[t].role = old.index[t].role
  <2>1. s.instances[j] \in InstanceEntry
    BY <1>1
  <2>2. s.instances[j].index \in TopicIndex
    BY <2>1 DEF InstanceEntry
  <2>3. V1Stream(s).instances[j] =
            [s.instances[j] EXCEPT !.index = [t \in DOMAIN s.instances[j].index |->
                [s.instances[j].index[t] EXCEPT !.stream = s.id]]]
    BY <1>3
  <2>4. /\ V1Stream(s).instances[j].place = s.instances[j].place
        /\ V1Stream(s).instances[j].index = [t \in DOMAIN s.instances[j].index |->
                [s.instances[j].index[t] EXCEPT !.stream = s.id]]
    BY <2>1, <2>3 DEF InstanceEntry
  <2>5. ASSUME NEW t \in DOMAIN s.instances[j].index
        PROVE  /\ V1Stream(s).instances[j].index[t] \in IndexEntry
               /\ V1Stream(s).instances[j].index[t].stream = s.id
               /\ V1Stream(s).instances[j].index[t].role = s.instances[j].index[t].role
    <3>1. s.instances[j].index[t] \in IndexEntry
      BY <2>2, IndexFacts
    <3>2. V1Stream(s).instances[j].index[t] = [s.instances[j].index[t] EXCEPT !.stream = s.id]
      BY <2>4
    <3> QED
      BY <1>1, <3>1, <3>2 DEF IndexEntry, Optional
  <2> QED
    BY <2>4, <2>5
<1>5. DOMAIN V1Stream(s).instances = DOMAIN s.instances
  BY <1>3
<1> QED
  BY <1>2, <1>4, <1>5

(* A stream of the legacy format. *)
LEMMA V0Facts ==
    ASSUME NEW text \in RegistryText, NEW s \in StreamEntry, NEW default
    PROVE  LET new == V0Stream(text, s, default)
           IN  /\ new.id = s.id /\ DOMAIN new.instances = {1}
               /\ new.instances[1].place = Home(s, default)
               /\ \A t : t \in DOMAIN new.instances[1].index <=>
                            t \in DOMAIN text.index /\ text.index[t].stream = s.id
               /\ \A t \in DOMAIN new.instances[1].index :
                    /\ new.instances[1].index[t] = text.index[t]
                    /\ new.instances[1].index[t] \in IndexEntry
<1>1. V0Stream(text, s, default) =
        [id |-> s.id, tier |-> s.tier,
         instances |-> <<[place |-> Home(s, default),
                          index |-> [t \in {t \in DOMAIN text.index : text.index[t].stream = s.id}
                                        |-> text.index[t]],
                          sources |-> s.sources]>>]
  BY DEF V0Stream
<1>2. \A t \in DOMAIN text.index : text.index[t] \in IndexEntry
  BY TextFields, IndexFacts
<1> QED
  BY <1>1, <1>2

LEMMA CanonicalFacts ==
    ASSUME NEW text, Formatted(text), NEW default, NEW S, S = CanonicalStreams(text, default)
    PROVE  /\ DOMAIN S = DOMAIN text.streams
           /\ \A i \in DOMAIN S : S[i].id = text.streams[i].id /\ S[i].id \in Streams
           /\ \A i, j, p, t : Lists(S, i, j, p, t) =>
                /\ t \in Topics /\ EntryAt(S, i, j, t) \in IndexEntry
                /\ EntryAt(S, i, j, t).stream = S[i].id
<1>1. text \in RegistryText /\ Version(text) \in {1, 2}
  BY DEF Formatted
<1>2. DOMAIN S = DOMAIN text.streams
  BY CanonicalDomain
<1>3. ASSUME NEW i \in DOMAIN S
      PROVE  /\ S[i].id = text.streams[i].id /\ S[i].id \in Streams
             /\ \A j, p, t : Lists(S, i, j, p, t) =>
                  /\ t \in Topics /\ EntryAt(S, i, j, t) \in IndexEntry
                  /\ EntryAt(S, i, j, t).stream = S[i].id
  <2>1. text.streams[i] \in StreamEntry /\ text.streams[i].id \in Streams
    BY <1>1, <1>2, TextFields DEF StreamEntry
  <2>2. CASE Version(text) = 2
    <3>1. S[i] = V1Stream(text.streams[i])
      BY <1>2, <2>2, CanonicalDomain
    <3>2. text.streams[i].instances # None
      BY <1>2, <2>2 DEF Formatted, V1Problems, Elements
    <3>3. \A j \in DOMAIN text.streams[i].instances :
            DOMAIN text.streams[i].instances[j].index \subseteq Topics
      <4>1. text.streams[i].instances \in Seq(InstanceEntry)
        BY <2>1, <3>2 DEF StreamEntry, Optional
      <4>2. \A j \in DOMAIN text.streams[i].instances :
              text.streams[i].instances[j].index \in TopicIndex
        <5>1. \A j \in DOMAIN text.streams[i].instances :
                text.streams[i].instances[j] \in InstanceEntry
          BY <4>1
        <5> QED
          BY <5>1 DEF InstanceEntry
      <4> QED
        BY <4>2, IndexFacts
    <3> QED
      BY <2>1, <3>1, <3>2, <3>3, V1Facts DEF Lists, EntryAt
  <2>3. CASE Version(text) = 1
    <3>1. S[i] = V0Stream(text, text.streams[i], default)
      BY <1>2, <2>3, CanonicalDomain
    <3>2. /\ S[i].id = text.streams[i].id /\ DOMAIN S[i].instances = {1}
          /\ \A t : t \in DOMAIN S[i].instances[1].index <=>
                t \in DOMAIN text.index /\ text.index[t].stream = text.streams[i].id
          /\ \A t \in DOMAIN S[i].instances[1].index :
                /\ S[i].instances[1].index[t] = text.index[t]
                /\ S[i].instances[1].index[t] \in IndexEntry
      BY <1>1, <2>1, <3>1, V0Facts
    <3>3. DOMAIN text.index \subseteq Topics
      BY <1>1, TextFields, IndexFacts
    <3> QED
      BY <2>1, <3>2, <3>3 DEF Lists, EntryAt
  <2> QED
    BY <1>1, <2>2, <2>3
<1> QED
  BY <1>2, <1>3 DEF Lists

\* Some stream of that id lists the topic of a scope there, in a supported role.
Supported(S, scope, id) ==
    \E i, j : /\ Lists(S, i, j, scope.place, scope.topic) /\ id = S[i].id
              /\ EntryAt(S, i, j, scope.topic).role # "UNSUPPORTED"

(* The streams that the file says list a topic at a place are those of the canonical form *)
(* that do.                                                                               *)
LEMMA WrittenIsListed ==
    ASSUME NEW text, Formatted(text), NEW scope,
           NEW S, S = CanonicalStreams(text, DefaultPlace), NEW id
    PROVE  id \in WrittenStreams(text, scope) <=> Supported(S, scope, id)
<1>1. text \in RegistryText /\ Version(text) \in {1, 2}
  BY DEF Formatted
<1>2. DOMAIN S = DOMAIN text.streams /\ \A i \in DOMAIN S : S[i].id = text.streams[i].id
  BY CanonicalFacts
<1>3. \A i \in DOMAIN S : text.streams[i] \in StreamEntry
  BY <1>1, <1>2, TextFields
<1>4. CASE Version(text) = 2
  <2>1. ASSUME NEW i \in DOMAIN S
        PROVE  /\ DOMAIN S[i].instances = DOMAIN text.streams[i].instances
               /\ \A j \in DOMAIN S[i].instances :
                    LET new == S[i].instances[j]
                        old == text.streams[i].instances[j]
                    IN  /\ new.place = old.place /\ DOMAIN new.index = DOMAIN old.index
                        /\ \A t \in DOMAIN old.index : new.index[t].role = old.index[t].role
    <3>1. S[i] = V1Stream(text.streams[i])
      BY <1>2, <1>4, CanonicalDomain
    <3>2. text.streams[i].instances # None
      BY <1>2, <1>4 DEF Formatted, V1Problems, Elements
    <3> QED
      BY <1>3, <3>1, <3>2, V1Facts
  <2>2. id \in WrittenStreams(text, scope) <=>
          \E i \in DOMAIN S : id = S[i].id /\ \E j \in DOMAIN text.streams[i].instances :
            LET old == text.streams[i].instances[j]
            IN  /\ old.place = scope.place /\ scope.topic \in DOMAIN old.index
                /\ old.index[scope.topic].role # "UNSUPPORTED"
    BY <1>2, <1>4 DEF WrittenStreams, Elements
  <2> QED
    BY <2>1, <2>2 DEF Supported, Lists, EntryAt
<1>5. CASE Version(text) = 1
  <2>1. ASSUME NEW i \in DOMAIN S
        PROVE  /\ DOMAIN S[i].instances = {1}
               /\ S[i].instances[1].place = Home(text.streams[i], DefaultPlace)
               /\ \A t : t \in DOMAIN S[i].instances[1].index <=>
                        t \in DOMAIN text.index /\ text.index[t].stream = text.streams[i].id
               /\ \A t \in DOMAIN S[i].instances[1].index :
                        S[i].instances[1].index[t] = text.index[t]
    <3>1. S[i] = V0Stream(text, text.streams[i], DefaultPlace)
      BY <1>2, <1>5, CanonicalDomain
    <3> QED
      BY <1>1, <1>3, <3>1, V0Facts
  <2>2. id \in WrittenStreams(text, scope) <=>
          \E i \in DOMAIN S : /\ id = S[i].id
            /\ scope.place = Home(text.streams[i], DefaultPlace)
            /\ scope.topic \in DOMAIN text.index
            /\ text.index[scope.topic].stream = text.streams[i].id
            /\ text.index[scope.topic].role # "UNSUPPORTED"
    BY <1>2, <1>5 DEF WrittenStreams, Elements
  <2> QED
    BY <2>1, <2>2 DEF Supported, Lists, EntryAt
<1> QED
  BY <1>1, <1>4, <1>5

(* The positions of the instances at a place. *)
LEMMA AtFacts ==
    ASSUME NEW S, NEW p
    PROVE  /\ \A i, j : <<i, j>> \in At(S, p) <=>
                i \in DOMAIN S /\ j \in DOMAIN S[i].instances /\ S[i].instances[j].place = p
           /\ \A x \in At(S, p) : x = <<x[1], x[2]>>
           /\ \A x, t : x \in At(S, p) =>
                (t \in DOMAIN Placed(S, x).index <=> Lists(S, x[1], x[2], p, t))
<1>1. \A x : x \in At(S, p) <=>
        \E i \in DOMAIN S : \E j \in DOMAIN S[i].instances :
            x = <<i, j>> /\ S[x[1]].instances[x[2]].place = p
  BY DEF At
<1> QED
  BY <1>1 DEF Placed, Lists

(* The checks leave no two streams of one id and no topic listed twice at a place. *)
LEMMA UniqueStreams ==
    ASSUME NEW S, ~StreamProblems(S)
    PROVE  /\ \A i, j \in DOMAIN S : S[i].id = S[j].id => i = j
           /\ \A i, j, k, l, t : \A p \in Places :
                Lists(S, i, j, p, t) /\ Lists(S, k, l, p, t) => i = k /\ j = l
<1>1. \A i, j \in DOMAIN S : S[i].id = S[j].id => i = j
  BY DEF StreamProblems, Repeats
<1>2. ASSUME NEW i, NEW j, NEW k, NEW l, NEW t, NEW p \in Places,
             Lists(S, i, j, p, t), Lists(S, k, l, p, t)
      PROVE  i = k /\ j = l
  <2>1. <<i, j>> \in At(S, p) /\ <<k, l>> \in At(S, p)
    BY <1>2, AtFacts DEF Lists
  <2>2. t \in DOMAIN Placed(S, <<i, j>>).index /\ t \in DOMAIN Placed(S, <<k, l>>).index
    BY <1>2 DEF Lists, Placed
  <2>3. \A x, y \in At(S, p) :
          x # y => DOMAIN Placed(S, x).index \cap DOMAIN Placed(S, y).index = {}
    BY DEF StreamProblems
  <2>4. <<i, j>> = <<k, l>>
    BY <2>1, <2>2, <2>3
  <2> QED
    BY <2>4
<1> QED
  BY <1>1, <1>2

-----------------------------------------------------------------------------
(* Resolving: the owner. *)

LEMMA FirstOfOne ==
    ASSUME NEW s, NEW i \in Int, NEW at, at = {i}
    PROVE  First(s, at) = s[i]
<1>1. (CHOOSE k \in at : \A j \in at : k <= j) = i
  <2>1. i \in at /\ \A j \in at : i <= j
    OBVIOUS
  <2>2. \A k \in at : k = i
    OBVIOUS
  <2> QED
    BY <2>1, <2>2
<1> QED
  BY <1>1 DEF First

LEMMA FirstKnownOfFour ==
    ASSUME NEW a, NEW b, NEW c, NEW d, NEW s, s = <<a, b, c, d>>
    PROVE  FirstKnown(s) = IF a # None THEN a ELSE IF b # None THEN b
                           ELSE IF c # None THEN c ELSE d
<1> DEFINE known == {i \in 1..4 : s[i] # None}
           least == CHOOSE i \in known : \A j \in known : i <= j
<1>1. DOMAIN s = 1..4 /\ s[1] = a /\ s[2] = b /\ s[3] = c /\ s[4] = d
  OBVIOUS
<1>2. FirstKnown(s) = IF known = {} THEN None ELSE s[least]
  BY <1>1 DEF FirstKnown, First
<1>3. ASSUME NEW k \in known, \A j \in known : k <= j PROVE FirstKnown(s) = s[k]
  <2>1. least \in known /\ \A j \in known : least <= j
    BY <1>3
  <2>2. least = k
    BY <1>3, <2>1
  <2> QED
    BY <1>2, <1>3, <2>2
<1> HIDE DEF least
<1>4. CASE a # None
  <2>1. 1 \in known /\ \A j \in known : 1 <= j
    BY <1>1, <1>4
  <2> QED
    BY <1>1, <1>3, <1>4, <2>1
<1>5. CASE a = None /\ b # None
  <2>1. 2 \in known /\ \A j \in known : 2 <= j
    BY <1>1, <1>5
  <2> QED
    BY <1>1, <1>3, <1>5, <2>1
<1>6. CASE a = None /\ b = None /\ c # None
  <2>1. 3 \in known /\ \A j \in known : 3 <= j
    BY <1>1, <1>6
  <2> QED
    BY <1>1, <1>3, <1>6, <2>1
<1>7. CASE a = None /\ b = None /\ c = None /\ d # None
  <2>1. 4 \in known /\ \A j \in known : 4 <= j
    BY <1>1, <1>7
  <2> QED
    BY <1>1, <1>3, <1>7, <2>1
<1>8. CASE a = None /\ b = None /\ c = None /\ d = None
  <2>1. known = {}
    BY <1>1, <1>8
  <2> QED
    BY <1>2, <1>8, <2>1
<1> QED
  BY <1>4, <1>5, <1>6, <1>7, <1>8

(* The lookup table gives every match of the file the key of its one entry. *)
LEMMA OwnerTableFacts ==
    ASSUME NEW text \in RegistryText, ~OwnershipProblems(text)
    PROVE  /\ \A m : m \in DOMAIN OwnerTable(text) <=>
                        \E i \in DOMAIN text.owners : text.owners[i].match = m
           /\ \A i \in DOMAIN text.owners :
                /\ OwnerTable(text)[text.owners[i].match] = text.owners[i].key
                /\ text.owners[i].key \in Elements(text.directory)
           /\ text.platform # None => text.platform \in Elements(text.directory)
<1>1. \A i, j \in DOMAIN text.owners : text.owners[i].match = text.owners[j].match => i = j
  BY DEF OwnershipProblems, Repeats
<1>2. \A i \in DOMAIN text.owners : text.owners[i].key \in Keys /\ i \in Int
  BY TextFields DEF OwnerEntry
<1>3. \A m : m \in DOMAIN OwnerTable(text) <=>
                \E i \in DOMAIN text.owners : text.owners[i].match = m
  BY DEF OwnerTable, Elements
<1>4. ASSUME NEW i \in DOMAIN text.owners
      PROVE  OwnerTable(text)[text.owners[i].match] = text.owners[i].key
  <2> DEFINE m == text.owners[i].match
             at == {j \in DOMAIN text.owners : text.owners[j].match = m}
  <2>1. m \in {o.match : o \in Elements(text.owners)}
    BY DEF Elements
  <2>2. OwnerTable(text)[m] = First(text.owners, at).key
    BY <2>1 DEF OwnerTable
  <2>3. at = {i}
    BY <1>1
  <2>4. First(text.owners, at) = text.owners[i]
    BY <1>2, <2>3, FirstOfOne
  <2> QED
    BY <2>2, <2>4
<1>5. ({o.key : o \in Elements(text.owners)} \cup {text.platform}) \ {None}
         \subseteq Elements(text.directory)
  BY DEF OwnershipProblems
<1>6. \A i \in DOMAIN text.owners : text.owners[i].key \in Elements(text.directory)
  <2> SUFFICES ASSUME NEW i \in DOMAIN text.owners
               PROVE  text.owners[i].key \in Elements(text.directory)
    OBVIOUS
  <2>1. text.owners[i].key \in {o.key : o \in Elements(text.owners)}
    BY DEF Elements
  <2>2. text.owners[i].key # None
    BY <1>2, NoneDistinct
  <2> QED
    BY <1>5, <2>1, <2>2
<1>7. text.platform # None => text.platform \in Elements(text.directory)
  BY <1>5
<1> QED
  BY <1>3, <1>4, <1>6, <1>7

\* What the resolver must make of the owners that a file writes down for a scope.
OwnedAsWritten(text, scope, stream, owner) ==
    IF Specific(text, scope, stream) = {} THEN owner = text.platform
    ELSE \E o \in Specific(text, scope, stream) :
            /\ owner = o.key
            /\ \A q \in Specific(text, scope, stream) : Rank[o.match.level] <= Rank[q.match.level]

LEMMA RankFacts ==
    /\ Rank["consumer_group_owner"] = 1 /\ Rank["topic_owner"] = 2
    /\ Rank["stream_default_owner"] = 3
  BY DEF Rank

LEMMA OwnerAsWritten ==
    ASSUME NEW text \in RegistryText, ~OwnershipProblems(text), NEW scope \in Scope,
           scope.topic # None, NEW stream \in Streams, NEW reg,
           reg.owners = OwnerTable(text), reg.platform = text.platform,
           NEW owner, owner = Owner(reg, scope, stream)
    PROVE  /\ OwnedAsWritten(text, scope, stream, owner)
           /\ owner = None => Specific(text, scope, stream) = {} /\ text.platform = None
           /\ owner # None => owner \in Elements(text.directory)
<1> DEFINE m1 == Match("consumer_group_owner", scope.place, scope.group)
           m2 == Match("topic_owner", scope.place, scope.topic)
           m3 == Match("stream_default_owner", scope.place, stream)
           key(m) == IF m \in DOMAIN reg.owners THEN reg.owners[m] ELSE None
           a == IF scope.group = None THEN None ELSE key(m1)
           b == key(m2)
           c == key(m3)
           d == text.platform
           written == Specific(text, scope, stream)
<1>1. owner = FirstKnown(<<a, b, c, d>>)
  BY DEF Owner, Candidates
<1>2. owner = IF a # None THEN a ELSE IF b # None THEN b ELSE IF c # None THEN c ELSE d
  <2>1. PICK v, w, x, y : v = a /\ w = b /\ x = c /\ y = d
    OBVIOUS
  <2>2. owner = FirstKnown(<<v, w, x, y>>)
    BY <1>1, <2>1
  <2>3. owner = IF v # None THEN v ELSE IF w # None THEN w ELSE IF x # None THEN x ELSE y
    BY <2>2, FirstKnownOfFour
  <2> QED
    BY <2>1, <2>3
<1>3. ASSUME NEW i \in DOMAIN text.owners
      PROVE  /\ text.owners[i].match \in
                    [level: Level, place: Places, name: Groups \cup Topics \cup Streams]
             /\ text.owners[i].key \in Keys /\ text.owners[i].key # None
             /\ key(text.owners[i].match) = text.owners[i].key
             /\ text.owners[i].key \in Elements(text.directory)
  <2>1. text.owners[i] \in OwnerEntry
    BY TextFields
  <2>2. /\ text.owners[i].match \in DOMAIN reg.owners
        /\ reg.owners[text.owners[i].match] = text.owners[i].key
        /\ text.owners[i].key \in Elements(text.directory)
    BY OwnerTableFacts
  <2> QED
    BY <2>1, <2>2, NoneDistinct DEF OwnerEntry
<1>4. ASSUME NEW m, key(m) # None
      PROVE  \E i \in DOMAIN text.owners : text.owners[i].match = m /\ key(m) = text.owners[i].key
  <2>1. m \in DOMAIN OwnerTable(text)
    BY <1>4
  <2>2. PICK i \in DOMAIN text.owners : text.owners[i].match = m
    BY <2>1, OwnerTableFacts
  <2> QED
    BY <1>3, <2>2
<1>5. /\ m1 = [level |-> "consumer_group_owner", place |-> scope.place, name |-> scope.group]
      /\ m2 = [level |-> "topic_owner", place |-> scope.place, name |-> scope.topic]
      /\ m3 = [level |-> "stream_default_owner", place |-> scope.place, name |-> stream]
  BY DEF Match
<1> HIDE DEF key, m1, m2, m3
<1>6. ASSUME NEW o \in written
      PROVE  /\ (o.match = m1 /\ scope.group # None) \/ o.match = m2 \/ o.match = m3
             /\ key(o.match) = o.key /\ o.key # None
  <2>1. PICK i \in DOMAIN text.owners : o = text.owners[i]
    BY DEF Specific, Elements
  <2>2. /\ o.match.place = scope.place
        /\ \/ o.match.level = "consumer_group_owner" /\ o.match.name = scope.group
           \/ o.match.level = "topic_owner" /\ o.match.name = scope.topic
           \/ o.match.level = "stream_default_owner" /\ o.match.name = stream
    BY DEF Specific
  <2>3. o.match \in [level: Level, place: Places, name: Groups \cup Topics \cup Streams]
    BY <1>3, <2>1
  <2>4. o.match.name # None
    BY <2>3, NoneDistinct
  <2>5. o.match = [level |-> o.match.level, place |-> o.match.place, name |-> o.match.name]
    BY <2>3
  <2> QED
    BY <1>3, <1>5, <2>1, <2>2, <2>4, <2>5
<1>7. ASSUME NEW i \in DOMAIN text.owners,
             text.owners[i].match = m1 \/ text.owners[i].match = m2 \/ text.owners[i].match = m3
      PROVE  text.owners[i] \in written
  BY <1>5, <1>7 DEF Specific, Elements
<1>8. m1.level = "consumer_group_owner" /\ m2.level = "topic_owner"
      /\ m3.level = "stream_default_owner"
  BY <1>5
<1>9. ASSUME NEW m \in {m1, m2, m3}, key(m) # None
      PROVE  \E o \in written : o.match = m /\ key(m) = o.key /\ o.key \in Elements(text.directory)
  <2>1. PICK i \in DOMAIN text.owners : text.owners[i].match = m /\ key(m) = text.owners[i].key
    BY <1>4, <1>9
  <2>2. text.owners[i] \in written
    BY <1>7, <1>9, <2>1
  <2> QED
    BY <1>3, <2>1, <2>2
<1> HIDE DEF written
<1>10. CASE a # None
  <2>1. scope.group # None /\ key(m1) # None /\ owner = key(m1)
    BY <1>2, <1>10
  <2>2. PICK o \in written : o.match = m1 /\ key(m1) = o.key /\ o.key \in Elements(text.directory)
    BY <1>9, <2>1
  <2>3. ASSUME NEW q \in written PROVE Rank[o.match.level] <= Rank[q.match.level]
    BY <1>6, <1>8, <2>2, RankFacts
  <2> QED
    BY <2>1, <2>2, <2>3 DEF OwnedAsWritten, written
<1>11. CASE a = None /\ b # None
  <2>1. key(m2) # None /\ owner = key(m2)
    BY <1>2, <1>11
  <2>2. PICK o \in written : o.match = m2 /\ key(m2) = o.key /\ o.key \in Elements(text.directory)
    BY <1>9, <2>1
  <2>3. ASSUME NEW q \in written PROVE Rank[o.match.level] <= Rank[q.match.level]
    <3>1. q.match = m2 \/ q.match = m3
      BY <1>6, <1>11
    <3> QED
      BY <1>8, <2>2, <3>1, RankFacts
  <2> QED
    BY <2>1, <2>2, <2>3 DEF OwnedAsWritten, written
<1>12. CASE a = None /\ b = None /\ c # None
  <2>1. key(m3) # None /\ owner = key(m3)
    BY <1>2, <1>12
  <2>2. PICK o \in written : o.match = m3 /\ key(m3) = o.key /\ o.key \in Elements(text.directory)
    BY <1>9, <2>1
  <2>3. ASSUME NEW q \in written PROVE Rank[o.match.level] <= Rank[q.match.level]
    <3>1. q.match = m3
      BY <1>6, <1>12
    <3> QED
      BY <1>8, <2>2, <3>1, RankFacts
  <2> QED
    BY <2>1, <2>2, <2>3 DEF OwnedAsWritten, written
<1>13. CASE a = None /\ b = None /\ c = None
  <2>1. owner = text.platform
    BY <1>2, <1>13
  <2>2. written = {}
    BY <1>6, <1>13
  <2>3. owner # None => owner \in Elements(text.directory)
    BY <2>1, OwnerTableFacts
  <2> QED
    BY <2>1, <2>2, <2>3 DEF OwnedAsWritten, written
<1> QED
  BY <1>10, <1>11, <1>12, <1>13

-----------------------------------------------------------------------------
(* Resolving: the stream, and the answer. *)

LEMMA IndexAtFacts ==
    ASSUME NEW reg, ~StreamProblems(reg.streams), NEW p \in Places
    PROVE  /\ \A t : t \in DOMAIN IndexAt(reg, p) <=> \E i, j : Lists(reg.streams, i, j, p, t)
           /\ \A i, j, t : Lists(reg.streams, i, j, p, t) =>
                IndexAt(reg, p)[t] = EntryAt(reg.streams, i, j, t)
<1> SUFFICES ASSUME NEW S, S = reg.streams
             PROVE  /\ \A t : t \in DOMAIN IndexAt(reg, p) <=> \E i, j : Lists(S, i, j, p, t)
                    /\ \A i, j, t : Lists(S, i, j, p, t) =>
                            IndexAt(reg, p)[t] = EntryAt(S, i, j, t)
  OBVIOUS
<1>1. ASSUME NEW t
      PROVE  t \in DOMAIN IndexAt(reg, p) <=> \E x \in At(S, p) : t \in DOMAIN Placed(S, x).index
  BY DEF IndexAt
<1>2. ASSUME NEW t
      PROVE  (\E x \in At(S, p) : t \in DOMAIN Placed(S, x).index) <=> \E i, j : Lists(S, i, j, p, t)
  <2>1. ASSUME NEW x \in At(S, p), t \in DOMAIN Placed(S, x).index
        PROVE  \E i, j : Lists(S, i, j, p, t)
    BY <2>1, AtFacts
  <2>2. ASSUME NEW i, NEW j, Lists(S, i, j, p, t)
        PROVE  \E x \in At(S, p) : t \in DOMAIN Placed(S, x).index
    <3>1. <<i, j>> \in At(S, p) /\ t \in DOMAIN Placed(S, <<i, j>>).index
      BY <2>2, AtFacts DEF Lists, Placed
    <3> QED
      BY <3>1
  <2> QED
    BY <2>1, <2>2
<1>3. ASSUME NEW i, NEW j, NEW t, Lists(S, i, j, p, t)
      PROVE  IndexAt(reg, p)[t] = EntryAt(S, i, j, t)
  <2> DEFINE x == CHOOSE x \in At(S, p) : t \in DOMAIN Placed(S, x).index
  <2>1. \E y \in At(S, p) : t \in DOMAIN Placed(S, y).index
    BY <1>2, <1>3
  <2>2. IndexAt(reg, p)[t] = Placed(S, x).index[t]
    BY <1>1, <2>1 DEF IndexAt
  <2>3. x \in At(S, p) /\ t \in DOMAIN Placed(S, x).index
    BY <2>1
  <2> HIDE DEF x
  <2>4. Lists(S, x[1], x[2], p, t)
    BY <2>3, AtFacts
  <2>5. x[1] = i /\ x[2] = j
    BY <1>3, <2>4, UniqueStreams
  <2> QED
    BY <2>2, <2>5 DEF Placed, EntryAt
<1> QED
  BY <1>1, <1>2, <1>3

LEMMA RoleFacts ==
    ASSUME NEW role \in RawRole
    PROVE  NormalRole[role] = None <=> role = "UNSUPPORTED"
<1>1. None \notin {"SOURCE_TOPIC", "SHARED_TOPIC", "SINK_TOPIC"}
  BY NoneDistinct DEF BlastRadius
<1> QED
  BY <1>1 DEF NormalRole, RawRole

\* A registry made of a file that the loader accepts.
Registered(text, reg) ==
    /\ text \in RegistryText /\ Valid(text) /\ reg = Canonical(text)

LEMMA RegisteredFacts ==
    ASSUME NEW text, NEW reg, Registered(text, reg)
    PROVE  /\ text \in RegistryText /\ Formatted(text)
           /\ reg.streams = CanonicalStreams(text, DefaultPlace) /\ ~StreamProblems(reg.streams)
           /\ ~OwnershipProblems(text) /\ reg.owners = OwnerTable(text)
           /\ reg.platform = text.platform /\ reg.directory = Elements(text.directory)
<1>1. /\ reg.streams = CanonicalStreams(text, DefaultPlace) /\ reg.owners = OwnerTable(text)
      /\ reg.platform = text.platform /\ reg.directory = Elements(text.directory)
  BY DEF Registered, Canonical, CanonicalWith
<1>2. /\ ~StreamProblems(CanonicalStreams(text, DefaultPlace)) /\ ~OwnershipProblems(text)
      /\ Formatted(text)
  BY DEF Registered, Valid, ValidWith, Formatted
<1> QED
  BY <1>1, <1>2 DEF Registered

(* A scope whose topic no stream lists there is not resolved. *)
LEMMA ResolveUnlisted ==
    ASSUME NEW text, NEW reg, Registered(text, reg), NEW scope \in Scope,
           \A i, j : ~Lists(reg.streams, i, j, scope.place, scope.topic)
    PROVE  Resolve(reg, scope).status = "unresolved"
<1>1. scope.place \in Places
  BY DEF Scope
<1>2. scope.topic \notin DOMAIN IndexAt(reg, scope.place)
  BY <1>1, RegisteredFacts, IndexAtFacts
<1> QED
  BY <1>2 DEF Resolve, Unresolved

(* For a listed scope the early returns left are those of the role and the owner. *)
LEMMA ResolveListed ==
    ASSUME NEW text, NEW reg, Registered(text, reg), NEW scope \in Scope, NEW i, NEW j,
           Lists(reg.streams, i, j, scope.place, scope.topic),
           NEW owner, owner = Owner(reg, scope, reg.streams[i].id), NEW answer,
           answer = Resolve(reg, scope)
    PROVE  /\ \/ EntryAt(reg.streams, i, j, scope.topic).role = "UNSUPPORTED"
              \/ owner = None \/ owner \notin reg.directory
              => answer.status = "unresolved"
           /\ /\ EntryAt(reg.streams, i, j, scope.topic).role # "UNSUPPORTED"
              /\ owner # None /\ owner \in reg.directory
              => /\ answer.status = "resolved" /\ answer.stream = reg.streams[i].id
                 /\ answer.owner = owner
<1> SUFFICES ASSUME NEW S, S = reg.streams, NEW p, p = scope.place, NEW t, t = scope.topic,
                    Lists(S, i, j, p, t)
             PROVE  /\ EntryAt(S, i, j, t).role = "UNSUPPORTED"
                       \/ owner = None \/ owner \notin reg.directory
                       => answer.status = "unresolved"
                    /\ /\ EntryAt(S, i, j, t).role # "UNSUPPORTED"
                       /\ owner # None /\ owner \in reg.directory
                       => /\ answer.status = "resolved" /\ answer.stream = S[i].id
                          /\ answer.owner = owner
  OBVIOUS
<1> DEFINE index == IndexAt(reg, p)
           entry == index[t]
           streams == {s \in Elements(S) : s.id = entry.stream}
           stream == CHOOSE s \in streams : TRUE
           instances == {x \in Elements(stream.instances) : x.place = p}
           inst == CHOOSE x \in instances : TRUE
           role == NormalRole[entry.role]
           system == SourceSystem(entry, inst, t)
<1>1. /\ p \in Places /\ ~StreamProblems(S) /\ Formatted(text)
      /\ S = CanonicalStreams(text, DefaultPlace)
  BY RegisteredFacts DEF Scope
<1>2. i \in DOMAIN S /\ j \in DOMAIN S[i].instances /\ S[i].instances[j].place = p
  BY DEF Lists
<1>3. t \in DOMAIN index /\ entry = EntryAt(S, i, j, t)
  <2>1. ~StreamProblems(reg.streams) /\ p \in Places
    BY <1>1
  <2>2. /\ \A u : u \in DOMAIN IndexAt(reg, p) <=> \E k, l : Lists(reg.streams, k, l, p, u)
        /\ \A k, l, u : Lists(reg.streams, k, l, p, u) =>
                IndexAt(reg, p)[u] = EntryAt(reg.streams, k, l, u)
    BY <2>1, IndexAtFacts, Zenon
  <2> QED
    BY <2>2
<1>4. t \in Topics /\ entry \in IndexEntry /\ entry.stream = S[i].id
  BY <1>1, <1>3, CanonicalFacts
<1>5. t # None /\ (role = None <=> entry.role = "UNSUPPORTED")
  BY <1>4, NoneDistinct, RoleFacts DEF IndexEntry
<1>6. At(S, p) # {}
  <2>1. <<i, j>> \in At(S, p)
    BY <1>2, AtFacts
  <2> QED
    BY <2>1
<1>7. streams = {S[i]}
  BY <1>1, <1>2, <1>4, UniqueStreams DEF Elements
<1>8. stream = S[i] /\ streams # {}
  BY <1>7
<1>9. instances # {}
  BY <1>2, <1>8 DEF Elements
<1>10. answer =
         IF t = None THEN Unresolved("invalid_scope_shape")
         ELSE IF At(S, p) = {} THEN Unresolved("scope_not_found")
         ELSE IF t \notin DOMAIN index THEN Unresolved("topic_not_found")
         ELSE IF streams = {} THEN Unresolved("stream_not_found")
         ELSE IF instances = {} THEN Unresolved("stream_instance_not_found")
         ELSE IF role = None THEN Unresolved("UNSUPPORTED_TOPIC_ROLE")
         ELSE IF Owner(reg, scope, stream.id) = None THEN Unresolved("owner_not_found")
         ELSE IF Owner(reg, scope, stream.id) \notin reg.directory
              THEN Unresolved("routing_key_not_found")
         ELSE [status |-> "resolved", stream |-> stream.id, role |-> role,
               tier |-> Tier(stream, inst, t, system), system |-> system,
               blast |-> BlastRadius[role], owner |-> Owner(reg, scope, stream.id)]
  BY Zenon DEF Resolve
<1> HIDE DEF index, entry, streams, stream, instances, inst, role, system
<1>11. answer =
         IF role = None THEN Unresolved("UNSUPPORTED_TOPIC_ROLE")
         ELSE IF owner = None THEN Unresolved("owner_not_found")
         ELSE IF owner \notin reg.directory THEN Unresolved("routing_key_not_found")
         ELSE [status |-> "resolved", stream |-> stream.id, role |-> role,
               tier |-> Tier(stream, inst, t, system), system |-> system,
               blast |-> BlastRadius[role], owner |-> owner]
  BY <1>3, <1>5, <1>6, <1>8, <1>9, <1>10
<1> QED
  BY <1>3, <1>5, <1>8, <1>11 DEF Unresolved

\* The answer for a topic that stream i lists in its instance j: of a supported role and
\* owned it is resolved, and the owner is a key of the directory.
Answered(text, reg, scope, i, j) ==
    LET id == reg.streams[i].id
        owner == Owner(reg, scope, id)
        answer == Resolve(reg, scope)
    IN  /\ OwnedAsWritten(text, scope, id, owner)
        /\ owner = None => Specific(text, scope, id) = {} /\ text.platform = None
        /\ owner # None => owner \in Elements(text.directory)
        /\ IF EntryAt(reg.streams, i, j, scope.topic).role = "UNSUPPORTED" \/ owner = None
           THEN answer.status = "unresolved"
           ELSE answer.status = "resolved" /\ answer.stream = id /\ answer.owner = owner

LEMMA ResolveOwned ==
    ASSUME NEW text, NEW reg, Registered(text, reg), NEW scope \in Scope, NEW i, NEW j,
           Lists(reg.streams, i, j, scope.place, scope.topic)
    PROVE  Answered(text, reg, scope, i, j)
<1>0. PICK owner, answer :
        owner = Owner(reg, scope, reg.streams[i].id) /\ answer = Resolve(reg, scope)
  OBVIOUS
<1>1. /\ text \in RegistryText /\ Formatted(text) /\ ~OwnershipProblems(text)
      /\ reg.streams = CanonicalStreams(text, DefaultPlace)
      /\ reg.owners = OwnerTable(text) /\ reg.platform = text.platform
      /\ reg.directory = Elements(text.directory)
  BY RegisteredFacts
<1>2. scope.topic \in Topics /\ reg.streams[i].id \in Streams
  BY <1>1, CanonicalFacts DEF Lists
<1>3. scope.topic # None
  BY <1>2, NoneDistinct
<1>4. /\ OwnedAsWritten(text, scope, reg.streams[i].id, owner)
      /\ owner = None => Specific(text, scope, reg.streams[i].id) = {} /\ text.platform = None
      /\ owner # None => owner \in Elements(text.directory)
  BY <1>0, <1>1, <1>2, <1>3, OwnerAsWritten
<1>5. /\ \/ EntryAt(reg.streams, i, j, scope.topic).role = "UNSUPPORTED"
         \/ owner = None \/ owner \notin reg.directory
         => answer.status = "unresolved"
      /\ /\ EntryAt(reg.streams, i, j, scope.topic).role # "UNSUPPORTED"
         /\ owner # None /\ owner \in reg.directory
         => /\ answer.status = "resolved" /\ answer.stream = reg.streams[i].id
            /\ answer.owner = owner
  BY <1>0, ResolveListed
<1> QED
  BY <1>0, <1>1, <1>4, <1>5 DEF Answered

(* resolve_anomaly_scope, asked about any scope of a registry that the loader accepted,    *)
(* answers with the one stream whose entry lists the topic at the place and with the owner *)
(* that the file names most specifically, the platform default when it names none, and     *)
(* refuses only when the file has no such stream or no such owner.                         *)
THEOREM ResolvedAsWritten ==
    ASSUME NEW text \in RegistryText, Valid(text), NEW scope \in Scope
    PROVE  AsWritten(text, scope, Resolve(Canonical(text), scope))
<1>1. PICK reg : reg = Canonical(text) /\ Registered(text, reg)
  BY DEF Registered
<1>2. PICK answer : answer = Resolve(reg, scope)
  OBVIOUS
<1>3. PICK S : S = reg.streams
  OBVIOUS
<1>4. /\ Formatted(text) /\ S = CanonicalStreams(text, DefaultPlace) /\ ~StreamProblems(S)
      /\ scope.place \in Places
  BY <1>1, <1>3, RegisteredFacts DEF Scope
<1>5. \A id : id \in WrittenStreams(text, scope) <=>
         \E i, j : /\ Lists(S, i, j, scope.place, scope.topic) /\ id = S[i].id
                   /\ EntryAt(S, i, j, scope.topic).role # "UNSUPPORTED"
  <2>1. \A id : id \in WrittenStreams(text, scope) <=> Supported(S, scope, id)
    BY <1>4, WrittenIsListed
  <2> QED
    BY <2>1 DEF Supported
<1>6. CASE \A i, j : ~Lists(S, i, j, scope.place, scope.topic)
  <2>1. answer.status = "unresolved"
    BY <1>1, <1>2, <1>3, <1>6, ResolveUnlisted
  <2>2. WrittenStreams(text, scope) = {}
    BY <1>5, <1>6
  <2> QED
    BY <1>1, <1>2, <2>1, <2>2 DEF AsWritten
<1>7. CASE \E i, j : Lists(S, i, j, scope.place, scope.topic)
  <2>1. PICK i, j : Lists(S, i, j, scope.place, scope.topic)
    BY <1>7
  <2>2. PICK owner, id : owner = Owner(reg, scope, S[i].id) /\ id = S[i].id
    OBVIOUS
  <2>3. \A k, l : Lists(S, k, l, scope.place, scope.topic) => k = i /\ l = j
    BY <1>4, <2>1, UniqueStreams
  <2>4. /\ OwnedAsWritten(text, scope, id, owner)
        /\ owner = None => Specific(text, scope, id) = {} /\ text.platform = None
        /\ IF EntryAt(S, i, j, scope.topic).role = "UNSUPPORTED" \/ owner = None
           THEN answer.status = "unresolved"
           ELSE /\ answer.status = "resolved" /\ answer.stream = id
                /\ answer.owner = owner
    <3>1. Answered(text, reg, scope, i, j)
      BY <1>1, <1>3, <2>1, ResolveOwned
    <3> QED
      BY <1>2, <1>3, <2>2, <3>1 DEF Answered
  <2>5. CASE EntryAt(S, i, j, scope.topic).role = "UNSUPPORTED"
    <3>1. WrittenStreams(text, scope) = {}
      BY <1>5, <2>3, <2>5
    <3> QED
      BY <1>1, <1>2, <2>4, <2>5, <3>1 DEF AsWritten
  <2>6. CASE EntryAt(S, i, j, scope.topic).role # "UNSUPPORTED"
    <3>1. WrittenStreams(text, scope) = {id}
      BY <1>5, <2>1, <2>2, <2>3, <2>6
    <3>2. CASE owner = None
      BY <1>1, <1>2, <2>4, <3>1, <3>2 DEF AsWritten
    <3>3. CASE owner # None
      <4>1. answer.status = "resolved" /\ answer.stream = id /\ answer.owner = owner
        BY <2>4, <2>6, <3>3
      <4> QED
        BY <1>1, <1>2, <2>4, <3>1, <4>1 DEF AsWritten, OwnedAsWritten
    <3> QED
      BY <3>2, <3>3
  <2> QED
    BY <2>5, <2>6
<1> QED
  BY <1>6, <1>7

(* A resolved scope goes to a key that the directory lists. *)
LEMMA ResolvedOwnerListed ==
    ASSUME NEW text \in RegistryText, Valid(text), NEW scope \in Scope,
           NEW answer, answer = Resolve(Canonical(text), scope), answer.status = "resolved"
    PROVE  answer.owner \in Elements(text.directory) /\ answer.owner \in Keys
<1>1. PICK reg : reg = Canonical(text) /\ Registered(text, reg)
  BY DEF Registered
<1>2. PICK i, j : Lists(reg.streams, i, j, scope.place, scope.topic)
  BY <1>1, ResolveUnlisted
<1>3. Answered(text, reg, scope, i, j)
  BY <1>1, <1>2, ResolveOwned
<1>4. answer.owner \in Elements(text.directory)
  BY <1>1, <1>3 DEF Answered
<1>5. Elements(text.directory) \subseteq Keys
  BY TextFields DEF Elements
<1> QED
  BY <1>4, <1>5

(* A consumer group's scope is resolved whenever the scope of its topic is. *)
LEMMA GroupFollowsTopic ==
    ASSUME NEW text \in RegistryText, Valid(text), NEW scope \in Scope, NEW plain,
           plain = [scope EXCEPT !.group = None],
           Resolve(Canonical(text), plain).status = "resolved"
    PROVE  Resolve(Canonical(text), scope).status = "resolved"
<1>1. PICK reg : reg = Canonical(text) /\ Registered(text, reg)
  BY DEF Registered
<1>2. /\ plain \in Scope /\ plain.place = scope.place /\ plain.topic = scope.topic
      /\ plain.group = None
  BY DEF Scope
<1>3. PICK i, j : Lists(reg.streams, i, j, plain.place, plain.topic)
  BY <1>1, <1>2, ResolveUnlisted
<1>4. Lists(reg.streams, i, j, scope.place, scope.topic)
  BY <1>2, <1>3
<1>5. PICK id : id = reg.streams[i].id
  OBVIOUS
<1>6. PICK some, other : some = Owner(reg, plain, id) /\ other = Owner(reg, scope, id)
  OBVIOUS
<1>7. /\ OwnedAsWritten(text, plain, id, some)
      /\ IF EntryAt(reg.streams, i, j, plain.topic).role = "UNSUPPORTED" \/ some = None
         THEN Resolve(reg, plain).status = "unresolved"
         ELSE Resolve(reg, plain).status = "resolved"
  <2>1. Answered(text, reg, plain, i, j)
    BY <1>1, <1>2, <1>3, ResolveOwned
  <2> QED
    BY <1>5, <1>6, <2>1 DEF Answered
<1>8. /\ other = None => Specific(text, scope, id) = {} /\ text.platform = None
      /\ IF EntryAt(reg.streams, i, j, scope.topic).role = "UNSUPPORTED" \/ other = None
         THEN Resolve(reg, scope).status = "unresolved"
         ELSE Resolve(reg, scope).status = "resolved"
  <2>1. Answered(text, reg, scope, i, j)
    BY <1>1, <1>4, ResolveOwned
  <2> QED
    BY <1>5, <1>6, <2>1 DEF Answered
<1>9. EntryAt(reg.streams, i, j, scope.topic).role # "UNSUPPORTED" /\ some # None
  BY <1>1, <1>2, <1>7
<1>10. ASSUME other = None PROVE FALSE
  <2>1. Specific(text, scope, id) = {} /\ text.platform = None
    BY <1>8, <1>10
  <2>2. PICK o \in Specific(text, plain, id) : TRUE
    BY <1>7, <1>9, <2>1 DEF OwnedAsWritten
  <2>3. PICK k \in DOMAIN text.owners : o = text.owners[k]
    BY DEF Specific, Elements
  <2>4. o.match.name # None
    BY <2>3, TextFields, NoneDistinct DEF OwnerEntry
  <2>5. o \in Specific(text, scope, id)
    BY <1>2, <2>2, <2>4 DEF Specific
  <2> QED
    BY <2>1, <2>5
<1> QED
  BY <1>1, <1>8, <1>9, <1>10

-----------------------------------------------------------------------------
(* The compatibility view of a place. *)

\* How many of some positions there are up to one of them.
RankIn(at, i) == Cardinality({j \in at : j <= i})

LEMMA RanksCount ==
    ASSUME NEW n \in Nat, NEW at \in SUBSET (1..n)
    PROVE  /\ IsFiniteSet(at) /\ Cardinality(at) \in Nat
           /\ \A i \in at : RankIn(at, i) \in 1..Cardinality(at)
           /\ \A i, j \in at : i < j => RankIn(at, i) < RankIn(at, j)
<1>1. IsFiniteSet(at) /\ Cardinality(at) \in Nat
  <2>1. IsFiniteSet(1..n)
    BY FS_Interval
  <2>2. IsFiniteSet(at)
    BY <2>1, FS_Subset
  <2> QED
    BY <2>2, FS_CardinalityType
<1>2. ASSUME NEW i \in at
      PROVE  /\ IsFiniteSet({j \in at : j <= i}) /\ RankIn(at, i) \in Nat
             /\ RankIn(at, i) <= Cardinality(at) /\ RankIn(at, i) # 0
  <2>1. {j \in at : j <= i} \in SUBSET at
    OBVIOUS
  <2>2. /\ IsFiniteSet({j \in at : j <= i})
        /\ Cardinality({j \in at : j <= i}) <= Cardinality(at)
    BY <1>1, <2>1, FS_Subset
  <2>3. i \in {j \in at : j <= i}
    OBVIOUS
  <2>4. Cardinality({j \in at : j <= i}) # 0
    BY <2>2, <2>3, FS_EmptySet
  <2>5. Cardinality({j \in at : j <= i}) \in Nat
    BY <2>2, FS_CardinalityType
  <2> QED
    BY <2>2, <2>4, <2>5 DEF RankIn
<1>3. ASSUME NEW i \in at, NEW j \in at, i < j
      PROVE  RankIn(at, i) < RankIn(at, j)
  <2>1. {k \in at : k <= i} \in SUBSET {k \in at : k <= j}
    <3>1. \A k \in at : k \in Int
      OBVIOUS
    <3>2. \A k \in at : k <= i => k <= j
      BY <1>3, <3>1
    <3> QED
      BY <3>2, Zenon
  <2>2. j \in {k \in at : k <= j} /\ j \notin {k \in at : k <= i}
    BY <1>3
  <2>3. /\ Cardinality({k \in at : k <= i}) <= Cardinality({k \in at : k <= j})
        /\ Cardinality({k \in at : k <= i}) # Cardinality({k \in at : k <= j})
    <3>1. {k \in at : k <= i} # {k \in at : k <= j}
      BY <2>2
    <3> QED
      BY <1>2, <2>1, <3>1, FS_Subset
  <2> QED
    BY <1>2, <2>3 DEF RankIn
<1>4. ASSUME NEW i \in at PROVE RankIn(at, i) \in 1..Cardinality(at)
  <2>1. PICK c \in Nat : c = Cardinality(at)
    BY <1>1
  <2>2. PICK r \in Nat : r = RankIn(at, i)
    BY <1>2
  <2>3. r <= c /\ r # 0
    BY <1>2, <2>1, <2>2
  <2>4. r \in 1..c
    BY <2>3
  <2> QED
    BY <2>1, <2>2, <2>4
<1> QED
  BY <1>1, <1>3, <1>4

(* The positions of a subsequence are those it was made from, each once. *)
LEMMA RanksOnto ==
    ASSUME NEW n \in Nat, NEW at \in SUBSET (1..n), NEW k \in 1..Cardinality(at)
    PROVE  \E i \in at : RankIn(at, i) = k
<1> DEFINE c == Cardinality(at)
           f == [i \in at |-> RankIn(at, i)]
<1>1. /\ IsFiniteSet(at) /\ c \in Nat
      /\ \A i \in at : RankIn(at, i) \in 1..c
      /\ \A i, j \in at : i < j => RankIn(at, i) < RankIn(at, j)
  BY RanksCount
<1>2. IsFiniteSet(1..c) /\ Cardinality(1..c) = c
  BY <1>1, FS_Interval
<1>3. f \in [at -> 1..c] /\ \A i, j \in at : f[i] = f[j] => i = j
  BY <1>1
<1>4. f \in Injection(at, 1..c)
  BY <1>3 DEF Injection, IsInjective
<1>5. f \in Surjection(at, 1..c)
  BY <1>2, <1>4, FS_Injection
<1> QED
  BY <1>5 DEF Surjection

\* A sequence has the elements of another at some of its positions, each of them once.
Picks(sub, s, at, f) ==
    /\ f \in [DOMAIN sub -> at]
    /\ \A k \in DOMAIN sub : sub[k] = s[f[k]]
    /\ \A j, k \in DOMAIN sub : f[j] = f[k] => j = k
    /\ \A i \in at : \E k \in DOMAIN sub : f[k] = i

LEMMA SubsequenceFacts ==
    ASSUME NEW s, NEW n \in Nat, NEW at \in SUBSET (1..n)
    PROVE  \E f : Picks(Subsequence(s, at), s, at, f)
<1> DEFINE c == Cardinality(at)
           f == [k \in 1..c |-> CHOOSE i \in at : RankIn(at, i) = k]
<1>1. /\ IsFiniteSet(at) /\ c \in Nat
      /\ \A i \in at : RankIn(at, i) \in 1..c
      /\ \A i, j \in at : i < j => RankIn(at, i) < RankIn(at, j)
  BY RanksCount
<1>2. \A k \in 1..c : f[k] \in at /\ RankIn(at, f[k]) = k
  <2> SUFFICES ASSUME NEW k \in 1..c PROVE f[k] \in at /\ RankIn(at, f[k]) = k
    OBVIOUS
  <2>1. \E i \in at : RankIn(at, i) = k
    BY RanksOnto
  <2> QED
    BY <2>1
<1>3. Subsequence(s, at) = [k \in 1..c |-> s[CHOOSE i \in at : RankIn(at, i) = k]]
  BY DEF Subsequence, RankIn
<1>4. \A k \in 1..c : Subsequence(s, at)[k] = s[f[k]]
  BY <1>3
<1>5. f \in [1..c -> at]
  BY <1>2
<1>6. \A j, k \in 1..c : f[j] = f[k] => j = k
  <2> HIDE DEF f
  <2> QED
    BY <1>2
<1>7. \A i \in at : \E k \in 1..c : f[k] = i
  <2> SUFFICES ASSUME NEW i \in at PROVE f[RankIn(at, i)] = i
    BY <1>1
  <2>1. RankIn(at, i) \in 1..c
    BY <1>1
  <2>2. f[RankIn(at, i)] \in at /\ RankIn(at, f[RankIn(at, i)]) = RankIn(at, i)
    BY <1>2, <2>1
  <2> HIDE DEF f
  <2>3. PICK j \in at : j = f[RankIn(at, i)]
    BY <2>2
  <2>4. RankIn(at, j) = RankIn(at, i)
    BY <2>2, <2>3
  <2>5. ~(i < j) /\ ~(j < i)
    BY <1>1, <2>4
  <2>6. i \in Int /\ j \in Int
    OBVIOUS
  <2> QED
    BY <2>3, <2>5, <2>6
<1>8. DOMAIN Subsequence(s, at) = 1..c
  BY <1>3
<1> HIDE DEF c, f
<1>9. Picks(Subsequence(s, at), s, at, f)
  BY <1>4, <1>5, <1>6, <1>7, <1>8 DEF Picks
<1> QED
  BY <1>9

(* The streams of the view, as the loader that is given the place makes them: one for each *)
(* stream with an instance there, and the topics that the index gives it.                  *)
Reloaded(reg, p, C) ==
    /\ \A k \in DOMAIN C : C[k].id \in {reg.streams[i].id : i \in DOMAIN reg.streams}
    /\ \A j, k \in DOMAIN C : C[j].id = C[k].id => j = k
    /\ \A k, j, q, t : Lists(C, k, j, q, t) <=>
            /\ k \in DOMAIN C /\ j = 1 /\ q = p /\ t \in DOMAIN IndexAt(reg, p)
            /\ IndexAt(reg, p)[t].stream = C[k].id
    /\ \A k \in DOMAIN C : DOMAIN C[k].instances = {1}
    /\ \A k, j, q, t : Lists(C, k, j, q, t) => EntryAt(C, k, j, t) = IndexAt(reg, p)[t]
    /\ \A t \in DOMAIN IndexAt(reg, p) :
            \E k \in DOMAIN C : C[k].id = IndexAt(reg, p)[t].stream

LEMMA ViewVersion ==
    ASSUME NEW reg, NEW p
    PROVE  Version(CompatView(reg, p)) = 1
<1> DEFINE view == CompatView(reg, p)
<1>1. view.version = 1 /\ \A k \in DOMAIN view.streams : view.streams[k].instances = None
  BY DEF CompatView
<1> QED
  BY <1>1 DEF Version, Elements

LEMMA ViewStreams ==
    ASSUME NEW reg, NEW p, NEW view, view = CompatView(reg, p),
           NEW C, C = CanonicalStreams(view, p)
    PROVE  /\ DOMAIN C = DOMAIN StreamsAt(reg, p)
           /\ \A k \in DOMAIN C :
                /\ C[k].id = StreamsAt(reg, p)[k].id /\ view.streams[k].id = C[k].id
                /\ DOMAIN C[k].instances = {1} /\ C[k].instances[1].place = p
                /\ \A t : t \in DOMAIN C[k].instances[1].index <=>
                     t \in DOMAIN IndexAt(reg, p) /\ IndexAt(reg, p)[t].stream = C[k].id
                /\ \A t \in DOMAIN C[k].instances[1].index :
                     C[k].instances[1].index[t] = IndexAt(reg, p)[t]
<1>1. view.index = IndexAt(reg, p) /\ DOMAIN view.streams = DOMAIN StreamsAt(reg, p)
  BY DEF CompatView
<1>2. DOMAIN C = DOMAIN view.streams
  BY CanonicalDomain
<1>3. ASSUME NEW k \in DOMAIN C
      PROVE  /\ C[k].id = StreamsAt(reg, p)[k].id /\ view.streams[k].id = C[k].id
             /\ DOMAIN C[k].instances = {1} /\ C[k].instances[1].place = p
             /\ \A t : t \in DOMAIN C[k].instances[1].index <=>
                  t \in DOMAIN IndexAt(reg, p) /\ IndexAt(reg, p)[t].stream = C[k].id
             /\ \A t \in DOMAIN C[k].instances[1].index :
                  C[k].instances[1].index[t] = IndexAt(reg, p)[t]
  <2>1. Version(view) = 1
    BY ViewVersion
  <2>2. C[k] = V0Stream(view, view.streams[k], p)
    BY <1>2, <2>1, CanonicalDomain
  <2>3. view.streams[k].id = StreamsAt(reg, p)[k].id /\ view.streams[k].place = None
    BY <1>1, <1>2 DEF CompatView
  <2>4. Home(view.streams[k], p) = p
    BY <2>3 DEF Home
  <2>5. C[k] =
          [id |-> view.streams[k].id, tier |-> view.streams[k].tier,
           instances |-> <<[place |-> p,
                            index |-> [t \in {t \in DOMAIN IndexAt(reg, p) :
                                            IndexAt(reg, p)[t].stream = view.streams[k].id}
                                          |-> IndexAt(reg, p)[t]],
                            sources |-> view.streams[k].sources]>>]
    BY <1>1, <2>2, <2>4 DEF V0Stream
  <2> QED
    BY <2>3, <2>5
<1> QED
  BY <1>1, <1>2, <1>3

LEMMA ViewReloaded ==
    ASSUME NEW text, NEW reg, Registered(text, reg), NEW p \in Places,
           NEW C, C = CanonicalStreams(CompatView(reg, p), p)
    PROVE  Reloaded(reg, p, C)
<1>0. \A i, j, t : Lists(reg.streams, i, j, p, t) =>
        IndexAt(reg, p)[t] = EntryAt(reg.streams, i, j, t)
  BY RegisteredFacts, IndexAtFacts
<1> DEFINE S == reg.streams
           X == IndexAt(reg, p)
           at == {i \in DOMAIN S : \E x \in Elements(S[i].instances) : x.place = p}
<1>1. /\ S = CanonicalStreams(text, DefaultPlace) /\ ~StreamProblems(S) /\ Formatted(text)
      /\ text \in RegistryText
  BY RegisteredFacts
<1>2. /\ DOMAIN S = DOMAIN text.streams
      /\ \A i, j, q, t : Lists(S, i, j, q, t) => EntryAt(S, i, j, t).stream = S[i].id
  BY <1>1, CanonicalFacts
<1>3. PICK n \in Nat : DOMAIN S = 1..n
  BY <1>1, <1>2, TextFields
<1>4. at \in SUBSET (1..n) /\ StreamsAt(reg, p) = Subsequence(S, at)
  BY <1>3 DEF StreamsAt
<1>5. PICK f : Picks(StreamsAt(reg, p), S, at, f)
  <2> HIDE DEF at
  <2> QED
    BY <1>4, SubsequenceFacts
<1>6. /\ DOMAIN C = DOMAIN StreamsAt(reg, p)
      /\ \A k \in DOMAIN C :
            /\ C[k].id = S[f[k]].id
            /\ DOMAIN C[k].instances = {1} /\ C[k].instances[1].place = p
            /\ \A t : t \in DOMAIN C[k].instances[1].index <=>
                 t \in DOMAIN X /\ X[t].stream = C[k].id
            /\ \A t \in DOMAIN C[k].instances[1].index : C[k].instances[1].index[t] = X[t]
  <2> HIDE DEF at
  <2> QED
    BY <1>5, ViewStreams DEF Picks
<1>7. \A i \in at : i \in DOMAIN S /\ \E j \in DOMAIN S[i].instances : S[i].instances[j].place = p
  BY DEF Elements
<1>8. \A i, j, t : Lists(S, i, j, p, t) => i \in at
  BY DEF Lists, Elements
<1> HIDE DEF at
<1>9. \A j, k \in DOMAIN S : S[j].id = S[k].id => j = k
  BY <1>1, UniqueStreams
<1>10. \A k \in DOMAIN C : f[k] \in DOMAIN S
  BY <1>5, <1>6, <1>7 DEF Picks
<1>11. \A j, k \in DOMAIN C : C[j].id = C[k].id => j = k
  BY <1>5, <1>6, <1>9, <1>10 DEF Picks
<1>12. \A t \in DOMAIN X : \E k \in DOMAIN C : C[k].id = X[t].stream
  <2> SUFFICES ASSUME NEW t \in DOMAIN X PROVE \E k \in DOMAIN C : C[k].id = X[t].stream
    OBVIOUS
  <2>1. PICK i, j : Lists(S, i, j, p, t)
    BY <1>1, IndexAtFacts
  <2>2. X[t].stream = S[i].id /\ i \in at
    <3>1. X[t] = EntryAt(S, i, j, t)
      BY <1>0, <2>1
    <3> QED
      BY <1>2, <1>8, <2>1, <3>1
  <2>3. PICK k \in DOMAIN C : f[k] = i
    BY <1>5, <1>6, <2>2 DEF Picks
  <2> QED
    BY <1>6, <2>2, <2>3
<1> HIDE DEF X, S
<1>13. \A k, j, q, t : Lists(C, k, j, q, t) <=>
            k \in DOMAIN C /\ j = 1 /\ q = p /\ t \in DOMAIN X /\ X[t].stream = C[k].id
  BY <1>6 DEF Lists
<1>14. \A k, j, q, t : Lists(C, k, j, q, t) => EntryAt(C, k, j, t) = X[t]
  BY <1>6 DEF Lists, EntryAt
<1>15. \A k \in DOMAIN C : C[k].id \in {S[i].id : i \in DOMAIN S}
  BY <1>6, <1>10
<1>16. \A k \in DOMAIN C : DOMAIN C[k].instances = {1}
  BY <1>6
<1> QED
  BY <1>11, <1>12, <1>13, <1>14, <1>15, <1>16 DEF Reloaded, X, S

LEMMA ReloadedSound ==
    ASSUME NEW text, NEW reg, Registered(text, reg), NEW p \in Places, NEW C, Reloaded(reg, p, C)
    PROVE  ~StreamProblems(C)
<1> DEFINE S == reg.streams
           X == IndexAt(reg, p)
<1>1. ~StreamProblems(S)
  BY RegisteredFacts
<1>2. ~Repeats(C, LAMBDA s : s.id)
  BY DEF Repeats, Reloaded
<1>3. ASSUME NEW k \in DOMAIN C PROVE ~Repeats(C[k].instances, LAMBDA x : x.place)
  BY DEF Repeats, Reloaded
<1>4. ASSUME NEW q \in Places, NEW x \in At(C, q), NEW y \in At(C, q),
             NEW t, t \in DOMAIN Placed(C, x).index, t \in DOMAIN Placed(C, y).index
      PROVE  x = y
  <2>1. Lists(C, x[1], x[2], q, t) /\ Lists(C, y[1], y[2], q, t)
    BY <1>4, AtFacts
  <2>2. x[1] = y[1] /\ x[2] = y[2]
    BY <2>1 DEF Reloaded
  <2> QED
    BY <2>2, AtFacts
<1>5. ASSUME FailOnUnknownRole, NEW k \in DOMAIN C, NEW j \in DOMAIN C[k].instances,
             NEW t \in DOMAIN C[k].instances[j].index
      PROVE  C[k].instances[j].index[t].role # "UNSUPPORTED"
  <2>1. Lists(C, k, j, C[k].instances[j].place, t)
    BY DEF Lists
  <2>2. t \in DOMAIN X /\ C[k].instances[j].index[t] = X[t]
    BY <2>1 DEF Reloaded, EntryAt
  <2>3. PICK i, l : Lists(S, i, l, p, t)
    BY <1>1, <2>2, IndexAtFacts
  <2>4. X[t] = S[i].instances[l].index[t]
    BY <1>1, <2>3, IndexAtFacts DEF EntryAt
  <2>5. S[i].instances[l].index[t].role # "UNSUPPORTED"
    BY <1>1, <1>5, <2>3 DEF StreamProblems, Elements, Lists
  <2> QED
    BY <2>2, <2>4, <2>5
<1>6. \A s \in Elements(C) : ~Repeats(s.instances, LAMBDA x : x.place)
  BY <1>3 DEF Elements
<1>7. ~(\E q \in Places : \E x, y \in At(C, q) :
          x # y /\ DOMAIN Placed(C, x).index \cap DOMAIN Placed(C, y).index # {})
  BY <1>4
<1>8. ~(FailOnUnknownRole /\ \E s \in Elements(C) : \E inst \in Elements(s.instances) :
          \E t \in DOMAIN inst.index : inst.index[t].role = "UNSUPPORTED")
  BY <1>5 DEF Elements
<1> QED
  BY <1>2, <1>6, <1>7, <1>8 DEF StreamProblems

(* build_v0_compat_view writes a registry that the loader, given the place, accepts, and   *)
(* in which every topic has the entry it has there: no topic of the place is lost, none of *)
(* another place appears, whatever streams share the place.                                *)
THEOREM CompatViewFaithful ==
    ASSUME NEW text \in RegistryText, Valid(text), NEW p \in Places
    PROVE  CompatLoads(Canonical(text), p)
<1>1. PICK reg : Registered(text, reg) /\ reg = Canonical(text)
  BY DEF Registered
<1>2. PICK view : view = CompatView(reg, p)
  OBVIOUS
<1>3. PICK C : C = CanonicalStreams(view, p)
  OBVIOUS
<1>4. Reloaded(reg, p, C) /\ ~StreamProblems(C)
  <2>1. Reloaded(reg, p, C)
    BY <1>1, <1>2, <1>3, ViewReloaded
  <2> QED
    BY <1>1, <2>1, ReloadedSound
<1>5. /\ view.readable /\ view.index = IndexAt(reg, p) /\ view.directory = <<>>
      /\ view.owners = <<>> /\ view.platform = None
  BY <1>2 DEF CompatView
<1>6. Version(view) = 1
  BY <1>2, ViewVersion
<1>7. ~V0Problems(view)
  <2>1. DOMAIN C = DOMAIN view.streams /\ \A k \in DOMAIN C : view.streams[k].id = C[k].id
    BY <1>2, <1>3, ViewStreams, CanonicalDomain
  <2>2. \A t \in DOMAIN view.index :
          \E k \in DOMAIN view.streams : view.streams[k].id = view.index[t].stream
    BY <1>4, <1>5, <2>1 DEF Reloaded
  <2> QED
    BY <2>2 DEF V0Problems, Elements
<1>8. ~DirectoryProblems(view) /\ ~OwnershipProblems(view)
  <2>1. DOMAIN view.directory = {} /\ DOMAIN view.owners = {}
    BY <1>5
  <2>2. ~DirectoryProblems(view)
    BY <2>1 DEF DirectoryProblems, Repeats
  <2>3. ~OwnershipProblems(view)
    BY <1>5, <2>1 DEF OwnershipProblems, Repeats, Elements
  <2> QED
    BY <2>2, <2>3
<1>9. ValidWith(view, p)
  BY <1>3, <1>4, <1>5, <1>6, <1>7, <1>8 DEF ValidWith
<1>10. PICK again : again = CanonicalWith(view, p)
  OBVIOUS
<1>11. again.streams = C
  BY <1>3, <1>10 DEF CanonicalWith
<1>12. /\ \A t : t \in DOMAIN IndexAt(again, p) <=> \E k, j : Lists(C, k, j, p, t)
       /\ \A k, j, t : Lists(C, k, j, p, t) => IndexAt(again, p)[t] = EntryAt(C, k, j, t)
  <2>1. ~StreamProblems(again.streams)
    BY <1>4, <1>11
  <2>2. /\ \A t : t \in DOMAIN IndexAt(again, p) <=> \E k, j : Lists(again.streams, k, j, p, t)
        /\ \A k, j, t : Lists(again.streams, k, j, p, t) =>
             IndexAt(again, p)[t] = EntryAt(again.streams, k, j, t)
    BY <2>1, IndexAtFacts
  <2> QED
    BY <1>11, <2>2
<1>13. \A t : t \in DOMAIN IndexAt(reg, p) <=> \E k, j : Lists(C, k, j, p, t)
  BY <1>4 DEF Reloaded
<1>14. DOMAIN IndexAt(again, p) = DOMAIN IndexAt(reg, p)
  BY <1>12, <1>13
<1>15. \A t \in DOMAIN IndexAt(reg, p) : IndexAt(again, p)[t] = IndexAt(reg, p)[t]
  BY <1>4, <1>12, <1>13 DEF Reloaded
<1>16. IndexAt(again, p) = IndexAt(reg, p)
  <2>1. /\ IndexAt(again, p) = [t \in DOMAIN IndexAt(again, p) |-> IndexAt(again, p)[t]]
        /\ IndexAt(reg, p) = [t \in DOMAIN IndexAt(reg, p) |-> IndexAt(reg, p)[t]]
    BY DEF IndexAt
  <2> QED
    BY <1>14, <1>15, <2>1
<1> QED
  BY <1>1, <1>2, <1>9, <1>10, <1>16 DEF CompatLoads
=============================================================================
