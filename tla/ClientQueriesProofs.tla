------------------------ MODULE ClientQueriesProofs ------------------------
(***************************************************************************)
(* The queries of the clients: what a call returns was true at one instant *)
(* of its window, and a program that pages sees every object that existed  *)
(* all along exactly once.  The first half is about the data: what a set   *)
(* in order is, and what the models make of the node's answers.  The       *)
(* second is the induction: the reply of the node is its answer in some    *)
(* state of the window, and the cursor separates what was listed from what *)
(* is still to come.                                                       *)
(***************************************************************************)
EXTENDS ClientQueries, NaturalFacts, FunctionTheorems, FiniteSetTheorems, SequenceTheorems

-----------------------------------------------------------------------------
(* Sets of numbers in order.                                               *)

Increasing(s, n) == \A j, k \in 1..n : j < k => s[j] < s[k]

\* A finite set of naturals can be put in order: the least first, then the rest.
LEMMA OrderExists ==
  ASSUME NEW S, S \subseteq Nat, IsFiniteSet(S)
  PROVE  \E s \in [1..Cardinality(S) -> S] : Increasing(s, Cardinality(S))
  <1> DEFINE Sizes == {n \in Nat : \A T \in SUBSET S : Cardinality(T) = n =>
                                     \E s \in [1..n -> T] : Increasing(s, n)}
  <1>1. 0 \in Sizes
    <2> SUFFICES ASSUME NEW T \in SUBSET S
                 PROVE  \E s \in [1..0 -> T] : Increasing(s, 0)
      OBVIOUS
    <2>1. [k \in 1..0 |-> k] \in [1..0 -> T]
      OBVIOUS
    <2>2. Increasing([k \in 1..0 |-> k], 0)
      BY DEF Increasing
    <2> QED
      BY <2>1, <2>2
  <1>2. ASSUME NEW n \in Nat, n \in Sizes PROVE n + 1 \in Sizes
    <2> SUFFICES ASSUME NEW T \in SUBSET S, Cardinality(T) = n + 1
                 PROVE  \E s \in [1..(n + 1) -> T] : Increasing(s, n + 1)
      BY <1>2
    <2>1. IsFiniteSet(T) /\ T \subseteq Nat
      BY FS_Subset
    <2>2. T # {}
      BY <2>1, FS_EmptySet
    <2>3. PICK least \in T : \A k \in T : least <= k
      BY <2>1, <2>2, LeastNatural
    <2> DEFINE U == T \ {least}
    <2>4. Cardinality(U) = n /\ U \in SUBSET S
      <3>1. Cardinality(U) = Cardinality(T) - 1
        BY <2>1, <2>3, FS_RemoveElement
      <3> QED
        BY <3>1
    <2>5. PICK s \in [1..n -> U] : Increasing(s, n)
      BY <1>2, <2>4
    <2> DEFINE t == [k \in 1..(n + 1) |-> IF k = 1 THEN least ELSE s[k - 1]]
    <2>6. \A k \in 1..(n + 1) : k # 1 => k - 1 \in 1..n /\ t[k] = s[k - 1] /\ t[k] \in U
      BY <2>5
    <2>7. t[1] = least
      OBVIOUS
    <2>8. t \in [1..(n + 1) -> T]
      BY <2>3, <2>6, <2>7
    <2>9. ASSUME NEW j \in 1..(n + 1), NEW k \in 1..(n + 1), j < k PROVE t[j] < t[k]
      <3>1. k # 1 /\ t[k] \in U /\ t[k] = s[k - 1] /\ k - 1 \in 1..n
        BY <2>6, <2>9
      <3>2. CASE j = 1
        <4>1. least <= t[k] /\ t[k] # least /\ least \in Nat /\ t[k] \in Nat
          BY <2>1, <2>3, <3>1
        <4> QED
          BY <2>7, <3>2, <4>1
      <3>3. CASE j # 1
        <4>1. t[j] = s[j - 1] /\ j - 1 \in 1..n /\ j - 1 < k - 1
          BY <2>6, <2>9, <3>3
        <4> HIDE DEF t
        <4> QED
          BY <2>5, <3>1, <4>1 DEF Increasing
      <3> QED
        BY <3>2, <3>3
    <2> QED
      <3> HIDE DEF t
      <3> QED
        BY <2>8, <2>9 DEF Increasing
  <1> HIDE DEF Sizes
  <1>3. Nat \subseteq Sizes
    BY <1>1, <1>2, NaturalsByInduction
  <1>4. Cardinality(S) \in Sizes
    BY <1>3, FS_CardinalityType
  <1> QED
    BY <1>4 DEF Sizes

\* Sorted(S) is S in order: increasing, without gaps, and nothing is left out.
LEMMA SortedIsOrder ==
  ASSUME NEW S, S \subseteq Nat, IsFiniteSet(S)
  PROVE  LET n == Cardinality(S)
             s == Sorted(S)
         IN  /\ n \in Nat /\ s \in [1..n -> S] /\ s \in Seq(S) /\ Len(s) = n
             /\ Increasing(s, n)
             /\ \A x \in S : \E k \in 1..n : s[k] = x
  <1> DEFINE n == Cardinality(S)
             s == Sorted(S)
  <1>1. n \in Nat
    BY FS_CardinalityType
  <1>2. \E f \in [1..n -> S] : \A j, k \in 1..n : j < k => f[j] < f[k]
    BY OrderExists DEF Increasing
  <1>3. s \in [1..n -> S] /\ \A j, k \in 1..n : j < k => s[j] < s[k]
    BY <1>2 DEF Sorted
  <1> HIDE DEF s, n
  <1>4. \A j, k \in 1..n : s[j] = s[k] => j = k
    <2> SUFFICES ASSUME NEW j \in 1..n, NEW k \in 1..n, s[j] = s[k], j # k PROVE FALSE
      OBVIOUS
    <2>1. s[j] \in Nat /\ s[k] \in Nat
      BY <1>3
    <2>2. j \in Nat /\ k \in Nat
      BY <1>1
    <2>3. j < k \/ k < j
      BY <2>2
    <2> QED
      BY <1>3, <2>1, <2>3
  <1>5. s \in Injection(1..n, S)
    BY <1>3, <1>4, Fun_IsInj
  <1>6. IsFiniteSet(1..n) /\ Cardinality(1..n) = n
    BY <1>1, FS_Interval
  <1>7. s \in Surjection(1..n, S)
    BY <1>5, <1>6, FS_Injection DEF n
  <1>8. \A x \in S : \E k \in 1..n : s[k] = x
    BY <1>7 DEF Surjection
  <1>9. s \in Seq(S) /\ Len(s) = n
    BY <1>1, <1>3
  <1> QED
    BY <1>1, <1>3, <1>8, <1>9 DEF s, n, Increasing
-----------------------------------------------------------------------------
(* What is sent of an EventFilter.                                         *)

LEMMA FilterTyped ==
  ASSUME NEW fields
  PROVE  ToRpcFilter(fields) \in SUBSET Range(FilterKeys)
  <1>1. \A k \in DOMAIN FilterFields : FilterFields[k] \in DOMAIN FilterKeys
    BY DEF FilterFields, FilterKeys
  <1> QED
    BY <1>1 DEF ToRpcFilter, Range

\* The fields of an EventFilter are finitely many.
LEMMA FieldsFinite ==
  ASSUME NEW fields \in SUBSET DOMAIN FilterKeys
  PROVE  IsFiniteSet(fields)
  <1> DEFINE first == {"sender"} \cup {"transaction"} \cup {"package"}
             second == {"move_module"} \cup {"move_event_type"} \cup {"move_event_field"}
  <1>1. IsFiniteSet(first) /\ IsFiniteSet(second)
    BY FS_Singleton, FS_Union
  <1>2. IsFiniteSet(first \cup second \cup {"time_range"})
    BY <1>1, FS_Singleton, FS_Union
  <1>3. DOMAIN FilterKeys = first \cup second \cup {"time_range"}
    BY DEF FilterKeys
  <1> QED
    BY <1>2, <1>3, FS_Subset

\* Each field has a place of its own among the fields.
LEMMA FieldsOrdered ==
  ASSUME NEW f \in DOMAIN FilterKeys
  PROVE  \E k \in DOMAIN FilterFields : {i \in DOMAIN FilterFields : FilterFields[i] \in {f}} = {k}
                                       /\ FilterFields[k] = f /\ k \in Nat
  BY DEF FilterKeys, FilterFields

\* What is sent of a filter with at most one field is that field.
LEMMA OneFieldIsSent ==
  ASSUME NEW fields \in SUBSET DOMAIN FilterKeys, Cardinality(fields) \in {0, 1}
  PROVE  ToRpcFilter(fields) = {FilterKeys[f] : f \in fields}
  <1>1. IsFiniteSet(fields)
    BY FieldsFinite
  <1>2. CASE fields = {}
    BY <1>2 DEF ToRpcFilter
  <1>3. CASE fields # {}
    <2>1. PICK f : fields = {f}
      BY <1>1, <1>3, FS_EmptySet, FS_Singleton
    <2>2. PICK k \in DOMAIN FilterFields :
            /\ {i \in DOMAIN FilterFields : FilterFields[i] \in {f}} = {k}
            /\ FilterFields[k] = f /\ k \in Nat
      BY <2>1, FieldsOrdered
    <2>3. ToRpcFilter(fields) = {FilterKeys[f]}
      BY <2>1, <2>2 DEF ToRpcFilter
    <2> QED
      BY <2>1, <2>3
  <1> QED
    BY <1>2, <1>3

-----------------------------------------------------------------------------
(* The invariant.                                                          *)

\* The question of the call under way; a program that pages asks for the page
\* behind its cursor.
Asking ==
  /\ phase # "idle" => request \in Questions /\ chain \in window
  /\ request = None => window = {} /\ outcome.kind \notin {"value", "ObjectNotFoundError"}
  /\ (phase # "idle" /\ request.method = "iota_getObject") => request.ids # << >>
  /\ (phase # "idle" /\ request.method \in ListingMethods) => listing.method # None
  /\ (phase # "idle" /\ listing.method # None) =>
       /\ listing.more
       /\ request = Question(listing.method, << >>, listing.cursor, {}, ToRpcFilter(listing.filter))

\* An answer that has come was the node's in some state of the window.
Answered ==
  phase = "answered" =>
    \/ reply.ok \in BOOLEAN /\ reply.body = [error |-> "given"]
    \/ \E c \in window : reply = [ok |-> TRUE, body |-> [result |-> Answer(c, request)]]

\* The listing: what there was all along, in every state of the window, is listed
\* or still behind the cursor, and the cursor is the last that was listed.
Paging ==
  /\ \A c \in window \union {chain} : steady \subseteq Exist(c)
  /\ DOMAIN listing = {"method", "filter", "cursor", "more", "got"}
  /\ listing.method \in ListingMethods \union {None}
  /\ listing.filter \subseteq DOMAIN FilterKeys /\ Cardinality(listing.filter) \in {0, 1}
  /\ listing.method = None => listing.cursor = None /\ ~listing.more /\ listing.got = << >>
  /\ listing.more =>
       /\ IF listing.got = << >> THEN listing.cursor = None ELSE listing.cursor = Last(listing.got)
       /\ \A i \in steady : i \in Range(listing.got) \/ listing.cursor = None \/ i > listing.cursor

IInv == TypeOK /\ OneInstant /\ ListedOnce /\ Asking /\ Answered /\ Paging

-----------------------------------------------------------------------------
(* What the models make of the node's answers.                             *)

Chains == [Ids -> 0..MaxVersion]

LEMMA ExistIsFinite ==
  ASSUME NEW c
  PROVE  Exist(c) \subseteq Ids /\ Exist(c) \subseteq Nat /\ IsFiniteSet(Exist(c))
  <1>1. Exist(c) \in SUBSET Ids
    BY DEF Exist
  <1> QED
    BY <1>1, QueriesAssumption, FS_Subset

\* An object the node sends is read with the id, version and digest it was sent with.
LEMMA KnownIsRead ==
  ASSUME NEW i \in Ids, NEW version \in 1..MaxVersion, NEW shown \in Shown \cup {{}}
  PROVE  LET json == Known(i, version, shown)
             o == ObjectData(json)
         IN  /\ json # None /\ o # None
             /\ o # Invalid => o.object_id = i /\ o.version = version /\ o.digest = << i, version >>
  <1> DEFINE json == Known(i, version, shown)
             o == ObjectData(json)
  <1>1. json # None /\ o # None
    BY NullAssumption
  <1>2. /\ {"objectId", "version", "digest"} \subseteq DOMAIN json
        /\ json["objectId"] = i /\ json["version"] = version /\ json["digest"] = << i, version >>
    BY DEF Known, With
  <1> HIDE DEF json
  <1>3. /\ ObjectKeys["object_id"] = "objectId" /\ ObjectKeys["version"] = "version"
        /\ ObjectKeys["digest"] = "digest"
        /\ {"object_id", "version", "digest", "content"} \subseteq DOMAIN ObjectKeys
    BY DEF ObjectKeys
  <1>d. DOMAIN ObjectDefaults = {"version", "digest"}
    BY DEF ObjectDefaults
  <1> DEFINE whole == With(json, ObjectDefaults)
  <1>e. /\ {"objectId", "version", "digest"} \subseteq DOMAIN whole
        /\ whole["objectId"] = i /\ whole["version"] = version /\ whole["digest"] = << i, version >>
    BY <1>2, <1>d DEF With
  <1> HIDE DEF whole
  <1> DEFINE object == Model(ObjectKeys, {"object_id"}, whole)
  <1>4. /\ object["object_id"] = i /\ object["version"] = version
        /\ object["digest"] = << i, version >> /\ DOMAIN object = DOMAIN ObjectKeys
        /\ object = [f \in DOMAIN object |-> object[f]]
    BY <1>e, <1>3 DEF Model
  <1> HIDE DEF object
  <1>5. \/ o = object \/ o = Invalid
        \/ \E content : o = [object EXCEPT !.content = content]
    BY DEF ObjectData, object, whole
  <1>6. ASSUME o # Invalid
        PROVE  o.object_id = i /\ o.version = version /\ o.digest = << i, version >>
    BY <1>3, <1>4, <1>5, <1>6
  <1> QED
    BY <1>1, <1>6 DEF json

\* An ObjectResponse has the object as it was, unless the node has none or the
\* object is not one the model accepts.
LEMMA ResponseIsRead ==
  ASSUME NEW c \in Chains, NEW i \in Ids, NEW shown \in Shown \cup {{}}
  PROVE  LET response == ObjectResponse(ObjectJson(c, i, shown)) IN
         /\ response.error = None <=> i \in Exist(c)
         /\ response.data = None <=> i \notin Exist(c)
         /\ (i \in Exist(c) /\ response.data # Invalid) => Seen(response.data, i, c)
  <1>1. CASE i \in Exist(c)
    <2>1. c[i] \in 1..MaxVersion
      BY <1>1, QueriesAssumption DEF Exist, Chains
    <2>2. ObjectJson(c, i, shown) = [data |-> Known(i, c[i], shown), error |-> None]
      BY <1>1 DEF ObjectJson
    <2> QED
      BY <1>1, <2>1, <2>2, KnownIsRead DEF ObjectResponse, Seen
  <1>2. CASE i \notin Exist(c)
    BY <1>2, NullAssumption DEF ObjectJson, ObjectResponse
  <1> QED
    BY <1>1, <1>2

\* An item of a page is read with its own id.
LEMMA ItemIsRead ==
  ASSUME NEW c \in Chains, NEW i \in Exist(c), NEW method \in ListingMethods
  PROVE  LET item == Item(method, ItemJson(c, method, i, {})) IN
         item # Invalid => IdOf(method, item) = i
  <1> DEFINE json == ItemJson(c, method, i, {})
             item == Item(method, json)
  <1>1. i \in Ids
    BY DEF Exist
  <1>2. CASE method = "iotax_getOwnedObjects"
    <2>1. item = ObjectResponse(ObjectJson(c, i, {})).data
      BY <1>2 DEF Item, ItemJson
    <2> QED
      BY <1>1, <1>2, <2>1, ResponseIsRead DEF Seen, IdOf
  <1>3. CASE method = "iotax_getCoins"
    <2>1. item = Model(CoinKeys, DOMAIN CoinKeys, json)
      BY <1>3 DEF Item
    <2>2. "coinObjectId" \in DOMAIN json /\ json["coinObjectId"] = i
      BY <1>3 DEF ItemJson
    <2> HIDE DEF json
    <2>3. "coin_object_id" \in DOMAIN CoinKeys /\ CoinKeys["coin_object_id"] = "coinObjectId"
      BY DEF CoinKeys
    <2>4. item # Invalid => item.coin_object_id = i
      BY <2>1, <2>2, <2>3 DEF Model
    <2> QED
      BY <1>3, <2>4 DEF IdOf, json
  <1>4. CASE method = "iotax_queryEvents"
    <2>1. item = Model(EventKeys, DOMAIN EventKeys \ {"parsed_json", "bcs", "timestamp_ms"}, json)
      BY <1>4 DEF Item
    <2>2. "id" \in DOMAIN json /\ json["id"] = i
      BY <1>4 DEF ItemJson
    <2> HIDE DEF json
    <2>3. "id" \in DOMAIN EventKeys /\ EventKeys["id"] = "id"
      BY DEF EventKeys
    <2>4. item # Invalid => item.id = i
      BY <2>1, <2>2, <2>3 DEF Model
    <2> QED
      BY <1>4, <2>4 DEF IdOf, json
  <1> QED
    BY <1>2, <1>3, <1>4 DEF ListingMethods

Behind(c, cursor) == {i \in Exist(c) : cursor = None \/ i > cursor}

\* A page is the beginning of what is behind the cursor, in order; it is empty
\* only when nothing is.
LEMMA PageIsPrefix ==
  ASSUME NEW c \in Chains, NEW cursor
  PROVE  LET rest == Rest(c, cursor)
             ids  == FirstPage(c, cursor)
         IN  /\ rest \in Seq(Behind(c, cursor)) /\ Increasing(rest, Len(rest))
             /\ \A i \in Behind(c, cursor) : \E k \in 1..Len(rest) : rest[k] = i
             /\ ids \in Seq(Behind(c, cursor)) /\ Len(ids) <= Len(rest)
             /\ Len(ids) < Len(rest) => Len(ids) = Limit
             /\ \A k \in 1..Len(ids) : ids[k] = rest[k]
  <1> DEFINE B == Behind(c, cursor)
             rest == Rest(c, cursor)
             n == IF Limit < Len(rest) THEN Limit ELSE Len(rest)
             ids == FirstPage(c, cursor)
  <1>1. B \subseteq Nat /\ IsFiniteSet(B)
    <2>1. B \in SUBSET Exist(c)
      BY DEF Behind
    <2> QED
      BY <2>1, ExistIsFinite, FS_Subset
  <1>2. rest = Sorted(B)
    BY DEF Rest, Behind
  <1> HIDE DEF B, rest
  <1>3. /\ rest \in Seq(B) /\ Increasing(rest, Len(rest)) /\ Len(rest) \in Nat
        /\ \A i \in B : \E k \in 1..Len(rest) : rest[k] = i
        /\ \A k \in 1..Len(rest) : rest[k] \in B
    BY <1>1, <1>2, SortedIsOrder
  <1>4. ids = SubSeq(rest, 1, n)
    BY DEF FirstPage, rest
  <1>5. n \in Nat /\ n <= Len(rest) /\ (n < Len(rest) => n = Limit)
    BY <1>3, QueriesAssumption
  <1> HIDE DEF n, ids
  <1>6. \A k \in 1..n : rest[k] \in B
    BY <1>3, <1>5
  <1>7. ids \in Seq(B) /\ Len(ids) = n /\ \A k \in 1..n : ids[k] = rest[k]
    BY <1>4, <1>5, <1>6, SubSeqProperties
  <1> QED
    BY <1>3, <1>5, <1>7 DEF B, rest, ids

\* A page that is accepted holds the ids the node listed, and its cursor and more.
LEMMA PageIsRead ==
  ASSUME NEW c \in Chains, NEW method \in ListingMethods, NEW cursor, NEW filter
  PROVE  LET result == Page(method, PageJson(c, Question(method, << >>, cursor, {}, filter)))
             ids    == FirstPage(c, cursor)
         IN  /\ result.kind \in {"value", "ValidationError"}
             /\ result.kind = "value" =>
                  /\ IdsOf(method, result.value.data) = ids
                  /\ Len(result.value.data) = Len(ids)
                  /\ result.value.next_cursor = IF ids = << >> THEN None ELSE Last(ids)
                  /\ result.value.has_next_page = (Len(Rest(c, cursor)) > Len(ids))
  <1> DEFINE q == Question(method, << >>, cursor, {}, filter)
             ids == FirstPage(c, cursor)
             last == IF ids = << >> THEN None ELSE Last(ids)
             more == Len(Rest(c, cursor)) > Len(ids)
             sent == [k \in DOMAIN ids |-> ItemJson(c, method, ids[k], {})]
             json == PageJson(c, q)
             items == [i \in DOMAIN json.data |-> Item(method, json.data[i])]
             result == Page(method, json)
  <1>1. /\ Len(ids) \in Nat /\ DOMAIN ids = 1..Len(ids)
        /\ ids = [k \in 1..Len(ids) |-> ids[k]] /\ \A k \in 1..Len(ids) : ids[k] \in Exist(c)
    <2>1. ids \in Seq(Behind(c, cursor))
      BY PageIsPrefix
    <2> HIDE DEF ids
    <2> QED
      BY <2>1 DEF Behind
  <1>2. json = [data |-> sent, nextCursor |-> last, hasNextPage |-> more]
    BY DEF PageJson, Question
  <1> HIDE DEF json, q
  <1>3. items = [k \in 1..Len(ids) |-> Item(method, ItemJson(c, method, ids[k], {}))]
    BY <1>1, <1>2
  <1> HIDE DEF ids, last, more
  <1>4. /\ PageKeys["data"] = "data" /\ PageKeys["next_cursor"] = "nextCursor"
        /\ PageKeys["has_next_page"] = "hasNextPage"
        /\ DOMAIN PageKeys = {"data", "next_cursor", "has_next_page"}
    BY DEF PageKeys
  <1> DEFINE model == Model(PageKeys, {"data", "has_next_page"}, json)
  <1>5. /\ model = [f \in {"data", "next_cursor", "has_next_page"} |-> model[f]]
        /\ model["next_cursor"] = last /\ model["has_next_page"] = more
    BY <1>2, <1>4 DEF Model
  <1> HIDE DEF model
  <1>6. \/ Invalid \in Range(items) /\ result = Raised("ValidationError")
        \/ Invalid \notin Range(items) /\ result = Value([model EXCEPT !.data = items])
    BY DEF Page, model
  <1>7. CASE Invalid \in Range(items) /\ result = Raised("ValidationError")
    BY <1>7 DEF Raised, json, q
  <1>8. CASE Invalid \notin Range(items) /\ result = Value([model EXCEPT !.data = items])
    <2>1. /\ result.kind = "value" /\ result.value.data = items
          /\ result.value.next_cursor = last /\ result.value.has_next_page = more
      BY <1>5, <1>8 DEF Value
    <2>2. \A k \in 1..Len(ids) : items[k] # Invalid
      BY <1>3, <1>8 DEF Range
    <2>3. \A k \in 1..Len(ids) : IdOf(method, items[k]) = ids[k]
      BY <1>1, <1>3, <2>2, ItemIsRead
    <2>4. DOMAIN items = 1..Len(ids) /\ Len(items) = Len(ids)
      BY <1>1, <1>3
    <2> HIDE DEF items
    <2>5. IdsOf(method, items) = ids
      BY <1>1, <2>3, <2>4 DEF IdsOf
    <2> HIDE DEF result
    <2> QED
      BY <2>1, <2>4, <2>5 DEF result, json, q, ids, last, more
  <1> QED
    BY <1>6, <1>7, <1>8

\* Of the objects asked for, those are returned that exist, in the order asked.
LEMMA ObjectsAreRead ==
  ASSUME NEW c \in Chains, NEW ids \in Seq(Ids), NEW shown \in Shown \cup {{}}
  PROVE  LET result == MultiGet([k \in DOMAIN ids |-> ObjectJson(c, ids[k], shown)])
             there  == Sorted({k \in DOMAIN ids : ids[k] \in Exist(c)})
         IN  /\ result.kind \in {"value", "ValidationError"}
             /\ result.kind = "value" =>
                  /\ Len(result.value) = Len(there)
                  /\ \A k \in DOMAIN result.value : Seen(result.value[k], ids[there[k]], c)
  <1> DEFINE json == [k \in DOMAIN ids |-> ObjectJson(c, ids[k], shown)]
             all == [i \in DOMAIN json |-> ObjectResponse(json[i]).data]
             places == {k \in DOMAIN ids : ids[k] \in Exist(c)}
             there == Sorted(places)
             result == MultiGet(json)
  <1>1. Len(ids) \in Nat /\ DOMAIN ids = 1..Len(ids) /\ \A k \in DOMAIN ids : ids[k] \in Ids
    OBVIOUS
  <1>2. /\ DOMAIN all = DOMAIN ids
        /\ \A k \in DOMAIN ids : all[k] = ObjectResponse(ObjectJson(c, ids[k], shown)).data
    OBVIOUS
  <1>3. \A k \in DOMAIN ids : /\ all[k] = None <=> ids[k] \notin Exist(c)
                              /\ (ids[k] \in Exist(c) /\ all[k] # Invalid) => Seen(all[k], ids[k], c)
    BY <1>1, <1>2, ResponseIsRead
  <1>4. {i \in DOMAIN all : all[i] # None} = places
    BY <1>2, <1>3
  <1>5. result = IF Invalid \in Range(all) THEN Raised("ValidationError")
                 ELSE Value([k \in DOMAIN there |-> all[there[k]]])
    <2> DEFINE known == Sorted({i \in DOMAIN all : all[i] # None})
    <2>1. result = IF Invalid \in Range(all) THEN Raised("ValidationError")
                   ELSE Value([k \in DOMAIN known |-> all[known[k]]])
      BY DEF MultiGet
    <2>2. known = there
      BY <1>4
    <2> HIDE DEF known, there, all, result
    <2> QED
      BY <2>1, <2>2
  <1>6. there \in Seq(places) /\ Len(there) \in Nat /\ DOMAIN there = 1..Len(there)
        /\ \A k \in DOMAIN there : there[k] \in places
    <2>1. places \in SUBSET (1..Len(ids)) /\ IsFiniteSet(1..Len(ids)) /\ places \subseteq Nat
      BY <1>1, FS_Interval
    <2>2. IsFiniteSet(places)
      BY <2>1, FS_Subset
    <2> HIDE DEF places
    <2>3. there \in Seq(places)
      BY <2>1, <2>2, SortedIsOrder
    <2> HIDE DEF there
    <2> QED
      BY <2>3
  <1> HIDE DEF all, there, json
  <1>7. CASE Invalid \in Range(all)
    BY <1>5, <1>7 DEF Raised, json
  <1>8. CASE Invalid \notin Range(all)
    <2> DEFINE given == [k \in DOMAIN there |-> all[there[k]]]
    <2>1. result.kind = "value" /\ result.value = given
      BY <1>5, <1>8 DEF Value
    <2>2. \A k \in DOMAIN there : all[there[k]] # Invalid
      BY <1>2, <1>6, <1>8 DEF Range
    <2>3. \A k \in DOMAIN there : Seen(given[k], ids[there[k]], c)
      BY <1>3, <1>6, <2>2
    <2>4. DOMAIN given = DOMAIN there /\ Len(given) = Len(there)
      BY <1>6
    <2> HIDE DEF given
    <2> QED
      BY <2>1, <2>3, <2>4 DEF there, json
  <1> QED
    BY <1>7, <1>8

\* What is made of an answer is true of the state the node gave it in.
LEMMA AnswerIsTrue ==
  ASSUME NEW c \in Chains, request \in Questions,
         request.method = "iota_getObject" => request.ids # << >>,
         request.method \in ListingMethods =>
           request = Question(request.method, << >>, request.cursor, {}, request.filter),
         reply = [ok |-> TRUE, body |-> [result |-> Answer(c, request)]],
         outcome' = Outcome(request.method, reply), request' = request
  PROVE  outcome'.kind \in Errors \cup {"value"} /\ TrueOf(c)'
  <1> DEFINE method == request.method
             answer == Answer(c, request)
  <1>1. /\ method \in Methods /\ request.ids \in Seq(Ids) /\ request.shown \in Shown \cup {{}}
        /\ request'.method = method /\ request'.ids = request.ids
        /\ request'.cursor = request.cursor
    BY DEF Questions
  <1>2. outcome' = Parsed(method, answer)
    <2>1. reply.ok /\ "error" \notin DOMAIN reply.body /\ reply.body.result = answer
      OBVIOUS
    <2> QED
      BY <2>1 DEF Outcome
  <1>3. CASE method = "iota_getObject"
    <2> DEFINE i == Head(request.ids)
               response == ObjectResponse(ObjectJson(c, i, request.shown))
    <2>1. i \in Ids
      BY <1>1, <1>3, HeadTailProperties
    <2>2. answer = ObjectJson(c, i, request.shown)
      BY <1>3 DEF Answer, ListingMethods
    <2>3. outcome' = GetObject(ObjectJson(c, i, request.shown))
      BY <1>2, <1>3, <2>2 DEF Parsed
    <2>4. /\ response.error = None <=> i \in Exist(c)
          /\ response.data = None <=> i \notin Exist(c)
          /\ (i \in Exist(c) /\ response.data # Invalid) => Seen(response.data, i, c)
      BY <1>1, <2>1, ResponseIsRead
    <2> HIDE DEF i, response
    <2>5. \/ outcome' = Raised("ValidationError")
          \/ outcome' = Raised("ObjectNotFoundError") /\ i \notin Exist(c)
          \/ outcome' = Value(response.data) /\ i \in Exist(c) /\ Seen(response.data, i, c)
      BY <2>3, <2>4 DEF GetObject, response
    <2>6. Head(request'.ids) = i
      BY <1>1 DEF i
    <2> QED
      BY <1>1, <1>3, <2>5, <2>6 DEF TrueOf, Raised, Value, Errors, ListingMethods
  <1>4. CASE method = "iota_multiGetObjects"
    <2> DEFINE json == [k \in DOMAIN request.ids |-> ObjectJson(c, request.ids[k], request.shown)]
               there == Sorted({k \in DOMAIN request.ids : request.ids[k] \in Exist(c)})
               result == MultiGet(json)
    <2>1. answer = json
      BY <1>4 DEF Answer, ListingMethods
    <2>2. outcome' = result
      BY <1>2, <1>4, <2>1 DEF Parsed
    <2>3. /\ result.kind \in {"value", "ValidationError"}
          /\ result.kind = "value" =>
               /\ Len(result.value) = Len(there)
               /\ \A k \in DOMAIN result.value : Seen(result.value[k], request.ids[there[k]], c)
      BY <1>1, ObjectsAreRead
    <2>4. Sorted({k \in DOMAIN request'.ids : request'.ids[k] \in Exist(c)}) = there
      BY <1>1
    <2> HIDE DEF there, result
    <2> QED
      BY <1>1, <1>4, <2>2, <2>3, <2>4 DEF TrueOf, Errors, ListingMethods
  <1>5. CASE method \in ListingMethods
    <2> DEFINE result == Page(method, PageJson(c, request))
               ids == FirstPage(c, request.cursor)
    <2>1. outcome' = result
      BY <1>2, <1>5 DEF Parsed, Answer, ListingMethods
    <2>2. request = Question(method, << >>, request.cursor, {}, request.filter)
      BY <1>5
    <2>3. /\ result.kind \in {"value", "ValidationError"}
          /\ result.kind = "value" =>
               /\ IdsOf(method, result.value.data) = ids
               /\ Len(result.value.data) = Len(ids)
               /\ result.value.has_next_page = (Len(Rest(c, request.cursor)) > Len(ids))
      BY <1>5, <2>2, PageIsRead
    <2> HIDE DEF result
    <2> QED
      BY <1>1, <1>5, <2>1, <2>3 DEF TrueOf, Errors, ListingMethods
  <1>6. CASE method \in {"iotax_getBalance", "iotax_getAllBalances"}
    <2> DEFINE count == Cardinality(Exist(c))
               model == Model(BalanceKeys, DOMAIN BalanceKeys, BalanceJson(c))
    <2>1. model # Invalid => model.coin_object_count = count
      <3> DEFINE json == BalanceJson(c)
      <3>1. "coinObjectCount" \in DOMAIN json /\ json["coinObjectCount"] = count
        BY DEF BalanceJson
      <3>2. /\ "coin_object_count" \in DOMAIN BalanceKeys
            /\ BalanceKeys["coin_object_count"] = "coinObjectCount"
        BY DEF BalanceKeys
      <3> HIDE DEF json, count
      <3> QED
        BY <3>1, <3>2 DEF Model, json
    <2> HIDE DEF model
    <2>2. CASE method = "iotax_getBalance"
      <3>1. outcome' = Single(model)
        BY <1>2, <2>2 DEF Parsed, Answer, ListingMethods, model
      <3> QED
        BY <1>1, <2>1, <2>2, <3>1 DEF Single, Raised, Value, TrueOf, Errors, ListingMethods
    <2>3. CASE method = "iotax_getAllBalances"
      <3> DEFINE json == IF Exist(c) = {} THEN << >> ELSE << BalanceJson(c) >>
                 all == [k \in DOMAIN json |-> Model(BalanceKeys, DOMAIN BalanceKeys, json[k])]
      <3>1. outcome' = IF Invalid \in Range(all) THEN Raised("ValidationError") ELSE Value(all)
        BY <1>2, <2>3 DEF Parsed, Answer, ListingMethods, AllBalances
      <3>2. IF Exist(c) = {} THEN all = << >> ELSE all = << model >>
        BY DEF model
      <3> HIDE DEF all
      <3>3. Exist(c) # {} => DOMAIN all = {1} /\ all[1] = model /\ all # << >>
        BY <3>2
      <3>4. Exist(c) = {} => DOMAIN all = {}
        BY <3>2
      <3>5. Invalid \notin Range(all) =>
              /\ all = << >> <=> Exist(c) = {}
              /\ \A k \in DOMAIN all : all[k].coin_object_count = count
        BY <2>1, <3>2, <3>3, <3>4 DEF Range
      <3>6. \/ outcome'.kind = "ValidationError"
            \/ outcome'.kind = "value" /\ outcome'.value = all /\ Invalid \notin Range(all)
        BY <3>1 DEF Raised, Value
      <3>7. CASE outcome'.kind = "ValidationError"
        BY <3>7 DEF TrueOf, Errors
      <3>8. CASE outcome'.kind = "value" /\ outcome'.value = all /\ Invalid \notin Range(all)
        <4>1. TrueOf(c)' <=>
                /\ outcome'.value = << >> <=> Exist(c) = {}
                /\ \A k \in DOMAIN outcome'.value :
                     outcome'.value[k].coin_object_count = Cardinality(Exist(c))
          BY <1>1, <2>3, <3>8 DEF TrueOf, ListingMethods
        <4> QED
          BY <3>5, <3>8, <4>1
      <3> QED
        BY <3>6, <3>7, <3>8
    <2> QED
      BY <1>6, <2>2, <2>3
  <1>7. CASE method = "iotax_getCoinMetadata"
    <2>1. outcome' = CoinMetadata(answer)
      BY <1>2, <1>7 DEF Parsed
    <2>2. CASE ~HasMetadata(c)
      <3>1. outcome' = Value(None)
        BY <1>7, <2>1, <2>2 DEF Answer, ListingMethods, CoinMetadata
      <3> QED
        BY <1>1, <1>7, <2>2, <3>1 DEF Value, TrueOf, ListingMethods
    <2>3. CASE HasMetadata(c)
      <3>1. outcome' = CoinMetadata(MetadataJson) /\ outcome'.value # None
        BY <1>7, <2>1, <2>3, NullAssumption DEF Answer, ListingMethods
      <3>2. outcome'.kind \in {"value", "ValidationError"}
        BY <3>1 DEF CoinMetadata, Single, Value, Raised
      <3> QED
        BY <1>1, <1>7, <2>3, <3>1, <3>2 DEF TrueOf, Errors, ListingMethods
    <2> QED
      BY <2>2, <2>3
  <1>8. CASE method \in {"iotax_getTotalSupply", "iota_getChainIdentifier", "rpc.discover",
                         "iota_executeTransactionBlock", "iota_dryRunTransactionBlock",
                         "iota_devInspectTransactionBlock"}
    <2>1. outcome'.kind \in {"value", "ValidationError"}
      BY <1>2, <1>8 DEF Parsed, Single, Value, Raised
    <2> QED
      BY <1>1, <1>8, <2>1 DEF TrueOf, Errors, ListingMethods
  <1> QED
    BY <1>1, <1>3, <1>4, <1>5, <1>6, <1>7, <1>8 DEF Methods, PlainMethods

-----------------------------------------------------------------------------
(* The induction.                                                          *)

LEMMA InitHolds == Init => IInv
  <1> SUFFICES ASSUME Init PROVE IInv
    OBVIOUS
  <1>1. chain \in Chains /\ steady = {} /\ window = {}
    BY QueriesAssumption DEF Init, Chains
  <1>2. TypeOK
    BY <1>1, QueriesAssumption DEF Init, TypeOK, Nothing, Chains
  <1>3. OneInstant /\ Asking /\ Answered
    BY DEF Init, OneInstant, Asking, Answered, Nothing
  <1>4. ListedOnce
    BY DEF Init, ListedOnce
  <1>5. Paging
    BY <1>1, NullAssumption, FS_EmptySet DEF Init, Paging, Methods, ListingMethods
  <1> QED
    BY <1>2, <1>3, <1>4, <1>5 DEF IInv

\* A question: its window begins with the chain of this moment.
LEMMA PostKeeps ==
  ASSUME IInv, NEW q \in Questions, Post(q), UNCHANGED << listing, steady >>,
         q.method = "iota_getObject" => q.ids # << >>,
         q.method \in ListingMethods => listing.method # None,
         listing.method # None =>
           /\ listing.more
           /\ q = Question(listing.method, << >>, listing.cursor, {}, ToRpcFilter(listing.filter))
  PROVE  IInv'
  <1>1. /\ phase' = "asked" /\ request' = q /\ reply' = None /\ outcome' = Nothing
        /\ window' = {chain} /\ chain' = chain /\ listing' = listing /\ steady' = steady
        /\ changes' = changes /\ errors' = errors
    BY DEF Post
  <1>2. q # None
    BY NullAssumption
  <1>4. TypeOK'
    BY <1>1 DEF IInv, TypeOK, Nothing, Exist
  <1>5. OneInstant' /\ Answered'
    BY <1>1 DEF OneInstant, Answered
  <1>6. Asking'
    BY <1>1, <1>2 DEF Asking
  <1>7. ListedOnce'
    BY <1>1 DEF IInv, ListedOnce
  <1>8. Paging'
    BY <1>1 DEF IInv, Paging, Exist
  <1> QED
    BY <1>4, <1>5, <1>6, <1>7, <1>8 DEF IInv

\* The questions of a program that does not page.
LEMMA LookupKeeps ==
  ASSUME IInv, NEW method \in Methods \ ListingMethods, NEW ids \in Seq(Ids),
         NEW shown \in Shown \cup {{}}, method = "iota_getObject" => ids # << >>,
         Lookup(Question(method, ids, None, shown, {}))
  PROVE  IInv'
  <1> DEFINE q == Question(method, ids, None, shown, {})
  <1>1. q \in Questions /\ q.method = method /\ q.ids = ids
    BY DEF Question, Questions
  <1>2. Post(q) /\ UNCHANGED << listing, steady >> /\ listing.method = None
    BY DEF Lookup
  <1> HIDE DEF q
  <1> QED
    BY <1>1, <1>2, PostKeeps

LEMMA NextPageKeeps == IInv /\ NextPage => IInv'
  <1> SUFFICES ASSUME IInv, NextPage PROVE IInv'
    OBVIOUS
  <1> DEFINE q == Question(listing.method, << >>, listing.cursor, {}, ToRpcFilter(listing.filter))
  <1>1. Post(q) /\ UNCHANGED << listing, steady >> /\ listing.more
    BY DEF NextPage
  <1>2. /\ listing.method \in ListingMethods /\ listing.method # None
        /\ listing.cursor \in Ids \cup {None}
        /\ ToRpcFilter(listing.filter) \in SUBSET Range(FilterKeys)
    BY <1>1, FilterTyped DEF IInv, Paging, TypeOK
  <1>3. q \in Questions /\ q.method = listing.method
    BY <1>2 DEF Question, Questions, Methods
  <1>4. q.method # "iota_getObject"
    BY <1>2, <1>3 DEF ListingMethods
  <1> HIDE DEF q
  <1> QED
    BY <1>1, <1>2, <1>3, <1>4, PostKeeps DEF q

\* A program begins to page before any call: all there is now is steady.
LEMMA StartListingKeeps ==
  ASSUME IInv, NEW method \in ListingMethods, NEW filter \in SUBSET DOMAIN FilterKeys,
         Cardinality(filter) \in {0, 1}, StartListing(method, filter)
  PROVE  IInv'
  <1>1. /\ request = None /\ phase = "idle" /\ listing.method = None
        /\ listing' = [listing EXCEPT !.method = method, !.filter = filter, !.more = TRUE]
        /\ steady' = Exist(chain) /\ chain' = chain /\ phase' = phase /\ request' = request
        /\ reply' = reply /\ outcome' = outcome /\ window' = window
        /\ changes' = changes /\ errors' = errors
    BY DEF StartListing
  <1>2. method # None
    BY NullAssumption DEF Methods
  <1>3. window = {} /\ outcome.kind \notin {"value", "ObjectNotFoundError"}
    BY <1>1 DEF IInv, Asking
  <1>4. /\ DOMAIN listing' = {"method", "filter", "cursor", "more", "got"}
        /\ listing'.method = method /\ listing'.filter = filter /\ listing'.more = TRUE
        /\ listing'.cursor = None /\ listing'.got = << >>
    BY <1>1 DEF IInv, Paging
  <1>5. TypeOK'
    BY <1>1, <1>4 DEF IInv, TypeOK, Exist
  <1>6. OneInstant' /\ Answered' /\ Asking'
    BY <1>1, <1>3 DEF IInv, OneInstant, Answered, Asking
  <1>7. ListedOnce'
    BY <1>4 DEF ListedOnce
  <1>8. Paging'
    BY <1>1, <1>2, <1>3, <1>4 DEF Paging, Exist
  <1> QED
    BY <1>5, <1>6, <1>7, <1>8 DEF IInv

LEMMA QueryEventsKeeps ==
  ASSUME IInv, NEW fields \in Filters, QueryEvents(fields)
  PROVE  IInv'
  BY FilterAssumption, StartListingKeeps DEF QueryEvents, ListingMethods

LEMMA QueryEventsRaisesKeeps ==
  ASSUME IInv, NEW fields, QueryEventsRaises(fields)
  PROVE  IInv'
  <1>1. /\ outcome' = Raised("ValueError") /\ phase = "idle" /\ chain' = chain /\ phase' = phase
        /\ request' = request /\ reply' = reply /\ listing' = listing /\ window' = window
        /\ steady' = steady /\ changes' = changes /\ errors' = errors
    BY DEF QueryEventsRaises
  <1>2. outcome'.kind = "ValueError"
    BY <1>1 DEF Raised
  <1>3. TypeOK'
    BY <1>1, <1>2 DEF IInv, TypeOK, Errors, Exist
  <1>4. OneInstant' /\ Answered' /\ Asking'
    BY <1>1, <1>2 DEF IInv, OneInstant, Answered, Asking
  <1>5. ListedOnce' /\ Paging'
    BY <1>1 DEF IInv, ListedOnce, Paging, Exist
  <1> QED
    BY <1>3, <1>4, <1>5 DEF IInv

\* A response is kept with the window it was given in.
LEMMA ReplyKeeps ==
  ASSUME IInv, NEW response, Reply(response), errors' \in 0..MaxErrors,
         \/ response.ok \in BOOLEAN /\ response.body = [error |-> "given"]
         \/ response = [ok |-> TRUE, body |-> [result |-> Answer(chain, request)]]
  PROVE  IInv'
  <1>1. /\ phase = "asked" /\ phase' = "answered" /\ reply' = response /\ chain' = chain
        /\ request' = request /\ outcome' = outcome /\ listing' = listing /\ window' = window
        /\ steady' = steady /\ changes' = changes
    BY DEF Reply
  <1>2. TypeOK'
    <2>1. response.ok \in BOOLEAN
      <3>1. ASSUME response = [ok |-> TRUE, body |-> [result |-> Answer(chain, request)]]
            PROVE  response.ok = TRUE
        BY <3>1
      <3> QED
        BY <3>1
    <2> QED
      BY <1>1, <2>1 DEF IInv, TypeOK, Exist
  <1>3. OneInstant'
    BY <1>1 DEF OneInstant
  <1>4. Asking'
    BY <1>1 DEF IInv, Asking
  <1>5. Answered'
    <2>1. chain \in window
      BY <1>1 DEF IInv, Asking
    <2>2. \/ reply'.ok \in BOOLEAN /\ reply'.body = [error |-> "given"]
          \/ \E c \in window : reply' = [ok |-> TRUE, body |-> [result |-> Answer(c, request)]]
      BY <1>1, <2>1
    <2>3. \A c : Answer(c, request)' = Answer(c, request)
      BY <1>1 DEF Answer, ObjectJson, PageJson, ItemJson, BalanceJson, HasMetadata, MetadataJson
    <2> QED
      BY <1>1, <2>2 DEF Answered
  <1>6. ListedOnce' /\ Paging'
    BY <1>1 DEF IInv, ListedOnce, Paging, Exist
  <1> QED
    BY <1>2, <1>3, <1>4, <1>5, <1>6 DEF IInv

\* The chain moves: the window grows, and what was removed is not steady.
LEMMA ChangeKeeps ==
  ASSUME IInv, NEW i \in Ids, Change(i)
  PROVE  IInv'
  <1>1. /\ changes' = changes + 1 /\ changes < MaxChanges
        /\ window' = IF phase = "idle" THEN window ELSE window \cup {chain'}
        /\ steady' = steady \cap Exist(chain')
        /\ phase' = phase /\ request' = request /\ reply' = reply /\ outcome' = outcome
        /\ listing' = listing /\ errors' = errors
    BY DEF Change
  <1>2. chain' \in Chains
    <2>1. PICK v \in {0, chain[i] + 1} : v <= MaxVersion /\ chain' = [chain EXCEPT ![i] = v]
      BY DEF Change
    <2>2. chain \in [Ids -> 0..MaxVersion]
      BY DEF IInv, TypeOK
    <2>3. chain[i] \in 0..MaxVersion
      BY <2>2
    <2>4. v \in 0..MaxVersion
      BY <2>1, <2>3, QueriesAssumption
    <2> QED
      BY <2>1, <2>2, <2>4 DEF Chains
  <1>3. TypeOK'
    <2>1. changes' \in 0..MaxChanges
      BY <1>1, QueriesAssumption DEF IInv, TypeOK
    <2>2. window' \subseteq [Ids -> 0..MaxVersion]
      BY <1>1, <1>2 DEF IInv, TypeOK, Chains
    <2> QED
      BY <1>1, <1>2, <2>1, <2>2 DEF IInv, TypeOK, Chains, Exist
  <1>4. OneInstant'
    <2>1. CASE phase = "idle"
      <3>1. ASSUME NEW c, TrueOf(c) PROVE TrueOf(c)'
        BY <1>1, <3>1 DEF TrueOf
      <3>2. OneInstant /\ window' = window
        BY <1>1, <2>1 DEF IInv
      <3> QED
        BY <1>1, <3>1, <3>2 DEF OneInstant
    <2>2. CASE phase # "idle"
      BY <1>1, <2>2 DEF OneInstant
    <2> QED
      BY <2>1, <2>2
  <1>5. Asking'
    <2>1. request = None => phase = "idle"
      BY NullAssumption DEF IInv, Asking
    <2> QED
      BY <1>1, <2>1 DEF IInv, Asking
  <1>6. Answered'
    BY <1>1 DEF IInv, Answered
  <1>7. ListedOnce'
    BY <1>1 DEF IInv, ListedOnce
  <1>8. Paging'
    <2>1. \A c \in window' \cup {chain'} : steady' \subseteq Exist(c)
      BY <1>1 DEF IInv, Paging
    <2> QED
      BY <1>1, <2>1 DEF IInv, Paging
  <1> QED
    BY <1>3, <1>4, <1>5, <1>6, <1>7, <1>8 DEF IInv

\* A call that brings nothing leaves the listing as it was.
LEMMA EmptyHandedKeeps ==
  ASSUME IInv, phase # "idle", NEW result, End(result), result.kind \in Errors,
         errors' \in 0..MaxErrors,
         (outcome'.kind = "ObjectNotFoundError") => \E c \in window : TrueOf(c)'
  PROVE  IInv'
  <1>1. /\ phase' = "idle" /\ reply' = None /\ outcome' = result /\ listing' = listing
        /\ chain' = chain /\ request' = request /\ window' = window /\ steady' = steady
        /\ changes' = changes
    BY DEF End, Collected, Errors
  <1>2. TypeOK'
    BY <1>1 DEF IInv, TypeOK, Errors, Exist
  <1>3. OneInstant'
    BY <1>1 DEF OneInstant, Errors
  <1>4. Asking' /\ Answered'
    BY <1>1, NullAssumption DEF IInv, Asking, Answered
  <1>5. ListedOnce' /\ Paging'
    BY <1>1 DEF IInv, ListedOnce, Paging, Exist
  <1> QED
    BY <1>2, <1>3, <1>4, <1>5 DEF IInv

LEMMA GiveUpKeeps == IInv /\ GiveUp => IInv'
  <1> SUFFICES ASSUME IInv, GiveUp PROVE IInv'
    OBVIOUS
  <1>1. /\ phase # "idle" /\ errors < MaxErrors /\ errors' = errors + 1
        /\ End(Raised("HTTPError")) /\ outcome' = Raised("HTTPError")
    BY DEF GiveUp, End
  <1>2. errors' \in 0..MaxErrors
    BY <1>1, QueriesAssumption DEF IInv, TypeOK
  <1>3. Raised("HTTPError").kind = "HTTPError"
    BY DEF Raised
  <1>4. Raised("HTTPError").kind \in Errors
    BY <1>3 DEF Errors
  <1>5. outcome'.kind # "ObjectNotFoundError"
    BY <1>1, <1>3
  <1> QED
    BY <1>1, <1>2, <1>4, <1>5, EmptyHandedKeeps

\* What a page adds to the list: it goes on from the cursor, in order, and leaves
\* out only what is behind the new cursor.
LEMMA PageIsAppended ==
  ASSUME NEW c \in Chains, NEW got \in Seq(Ids), NEW cursor \in Ids \cup {None},
         IF got = << >> THEN cursor = None ELSE cursor = Last(got),
         \A k \in 2..Len(got) : got[k - 1] < got[k],
         \A i \in steady : i \in Range(got) \/ cursor = None \/ i > cursor,
         steady \subseteq Exist(c)
  PROVE  LET ids  == FirstPage(c, cursor)
             last == IF ids = << >> THEN None ELSE Last(ids)
             more == Len(Rest(c, cursor)) > Len(ids)
             all  == got \o ids
         IN  /\ all \in Seq(Ids) /\ last \in Ids \cup {None} /\ more \in BOOLEAN
             /\ \A k \in 2..Len(all) : all[k - 1] < all[k]
             /\ ~more => steady \subseteq Range(all)
             /\ more =>
                  /\ IF all = << >> THEN last = None ELSE last = Last(all)
                  /\ \A i \in steady : i \in Range(all) \/ last = None \/ i > last
  <1> DEFINE rest == Rest(c, cursor)
             ids  == FirstPage(c, cursor)
             last == IF ids = << >> THEN None ELSE Last(ids)
             more == Len(rest) > Len(ids)
             all  == got \o ids
  <1>1. /\ rest \in Seq(Behind(c, cursor)) /\ Increasing(rest, Len(rest))
        /\ \A i \in Behind(c, cursor) : \E k \in 1..Len(rest) : rest[k] = i
        /\ ids \in Seq(Behind(c, cursor)) /\ Len(ids) <= Len(rest)
        /\ Len(ids) < Len(rest) => Len(ids) = Limit
        /\ \A k \in 1..Len(ids) : ids[k] = rest[k]
    <2> HIDE DEF last, more, all
    <2>1. rest \in Seq(Behind(c, cursor))
      BY PageIsPrefix
    <2>2. Increasing(rest, Len(rest))
      BY PageIsPrefix
    <2>3. \A i \in Behind(c, cursor) : \E k \in 1..Len(rest) : rest[k] = i
      BY PageIsPrefix
    <2>4. ids \in Seq(Behind(c, cursor)) /\ Len(ids) <= Len(rest)
      BY PageIsPrefix
    <2>5. Len(ids) < Len(rest) => Len(ids) = Limit
      BY PageIsPrefix
    <2>6. \A k \in 1..Len(ids) : ids[k] = rest[k]
      BY PageIsPrefix
    <2> QED
      BY <2>1, <2>2, <2>3, <2>4, <2>5, <2>6
  <1> HIDE DEF rest, ids
  <1>2. Behind(c, cursor) \subseteq Ids
    BY DEF Behind, Exist
  <1>3. /\ Len(ids) \in Nat /\ Len(rest) \in Nat /\ Len(got) \in Nat
        /\ ids \in Seq(Ids) /\ rest \in Seq(Ids)
        /\ \A k \in 1..Len(ids) : ids[k] \in Behind(c, cursor)
    BY <1>1, <1>2
  <1>4. /\ all \in Seq(Ids) /\ Len(all) = Len(got) + Len(ids)
        /\ \A k \in 1..Len(got) : all[k] = got[k]
        /\ \A k \in 1..Len(ids) : all[Len(got) + k] = ids[k]
    <2>1. /\ all \in Seq(Ids) /\ Len(all) = Len(got) + Len(ids)
          /\ \A k \in 1..Len(got) + Len(ids) :
               all[k] = IF k <= Len(got) THEN got[k] ELSE ids[k - Len(got)]
      BY <1>3, ConcatProperties
    <2> HIDE DEF all
    <2>2. ASSUME NEW k \in 1..Len(got) PROVE all[k] = got[k]
      BY <1>3, <2>1
    <2>3. ASSUME NEW k \in 1..Len(ids) PROVE all[Len(got) + k] = ids[k]
      <3>1. Len(got) + k \in 1..Len(got) + Len(ids) /\ ~(Len(got) + k <= Len(got))
            /\ Len(got) + k - Len(got) = k
        BY <1>3
      <3> QED
        BY <2>1, <3>1
    <2> QED
      BY <2>1, <2>2, <2>3
  <1> HIDE DEF all
  <1>5. last \in Ids \cup {None} /\ more \in BOOLEAN
    <2>1. ids # << >> => Len(ids) \in 1..Len(ids)
      BY <1>3, EmptySeq
    <2> QED
      BY <1>2, <1>3, <2>1 DEF Last
  <1>6. \A k \in 1..Len(got) : got[k] \in Ids
    OBVIOUS
  <1>7. ASSUME NEW k \in 2..Len(all) PROVE all[k - 1] < all[k]
    <2>1. CASE k <= Len(got)
      <3>1. k \in 2..Len(got) /\ k - 1 \in 1..Len(got) /\ k \in 1..Len(got)
        BY <1>3, <2>1
      <3> QED
        BY <1>4, <3>1
    <2>2. CASE k = Len(got) + 1 /\ Len(got) # 0
      <3>1. Len(got) \in 1..Len(got) /\ 1 \in 1..Len(ids)
        BY <1>3, <1>4, <2>2
      <3>2. all[k] = ids[1] /\ all[k - 1] = got[Len(got)]
        BY <1>3, <1>4, <2>2, <3>1
      <3>3. cursor = got[Len(got)] /\ cursor \in Ids /\ cursor # None
        BY <1>6, <2>2, <3>1, NullAssumption DEF Last
      <3>4. ids[1] > cursor
        BY <1>3, <3>1, <3>3 DEF Behind
      <3>5. ids[1] \in Nat /\ cursor \in Nat
        BY <1>2, <1>3, <3>1, <3>3, QueriesAssumption
      <3> QED
        BY <3>2, <3>3, <3>4, <3>5
    <2>3. CASE k > Len(got) + 1
      <3> DEFINE j == k - Len(got)
      <3>1. j \in 1..Len(ids) /\ j - 1 \in 1..Len(ids) /\ j - 1 < j
        BY <1>3, <1>4, <2>3
      <3>2. all[k] = ids[j] /\ all[k - 1] = ids[j - 1]
        <4>1. Len(got) + j = k /\ Len(got) + (j - 1) = k - 1
          BY <1>3
        <4> HIDE DEF j
        <4> QED
          BY <1>4, <3>1, <4>1
      <3> HIDE DEF j
      <3>3. j \in 1..Len(rest) /\ j - 1 \in 1..Len(rest)
        <4>1. Len(ids) <= Len(rest)
          BY <1>1
        <4> QED
          BY <1>3, <3>1, <4>1
      <3> QED
        BY <1>1, <3>1, <3>2, <3>3 DEF Increasing
    <2>4. k = Len(got) + 1 /\ Len(got) = 0 => FALSE
      BY <1>3
    <2>5. k \in Int
      BY <1>3, <1>4
    <2> QED
      BY <1>3, <2>1, <2>2, <2>3, <2>4, <2>5
  <1>8. /\ Range(got) \subseteq Range(all)
        /\ \A k \in 1..Len(ids) : ids[k] \in Range(all)
    <2>1. DOMAIN all = 1..Len(all) /\ DOMAIN got = 1..Len(got)
      BY <1>4
    <2>2. \A k \in 1..Len(got) : k \in DOMAIN all
      BY <1>3, <1>4, <2>1
    <2>3. \A k \in 1..Len(ids) : Len(got) + k \in DOMAIN all
      BY <1>3, <1>4, <2>1
    <2> QED
      BY <1>4, <2>1, <2>2, <2>3 DEF Range
  \* What is steady and not listed yet has its place in the rest.
  <1>9. ASSUME NEW i \in steady, i \notin Range(all)
        PROVE  \E k \in 1..Len(rest) : rest[k] = i /\ k > Len(ids)
    <2>1. i \in Behind(c, cursor)
      BY <1>8, <1>9 DEF Behind
    <2>2. PICK k \in 1..Len(rest) : rest[k] = i
      BY <1>1, <2>1
    <2>3. k \notin 1..Len(ids)
      BY <1>1, <1>8, <1>9, <2>2
    <2> QED
      BY <1>3, <2>2, <2>3
  <1>10. ~more => steady \subseteq Range(all)
    BY <1>3, <1>9
  <1>11. ASSUME more PROVE ids # << >> /\ last = rest[Len(ids)] /\ Len(ids) \in 1..Len(rest)
    <2>1. Len(ids) = Limit
      BY <1>1, <1>11
    <2>2. Len(ids) \in 1..Len(ids) /\ Len(ids) \in 1..Len(rest)
      BY <1>1, <1>3, <2>1, QueriesAssumption
    <2>3. ids # << >>
      BY <1>3, <2>2, EmptySeq
    <2> QED
      BY <1>1, <2>2, <2>3 DEF Last
  <1>12. ASSUME more PROVE IF all = << >> THEN last = None ELSE last = Last(all)
    <2>1. Len(ids) \in 1..Len(ids) /\ last = ids[Len(ids)]
      <3>1. last = rest[Len(ids)] /\ Len(ids) \in 1..Len(rest)
        BY <1>11, <1>12
      <3>2. Len(ids) \in 1..Len(ids)
        BY <3>1
      <3> QED
        BY <1>1, <3>1, <3>2
    <2>2. last = all[Len(all)] /\ Len(all) # 0
      BY <1>3, <1>4, <2>1
    <2>3. all # << >>
      BY <2>2, EmptySeq
    <2> HIDE DEF last
    <2> QED
      BY <2>2, <2>3 DEF Last
  <1>13. ASSUME more, NEW i \in steady PROVE i \in Range(all) \/ last = None \/ i > last
    <2> SUFFICES ASSUME i \notin Range(all) PROVE i > last
      OBVIOUS
    <2>1. PICK k \in 1..Len(rest) : rest[k] = i /\ k > Len(ids)
      BY <1>9
    <2>2. last = rest[Len(ids)] /\ Len(ids) \in 1..Len(rest) /\ Len(ids) < k
      BY <1>3, <1>11, <1>13, <2>1
    <2> HIDE DEF last
    <2> QED
      BY <1>1, <2>1, <2>2 DEF Increasing
  <1> QED
    BY <1>4, <1>5, <1>7, <1>10, <1>12, <1>13 DEF rest, ids, all

\* A call that brings a value, which is true of c; a page is added to the list.
LEMMA ValueKeeps ==
  ASSUME IInv, Receive, NEW c \in window, TrueOf(c)',
         reply = [ok |-> TRUE, body |-> [result |-> Answer(c, request)]],
         outcome'.kind = "value"
  PROVE  IInv'
  <1> DEFINE result == Outcome(request.method, reply)
             v == result.value
  <1>1. /\ phase = "answered" /\ phase' = "idle" /\ reply' = None /\ outcome' = result
        /\ listing' = IF ~listing.more THEN listing
                      ELSE [listing EXCEPT !.cursor = v.next_cursor,
                                           !.more   = v.has_next_page,
                                           !.got    = @ \o IdsOf(listing.method, v.data)]
        /\ chain' = chain /\ request' = request /\ window' = window /\ steady' = steady
        /\ changes' = changes /\ errors' = errors
    BY DEF Receive, End, Collected
  <1>2. OneInstant'
    BY <1>1 DEF OneInstant
  <1>3. Asking' /\ Answered'
    BY <1>1, NullAssumption DEF IInv, Asking, Answered
  <1> HIDE DEF v, result
  <1>4. CASE ~listing.more
    <2>1. listing' = listing
      BY <1>1, <1>4
    <2>2. TypeOK'
      BY <1>1, <2>1 DEF IInv, TypeOK, Exist
    <2>3. ListedOnce' /\ Paging'
      BY <1>1, <2>1 DEF IInv, ListedOnce, Paging, Exist
    <2> QED
      BY <1>2, <1>3, <2>2, <2>3 DEF IInv
  <1>5. CASE listing.more
    <2> DEFINE method == listing.method
               cursor == listing.cursor
               got == listing.got
               ids == FirstPage(c, cursor)
               last == IF ids = << >> THEN None ELSE Last(ids)
               more == Len(Rest(c, cursor)) > Len(ids)
               all == got \o ids
    <2>1. /\ method \in ListingMethods /\ method # None
          /\ request = Question(method, << >>, cursor, {}, ToRpcFilter(listing.filter))
      BY <1>1, <1>5 DEF IInv, Asking, Paging
    <2>2. result = Page(method, PageJson(c, Question(method, << >>, cursor, {}, ToRpcFilter(listing.filter))))
      <3>1. request.method = method
        BY <2>1 DEF Question
      <3>2. Answer(c, request) = PageJson(c, request)
        BY <2>1, <3>1 DEF Answer, ListingMethods
      <3>3. result = Parsed(method, PageJson(c, request))
        <4>1. reply.ok /\ "error" \notin DOMAIN reply.body /\ reply.body.result = Answer(c, request)
          OBVIOUS
        <4> QED
          BY <3>1, <3>2, <4>1 DEF Outcome, result
      <3>4. result = Page(method, PageJson(c, request))
        BY <2>1, <3>3 DEF Parsed, ListingMethods
      <3> QED
        BY <2>1, <3>4
    <2>3. c \in Chains
      BY DEF IInv, TypeOK, Chains
    <2>4. /\ IdsOf(method, v.data) = ids /\ v.next_cursor = last /\ v.has_next_page = more
      <3>1. result.kind = "value"
        BY <1>1
      <3> QED
        BY <2>1, <2>2, <2>3, <3>1, PageIsRead DEF v
    <2>5. /\ DOMAIN listing' = DOMAIN listing
          /\ listing'.method = method /\ listing'.filter = listing.filter
          /\ listing'.cursor = last /\ listing'.more = more /\ listing'.got = all
      <3>1. DOMAIN listing = {"method", "filter", "cursor", "more", "got"}
        BY DEF IInv, Paging
      <3> HIDE DEF ids, last, more
      <3> QED
        BY <1>1, <1>5, <2>4, <3>1
    <2>6. /\ got \in Seq(Ids) /\ cursor \in Ids \cup {None}
          /\ IF got = << >> THEN cursor = None ELSE cursor = Last(got)
          /\ \A k \in 2..Len(got) : got[k - 1] < got[k]
          /\ \A i \in steady : i \in Range(got) \/ cursor = None \/ i > cursor
          /\ steady \subseteq Exist(c)
      BY <1>5 DEF IInv, TypeOK, ListedOnce, Paging
    <2>7. /\ all \in Seq(Ids) /\ last \in Ids \cup {None} /\ more \in BOOLEAN
          /\ \A k \in 2..Len(all) : all[k - 1] < all[k]
          /\ ~more => steady \subseteq Range(all)
          /\ more => /\ IF all = << >> THEN last = None ELSE last = Last(all)
                     /\ \A i \in steady : i \in Range(all) \/ last = None \/ i > last
      <3> HIDE DEF got, cursor
      <3> QED
        BY <2>3, <2>6, PageIsAppended
    <2> HIDE DEF ids, last, more, all
    <2>8. TypeOK'
      BY <1>1, <2>5, <2>7 DEF IInv, TypeOK, Exist
    <2>9. ListedOnce'
      BY <1>1, <2>5, <2>7 DEF ListedOnce
    <2>10. Paging'
      BY <1>1, <2>1, <2>5, <2>7 DEF IInv, Paging, Exist
    <2> QED
      BY <1>2, <1>3, <2>8, <2>9, <2>10 DEF IInv
  <1> QED
    BY <1>4, <1>5

LEMMA ReceiveKeeps == IInv /\ Receive => IInv'
  <1> SUFFICES ASSUME IInv, Receive PROVE IInv'
    OBVIOUS
  <1> DEFINE result == Outcome(request.method, reply)
  <1>1. /\ phase = "answered" /\ End(result) /\ outcome' = result /\ request' = request
        /\ errors' \in 0..MaxErrors
    BY DEF Receive, End, IInv, TypeOK
  <1>2. CASE reply.ok \in BOOLEAN /\ reply.body = [error |-> "given"]
    <2>1. result.kind \in {"HTTPError", "RpcError"}
      BY <1>2 DEF Outcome, Raised
    <2>2. result.kind \in Errors /\ outcome'.kind # "ObjectNotFoundError"
      BY <1>1, <2>1 DEF Errors
    <2> HIDE DEF result
    <2> QED
      BY <1>1, <2>2, EmptyHandedKeeps
  <1>3. ASSUME NEW c \in window,
               reply = [ok |-> TRUE, body |-> [result |-> Answer(c, request)]]
        PROVE  IInv'
    <2>1. c \in Chains /\ request \in Questions
      BY <1>1 DEF IInv, TypeOK, Asking, Chains
    <2>2. request.method = "iota_getObject" => request.ids # << >>
      BY <1>1 DEF IInv, Asking
    <2>3. request.method \in ListingMethods =>
            request = Question(request.method, << >>, request.cursor, {}, request.filter)
      <3> SUFFICES ASSUME request.method \in ListingMethods
                   PROVE  request = Question(request.method, << >>, request.cursor, {}, request.filter)
        OBVIOUS
      <3>1. request = Question(listing.method, << >>, listing.cursor, {}, ToRpcFilter(listing.filter))
        BY <1>1 DEF IInv, Asking
      <3>2. request.method = listing.method /\ request.cursor = listing.cursor
            /\ request.filter = ToRpcFilter(listing.filter)
        BY <3>1 DEF Question
      <3> QED
        BY <3>1, <3>2
    <2>4. outcome'.kind \in Errors \cup {"value"} /\ TrueOf(c)'
      BY <1>1, <1>3, <2>1, <2>2, <2>3, AnswerIsTrue
    <2>5. CASE outcome'.kind = "value"
      BY <1>3, <2>4, <2>5, ValueKeeps
    <2>6. CASE outcome'.kind \in Errors
      <3> HIDE DEF result
      <3> QED
        BY <1>1, <2>4, <2>6, EmptyHandedKeeps
    <2> QED
      BY <2>4, <2>5, <2>6
  <1> QED
    BY <1>1, <1>2, <1>3 DEF IInv, Answered

LEMMA NextHolds == IInv /\ [Next]_vars => IInv'
  <1> SUFFICES ASSUME IInv, [Next]_vars PROVE IInv'
    OBVIOUS
  <1>1. ASSUME NEW shown \in Shown, AskTransaction(shown) PROVE IInv'
    BY <1>1, LookupKeeps, EmptySeq DEF AskTransaction, Methods, ListingMethods
  <1>2. ASSUME NEW shown \in Shown, NEW i \in Ids, AskObject(i, shown) PROVE IInv'
    <2>1. << i >> \in Seq(Ids) /\ << i >> # << >>
      OBVIOUS
    <2> QED
      BY <1>2, <2>1, LookupKeeps DEF AskObject, Methods, ListingMethods
  <1>3. ASSUME NEW shown \in Shown, NEW ids \in Asked, AskObjects(ids, shown) PROVE IInv'
    BY <1>3, LookupKeeps, QueriesAssumption DEF AskObjects, Methods, ListingMethods
  <1>4. ASSUME NEW method \in PlainMethods, AskPlain(method) PROVE IInv'
    BY <1>4, LookupKeeps, EmptySeq DEF AskPlain, Methods, PlainMethods, ListingMethods
  <1>5. CASE DryRun
    BY <1>5, LookupKeeps, EmptySeq DEF DryRun, Methods, ListingMethods
  <1>6. CASE DevInspect
    BY <1>6, LookupKeeps, EmptySeq DEF DevInspect, Methods, ListingMethods
  <1>7. ASSUME NEW method \in {"iotax_getOwnedObjects", "iotax_getCoins"},
               StartListing(method, {})
        PROVE  IInv'
    BY <1>7, FS_EmptySet, StartListingKeeps DEF ListingMethods
  <1>8. ASSUME NEW fields \in Filters, QueryEvents(fields) \/ QueryEventsRaises(fields)
        PROVE  IInv'
    BY <1>8, QueryEventsKeeps, QueryEventsRaisesKeeps
  <1>9. CASE NextPage
    BY <1>9, NextPageKeeps
  <1>10. CASE Receive
    BY <1>10, ReceiveKeeps
  <1>11. CASE GiveUp
    BY <1>11, GiveUpKeeps
  <1>12. CASE Respond
    <2>1. errors' \in 0..MaxErrors
      BY <1>12 DEF Respond, IInv, TypeOK
    <2> QED
      BY <1>12, <2>1, ReplyKeeps DEF Respond
  <1>13. CASE Refuse
    <2>1. errors' \in 0..MaxErrors
      BY <1>13, QueriesAssumption DEF Refuse, IInv, TypeOK
    <2>2. PICK ok \in BOOLEAN : Reply([ok |-> ok, body |-> [error |-> "given"]])
      BY <1>13 DEF Refuse
    <2>3. /\ [ok |-> ok, body |-> [error |-> "given"]].ok \in BOOLEAN
          /\ [ok |-> ok, body |-> [error |-> "given"]].body = [error |-> "given"]
      OBVIOUS
    <2> QED
      BY <2>1, <2>2, <2>3, ReplyKeeps
  <1>14. ASSUME NEW i \in Ids, Change(i) PROVE IInv'
    BY <1>14, ChangeKeeps
  <1>15. CASE UNCHANGED vars
    <2>1. TypeOK' /\ Paging'
      BY <1>15 DEF vars, IInv, TypeOK, Paging, Exist
    <2>2. OneInstant'
      <3>1. phase' = phase /\ outcome' = outcome /\ window' = window /\ request' = request
        BY <1>15 DEF vars
      <3>2. ASSUME NEW c, TrueOf(c) PROVE TrueOf(c)'
        BY <1>15, <3>2 DEF vars, TrueOf
      <3> QED
        BY <3>1, <3>2 DEF IInv, OneInstant
    <2>3. ListedOnce' /\ Asking' /\ Answered'
      BY <1>15 DEF vars, IInv, ListedOnce, Asking, Answered
    <2> QED
      BY <2>1, <2>2, <2>3 DEF IInv
  <1> QED
    BY <1>1, <1>2, <1>3, <1>4, <1>5, <1>6, <1>7, <1>8, <1>9, <1>10, <1>11, <1>12, <1>13,
       <1>14, <1>15 DEF Next

LEMMA Invariant == Spec => []IInv
  BY InitHolds, NextHolds, PTL DEF Spec

-----------------------------------------------------------------------------
(* The theorems.                                                           *)

\* The state has its shape: in particular a call that ends returns or raises one of
\* Errors, and has_next_page is a Boolean, so the paging loop can test it.
THEOREM TypeCorrect == Spec => []TypeOK
  <1>1. IInv => TypeOK
    BY DEF IInv
  <1> QED
    BY <1>1, Invariant, PTL

\* Of a filter that was not refused the node is sent everything (events.py:73-84).
THEOREM AlwaysFilterIsWhole == Spec => []FilterIsWhole
  <1>1. IInv => FilterIsWhole
    <2> SUFFICES ASSUME IInv, phase # "idle", listing.method # None
                 PROVE  request.filter = {FilterKeys[f] : f \in listing.filter}
      BY DEF FilterIsWhole
    <2>1. request.filter = ToRpcFilter(listing.filter)
      BY DEF IInv, Asking, Question
    <2>2. listing.filter \in SUBSET DOMAIN FilterKeys /\ Cardinality(listing.filter) \in {0, 1}
      BY DEF IInv, Paging
    <2> QED
      BY <2>1, <2>2, OneFieldIsSent
  <1> QED
    BY <1>1, Invariant, PTL

\* Whatever the transport and the chain do meanwhile, what a call returns was true at
\* one instant between its request and its reply, for every number of objects, page
\* size, list of ids and set of options (client.py:155-252).
THEOREM AlwaysOneInstant == Spec => []OneInstant
  <1>1. IInv => OneInstant
    BY DEF IInv
  <1> QED
    BY <1>1, Invariant, PTL

\* Handing each page's cursor to the next call lists no object twice, in order, and
\* in the end every object that existed all along, for every page size.
THEOREM AlwaysListedOnce == Spec => []ListedOnce
  <1>1. IInv => ListedOnce
    BY DEF IInv
  <1> QED
    BY <1>1, Invariant, PTL
=============================================================================
