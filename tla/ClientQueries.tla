--------------------------- MODULE ClientQueries ---------------------------
(***************************************************************************)
(* The queries of IotaClient and SyncIotaClient: a request, what the node  *)
(* answers, what the transport and the response models make of the answer, *)
(* and the loop that hands each page's cursor to the next call.            *)
(*                                                                         *)
(* The clients keep nothing between two calls, so one caller stands for    *)
(* all; the chain moves while a request or its reply is on its way.  JSON  *)
(* objects are records from keys to values.  An id stands for its place in *)
(* the order in which the node lists objects, and for its own cursor.      *)
(***************************************************************************)
EXTENDS Integers, Sequences, FiniteSets, SequencesExt

CONSTANTS
  Ids,         \* object ids, in listing order
  Limit,       \* the items of a page
  Asked,       \* the lists of ids a caller asks multi_get_objects for
  Shown,       \* the sets of show_* keywords a caller sets
  Filters,     \* the sets of fields a caller sets in an EventFilter
  None,        \* Python's None and JSON's null
  Invalid,     \* pydantic's ValidationError (KeyError for balances and coins)
  MaxVersion,  \* bound: versions of an object
  MaxChanges,  \* bound: changes of the chain
  MaxErrors,   \* bound: failed questions
  MaxItems     \* bound: items a caller collects

ASSUME QueriesAssumption ==
  /\ Ids \subseteq Nat \ {0} /\ Ids # {} /\ IsFiniteSet(Ids) /\ Limit \in Nat \ {0}
  /\ Asked \subseteq Seq(Ids)
  /\ MaxVersion \in Nat \ {0} /\ {MaxChanges, MaxErrors, MaxItems} \subseteq Nat

VARIABLES
  chain,    \* the node: the version of each object, 0 where there is none
  phase,    \* of the current call: "idle", "asked" or "answered"
  request,  \* what the current or last call posted
  reply,    \* the HTTP response to it
  outcome,  \* how the last call ended
  listing,  \* the paging loop: its method and EventFilter's fields, cursor, has_next_page, items
  window,   \* history: the chain's states since the request was posted
  steady,   \* history: the ids that existed ever since the listing began
  changes, errors

vars == << chain, phase, request, reply, outcome, listing, window, steady, changes, errors >>

-----------------------------------------------------------------------------
(* The response models: the key each field is read from, and the fields    *)
(* without a default.  A field's key is its alias, or its own name.  The   *)
(* default of the others is None, but for an object's version and digest.  *)

PageKeys == [data |-> "data", next_cursor |-> "nextCursor", has_next_page |-> "hasNextPage"]

ObjectKeys ==
  [object_id |-> "objectId", version |-> "version", digest |-> "digest", type |-> "type",
   owner |-> "owner", content |-> "content", bcs |-> "bcs", display |-> "display",
   previous_transaction |-> "previousTransaction", storage_rebate |-> "storageRebate"]

ContentKeys ==
  [data_type |-> "data_type", type |-> "type", has_public_transfer |-> "has_public_transfer",
   fields |-> "fields", bcs_bytes |-> "bcs_bytes"]

CoinKeys ==
  [coin_type |-> "coinType", coin_object_id |-> "coinObjectId", version |-> "version",
   digest |-> "digest", balance |-> "balance"]

EventKeys ==
  [id |-> "id", package_id |-> "packageId", transaction_module |-> "transactionModule",
   sender |-> "sender", type |-> "type", parsed_json |-> "parsedJson", bcs |-> "bcs",
   timestamp_ms |-> "timestampMs"]

TransactionKeys ==
  [digest |-> "digest", effects |-> "effects", events |-> "events",
   object_changes |-> "object_changes", balance_changes |-> "balance_changes",
   timestamp_ms |-> "timestamp_ms", errors |-> "errors", raw_transaction |-> "raw_transaction"]

DryRunKeys == [effects |-> "effects", events |-> "events", object_changes |-> "object_changes",
               balance_changes |-> "balance_changes", input |-> "input"]

InspectKeys == [effects |-> "effects", events |-> "events", results |-> "results", error |-> "error"]

BalanceKeys == [coin_type |-> "coinType", coin_object_count |-> "coinObjectCount",
                total_balance |-> "totalBalance"]

MetadataKeys == [decimals |-> "decimals", name |-> "name", symbol |-> "symbol",
                 description |-> "description", icon_url |-> "icon_url", id |-> "id"]

SupplyKeys == [value |-> "value"]

\* What was sent, and the entries of extra that it lacks.
With(sent, extra) ==
  [f \in DOMAIN sent \union DOMAIN extra |-> IF f \in DOMAIN sent THEN sent[f] ELSE extra[f]]

ObjectDefaults == [version |-> 0, digest |-> ""]

\* Other keys are ignored, and a missing one is None.
Model(keys, required, json) ==
  IF \E f \in required : keys[f] \notin DOMAIN json THEN Invalid
  ELSE [f \in DOMAIN keys |-> IF keys[f] \in DOMAIN json THEN json[keys[f]] ELSE None]

ObjectData(json) ==
  LET object  == Model(ObjectKeys, {"object_id"}, With(json, ObjectDefaults))
      content == Model(ContentKeys, {"data_type"}, object.content)
  IN  IF object = Invalid \/ object.content = None THEN object
      ELSE IF content = Invalid THEN Invalid ELSE [object EXCEPT !.content = content]

ObjectResponse(json) ==
  [data |-> IF json.data = None THEN None ELSE ObjectData(json.data), error |-> json.error]

-----------------------------------------------------------------------------
(* From the HTTP response to what the caller gets.                         *)

\* A finite set of numbers, in order.
Sorted(S) ==
  LET D == 1 .. Cardinality(S) IN
  CHOOSE s \in [D -> S] : \A j, k \in D : j < k => s[j] < s[k]

Nothing       == [kind |-> "nothing", value |-> None]
Value(value)  == [kind |-> "value", value |-> value]
Raised(error) == [kind |-> error, value |-> None]

GetObject(json) ==
  LET response == ObjectResponse(json) IN
  IF response.data = Invalid THEN Raised("ValidationError")
  ELSE IF response.error # None \/ response.data = None THEN Raised("ObjectNotFoundError")
  ELSE Value(response.data)

\* Mutant: the first missing object ends the loop.
MultiGetUntilMissing(json) ==
  LET all   == [i \in DOMAIN json |-> ObjectResponse(json[i]).data]
      known == {n \in 0 .. Len(all) : \A i \in 1 .. n : all[i] # None}
  IN  IF Invalid \in Range(all) THEN Raised("ValidationError")
      ELSE Value(SubSeq(all, 1, CHOOSE n \in known : \A m \in known : m <= n))

\* Objects the node does not have are left out.
MultiGet(json) ==
  LET all   == [i \in DOMAIN json |-> ObjectResponse(json[i]).data]
      known == Sorted({i \in DOMAIN all : all[i] # None})
  IN  IF Invalid \in Range(all) THEN Raised("ValidationError")
      ELSE Value([k \in DOMAIN known |-> all[known[k]]])

Item(method, json) ==
  CASE method = "iotax_getOwnedObjects" -> ObjectResponse(json).data
    [] method = "iotax_getCoins"        -> Model(CoinKeys, DOMAIN CoinKeys, json)
    [] method = "iotax_queryEvents"     ->
         Model(EventKeys, DOMAIN EventKeys \ {"parsed_json", "bcs", "timestamp_ms"}, json)

\* Mutant: the cursor is read from the wrong key, which the node does not send.
PageNoCursor(method, json) ==
  LET items == [i \in DOMAIN json.data |-> Item(method, json.data[i])] IN
  IF Invalid \in Range(items) THEN Raised("ValidationError")
  ELSE Value([Model(PageKeys, {"data", "has_next_page"}, json) EXCEPT
                !.data = items, !.next_cursor = None])

Page(method, json) ==
  LET items == [i \in DOMAIN json.data |-> Item(method, json.data[i])] IN
  IF Invalid \in Range(items) THEN Raised("ValidationError")
  ELSE Value([Model(PageKeys, {"data", "has_next_page"}, json) EXCEPT !.data = items])

Single(model) == IF model = Invalid THEN Raised("ValidationError") ELSE Value(model)

AllBalances(json) ==
  LET all == [k \in DOMAIN json |-> Model(BalanceKeys, DOMAIN BalanceKeys, json[k])] IN
  IF Invalid \in Range(all) THEN Raised("ValidationError") ELSE Value(all)

\* null for a coin type without metadata.
CoinMetadata(json) ==
  IF json = None THEN Value(None)
  ELSE Single(Model(MetadataKeys, DOMAIN MetadataKeys \ {"icon_url", "id"}, json))

\* Of the node's description of its API, the version, if it tells one.
ApiVersion(json) ==
  LET info == With(json, [info |-> << >>]).info IN With(info, [version |-> "unknown"]).version

Parsed(method, json) ==
  CASE method = "iota_getObject"       -> GetObject(json)
    [] method = "iota_multiGetObjects" -> MultiGet(json)
    [] method = "iotax_getBalance"     -> Single(Model(BalanceKeys, DOMAIN BalanceKeys, json))
    [] method = "iotax_getAllBalances"   -> AllBalances(json)
    [] method = "iotax_getCoinMetadata"  -> CoinMetadata(json)
    [] method = "iotax_getTotalSupply"   -> Single(Model(SupplyKeys, {"value"}, json))
    [] method = "iota_getChainIdentifier" -> Value(json)
    [] method = "rpc.discover" -> Value(ApiVersion(json))
    [] method = "iota_executeTransactionBlock" -> Single(Model(TransactionKeys, {"digest"}, json))
    [] method = "iota_dryRunTransactionBlock"  ->
         Single(Model(DryRunKeys, DOMAIN DryRunKeys \ {"input"}, json))
    [] method = "iota_devInspectTransactionBlock" ->
         Single(Model(InspectKeys, {"effects", "events"}, json))
    [] OTHER -> Page(method, json)

\* Mutant: the error of the envelope is not looked for, and its missing result is None.
OutcomeErrorUnread(method, response) ==
  IF ~response.ok THEN Raised("HTTPError")
  ELSE IF "error" \in DOMAIN response.body
    THEN IF method \in {"iotax_getCoinMetadata", "iota_getChainIdentifier"}
           THEN Value(None) ELSE Raised("TypeError")
  ELSE Parsed(method, response.body.result)

\* raise_for_status() comes before the body is read, and an error before the result.
Outcome(method, response) ==
  IF ~response.ok THEN Raised("HTTPError")
  ELSE IF "error" \in DOMAIN response.body THEN Raised("RpcError")
  ELSE Parsed(method, response.body.result)

-----------------------------------------------------------------------------
(* The questions, and the node.                                            *)

PlainMethods == {"iotax_getBalance", "iotax_getAllBalances", "iotax_getCoinMetadata",
                 "iotax_getTotalSupply", "iota_getChainIdentifier", "rpc.discover"}
ListingMethods == {"iotax_getOwnedObjects", "iotax_getCoins", "iotax_queryEvents"}
Methods == PlainMethods \union ListingMethods \union
  {"iota_getObject", "iota_multiGetObjects", "iota_executeTransactionBlock",
   "iota_dryRunTransactionBlock", "iota_devInspectTransactionBlock"}

FilterKeys ==
  [sender |-> "Sender", transaction |-> "Transaction", package |-> "Package",
   move_module |-> "MoveModule", move_event_type |-> "MoveEventType",
   move_event_field |-> "MoveEventField", time_range |-> "TimeRange"]

\* The fields of an EventFilter in the order in which to_rpc_filter() looks at them.
FilterFields == << "sender", "transaction", "package", "move_module", "move_event_type",
                   "move_event_field", "time_range" >>

\* The variant of the first field that is set; the other listings have no filter.
ToRpcFilter(fields) ==
  LET places == {k \in DOMAIN FilterFields : FilterFields[k] \in fields}
  IN  {FilterKeys[FilterFields[k]] : k \in {j \in places : \A i \in places : j <= i}}

Questions ==
  [method : Methods, ids : Seq(Ids), cursor : Ids \union {None},
   shown : Shown \union {{}}, filter : SUBSET Range(FilterKeys)]

ASSUME FilterAssumption == Filters \subseteq SUBSET DOMAIN FilterKeys

Options ==
  [show_content |-> "showContent", show_bcs |-> "showBcs", show_owner |-> "showOwner",
   show_type |-> "showType", show_previous_transaction |-> "showPreviousTransaction",
   show_storage_rebate |-> "showStorageRebate", show_display |-> "showDisplay",
   show_effects |-> "showEffects", show_events |-> "showEvents",
   show_object_changes |-> "showObjectChanges", show_balance_changes |-> "showBalanceChanges",
   show_raw_transaction |-> "showRawTransaction"]

\* The API names everything in camel case: the field an option adds to the answer.
NodeFields ==
  [showContent |-> "content", showBcs |-> "bcs", showOwner |-> "owner", showType |-> "type",
   showPreviousTransaction |-> "previousTransaction", showStorageRebate |-> "storageRebate",
   showDisplay |-> "display", showEffects |-> "effects", showEvents |-> "events",
   showObjectChanges |-> "objectChanges", showBalanceChanges |-> "balanceChanges",
   showRawTransaction |-> "rawTransaction"]

Extra(shown) ==
  [f \in {NodeFields[Options[s]] : s \in shown} |->
     IF f = "content" THEN [dataType |-> "moveObject", type |-> "given"] ELSE "given"]

Exist(c) == {i \in Ids : c[i] > 0}

\* A digest is as good as the version it belongs to.
Known(i, version, shown) ==
  With([objectId |-> i, version |-> version, digest |-> << i, version >>], Extra(shown))

ObjectJson(c, i, shown) ==
  IF i \in Exist(c) THEN [data |-> Known(i, c[i], shown), error |-> None]
  ELSE [data |-> None, error |-> "notExists"]

ItemJson(c, method, i, shown) ==
  CASE method = "iotax_getOwnedObjects" -> ObjectJson(c, i, shown)
    [] method = "iotax_getCoins" ->
         [coinType |-> "iota", coinObjectId |-> i, version |-> c[i],
          digest |-> << i, c[i] >>, balance |-> "given"]
    [] method = "iotax_queryEvents" ->
         [id |-> i, packageId |-> "given", transactionModule |-> "given", sender |-> "given",
          type |-> "given", parsedJson |-> "given"]

\* A page of what exists behind the cursor.
Rest(c, cursor) == Sorted({i \in Exist(c) : cursor = None \/ i > cursor})
FirstPage(c, cursor) ==
  LET rest == Rest(c, cursor) IN SubSeq(rest, 1, IF Limit < Len(rest) THEN Limit ELSE Len(rest))

PageJson(c, q) ==
  LET ids == FirstPage(c, q.cursor) IN
  [data        |-> [k \in DOMAIN ids |-> ItemJson(c, q.method, ids[k], q.shown)],
   nextCursor  |-> IF ids = << >> THEN None ELSE Last(ids),
   hasNextPage |-> Len(Rest(c, q.cursor)) > Len(ids)]

BalanceJson(c) ==
  [coinType |-> "iota", coinObjectCount |-> Cardinality(Exist(c)), totalBalance |-> "given"]

\* A coin's metadata is itself an object; the smallest id stands for it.
HasMetadata(c) == Min(Ids) \in Exist(c)
MetadataJson ==
  [f \in {"decimals", "name", "symbol", "description", "iconUrl", "id"} |-> "given"]

\* The answer to q when the chain is c.
Answer(c, q) ==
  CASE q.method = "iota_getObject"       -> ObjectJson(c, Head(q.ids), q.shown)
    [] q.method = "iota_multiGetObjects" ->
         [k \in DOMAIN q.ids |-> ObjectJson(c, q.ids[k], q.shown)]
    [] q.method = "iotax_getBalance"     -> BalanceJson(c)
    [] q.method = "iotax_getAllBalances" -> IF Exist(c) = {} THEN << >> ELSE << BalanceJson(c) >>
    [] q.method = "iotax_getCoinMetadata" -> IF HasMetadata(c) THEN MetadataJson ELSE None
    [] q.method = "iotax_getTotalSupply" -> [value |-> "given"]
    [] q.method = "iota_getChainIdentifier" -> "given"
    [] q.method = "rpc.discover" -> [info |-> [version |-> "given"]]
    [] q.method = "iota_executeTransactionBlock" -> With([digest |-> "given"], Extra(q.shown))
    [] q.method = "iota_dryRunTransactionBlock" ->
         [effects |-> "given", events |-> "given", objectChanges |-> "given", balanceChanges |-> "given"]
    [] q.method = "iota_devInspectTransactionBlock" -> [effects |-> "given", events |-> "given"]
    [] q.method \in ListingMethods      -> PageJson(c, q)

\* None and null are no id, name, question, object or metadata.
ASSUME NullAssumption ==
  /\ None \notin Ids /\ None \notin Methods /\ None # "notExists" /\ None \notin Questions
  /\ \A i \in Ids, version \in 1 .. MaxVersion, shown \in Shown \union {{}} :
       LET json == Known(i, version, shown) IN None \notin {json, ObjectData(json)}
  /\ None \notin {MetadataJson, CoinMetadata(MetadataJson).value}

Reply(response) ==
  /\ phase = "asked"
  /\ phase' = "answered" /\ reply' = response
  /\ UNCHANGED << chain, request, outcome, listing, window, steady, changes >>

Respond == Reply([ok |-> TRUE, body |-> [result |-> Answer(chain, request)]]) /\ UNCHANGED errors

\* An error, sent with a good or a bad HTTP status.
Refuse ==
  /\ errors < MaxErrors /\ errors' = errors + 1
  /\ \E ok \in BOOLEAN : Reply([ok |-> ok, body |-> [error |-> "given"]])

\* Someone's transaction creates, changes or removes an object.
Change(i) ==
  /\ changes < MaxChanges /\ changes' = changes + 1
  /\ \E v \in {0, chain[i] + 1} : /\ v # chain[i] /\ v <= MaxVersion
                                  /\ chain' = [chain EXCEPT ![i] = v]
  /\ window' = IF phase = "idle" THEN window ELSE window \union {chain'}
  /\ steady' = steady \intersect Exist(chain')
  /\ UNCHANGED << phase, request, reply, outcome, listing, errors >>

-----------------------------------------------------------------------------
(* The calls.  A program either looks things up or pages through a list.   *)

Post(q) ==
  /\ phase = "idle"
  /\ phase' = "asked" /\ request' = q /\ reply' = None /\ outcome' = Nothing /\ window' = {chain}
  /\ UNCHANGED << chain, changes, errors >>

Question(method, ids, cursor, shown, filter) ==
  [method |-> method, ids |-> ids, cursor |-> cursor, shown |-> shown, filter |-> filter]

Lookup(q) == listing.method = None /\ Post(q) /\ UNCHANGED << listing, steady >>

ObjectOptions == {"show_content", "show_owner", "show_type", "show_bcs", "show_display",
                  "show_previous_transaction", "show_storage_rebate"}
ManyOptions == {"show_content", "show_owner", "show_type"}
TransactionOptions == DOMAIN Options \ ObjectOptions

AskObject(i, shown) ==
  shown \subseteq ObjectOptions /\ Lookup(Question("iota_getObject", << i >>, None, shown, {}))

AskObjects(ids, shown) ==
  shown \subseteq ManyOptions /\ Lookup(Question("iota_multiGetObjects", ids, None, shown, {}))

\* A question without options, about an owner's coins, a coin type or the node.
AskPlain(method) == Lookup(Question(method, << >>, None, {}, {}))

AskTransaction(shown) ==
  /\ shown \subseteq TransactionOptions
  /\ Lookup(Question("iota_executeTransactionBlock", << >>, None, shown, {}))

DryRun     == Lookup(Question("iota_dryRunTransactionBlock", << >>, None, {}, {}))
DevInspect == Lookup(Question("iota_devInspectTransactionBlock", << >>, None, {}, {}))

StartListing(method, fields) ==
  /\ listing.method = None /\ phase = "idle" /\ request = None
  /\ listing' = [listing EXCEPT !.method = method, !.filter = fields, !.more = TRUE]
  /\ steady' = Exist(chain)
  /\ UNCHANGED << chain, phase, request, reply, outcome, window, changes, errors >>

\* Mutant: more than one field is not refused.
QueryEventsComposite(fields) == fields # {} /\ StartListing("iotax_queryEvents", fields)

\* query_events() with an EventFilter: one field, or ValueError before any request.
QueryEvents(fields) == Cardinality(fields) = 1 /\ StartListing("iotax_queryEvents", fields)

QueryEventsRaises(fields) ==
  /\ Cardinality(fields) # 1
  /\ listing.method = None /\ phase = "idle"
  /\ outcome' = Raised("ValueError")
  /\ UNCHANGED << chain, phase, request, reply, listing, window, steady, changes, errors >>

\* Mutant: the cursor the caller passes is not sent.
NextPageFromStart ==
  /\ listing.more /\ Len(listing.got) < MaxItems
  /\ Post(Question(listing.method, << >>, None, {}, ToRpcFilter(listing.filter)))
  /\ UNCHANGED << listing, steady >>

\* The next page, or after a failure the same one again.
NextPage ==
  /\ listing.more /\ Len(listing.got) < MaxItems
  /\ Post(Question(listing.method, << >>, listing.cursor, {}, ToRpcFilter(listing.filter)))
  /\ UNCHANGED << listing, steady >>

IdOf(method, item) ==
  CASE method = "iotax_getOwnedObjects" -> item.object_id
    [] method = "iotax_getCoins"        -> item.coin_object_id
    [] method = "iotax_queryEvents"     -> item.id

IdsOf(method, items) == [k \in DOMAIN items |-> IdOf(method, items[k])]

\* What a caller that pages keeps of a call that ended.
Collected(result) ==
  IF ~listing.more \/ result.kind # "value" THEN listing
  ELSE [listing EXCEPT !.cursor = result.value.next_cursor,
                       !.more   = result.value.has_next_page,
                       !.got    = @ \o IdsOf(listing.method, result.value.data)]

End(result) ==
  /\ phase' = "idle" /\ reply' = None /\ outcome' = result
  /\ listing' = Collected(result)
  /\ UNCHANGED << chain, request, window, steady, changes >>

Receive == phase = "answered" /\ End(Outcome(request.method, reply)) /\ UNCHANGED errors

\* The request or its reply is lost: a transport error.
GiveUp ==
  /\ phase # "idle" /\ errors < MaxErrors
  /\ errors' = errors + 1
  /\ End(Raised("HTTPError"))

Init ==
  /\ chain \in [Ids -> 0 .. 1] /\ phase = "idle" /\ request = None /\ reply = None
  /\ outcome = Nothing /\ window = {} /\ steady = {} /\ changes = 0 /\ errors = 0
  /\ listing = [method |-> None, filter |-> {}, cursor |-> None, more |-> FALSE, got |-> << >>]

Next ==
  \/ \E shown \in Shown : \/ AskTransaction(shown)
                          \/ \E i \in Ids : AskObject(i, shown)
                          \/ \E ids \in Asked : AskObjects(ids, shown)
  \/ \E method \in PlainMethods : AskPlain(method)
  \/ DryRun \/ DevInspect
  \/ \E method \in {"iotax_getOwnedObjects", "iotax_getCoins"} : StartListing(method, {})
  \/ \E fields \in Filters : QueryEvents(fields) \/ QueryEventsRaises(fields)
  \/ NextPage \/ Receive \/ GiveUp
  \/ Respond \/ Refuse \/ \E i \in Ids : Change(i)

Spec == Init /\ [][Next]_vars

(* Every request is answered or ends at httpx's timeout, and a caller that *)
(* pages goes on to the next page.                                         *)
FairSpec == Spec /\ WF_vars(Respond) /\ WF_vars(Receive) /\ WF_vars(NextPage)

-----------------------------------------------------------------------------
(* Properties.                                                             *)

Errors == {"HTTPError", "RpcError", "ValueError", "ValidationError", "ObjectNotFoundError"}

\* The shape of the state; a call that ends returns, or raises one of Errors.
TypeOK ==
  /\ chain \in [Ids -> 0 .. MaxVersion]
  /\ phase \in {"idle", "asked", "answered"}
  /\ request \in Questions \union {None}
  /\ IF phase = "answered" THEN reply.ok \in BOOLEAN ELSE reply = None
  /\ outcome.kind \in Errors \union {"nothing", "value"}
  /\ listing.more \in BOOLEAN /\ listing.got \in Seq(Ids)
  /\ listing.cursor \in Ids \union {None}
  /\ steady \subseteq Exist(chain) /\ window \subseteq [Ids -> 0 .. MaxVersion]
  /\ changes \in 0 .. MaxChanges /\ errors \in 0 .. MaxErrors

(* The node is asked for events by all that the caller's EventFilter says: *)
(* one that sets several fields is refused, and not cut down to its first  *)
(* field, which is all that one request can carry (events.py:73-84).       *)
FilterIsWhole ==
  (phase # "idle" /\ listing.method # None) =>
    request.filter = {FilterKeys[f] : f \in listing.filter}

\* What object i was in state c, as the caller sees it.
Seen(o, i, c) == o.object_id = i /\ o.version = c[i] /\ o.digest = << i, c[i] >>

(* What a call returns was true at one instant between its request and its *)
(* reply: an object with the version and digest it had then and not a mix, *)
(* "not found" only of an object that was not there, of several objects    *)
(* all those that existed and in the order asked for, a page that leaves   *)
(* nothing out (client.py:155-252).                                        *)
TrueOf(c) ==
  LET v == outcome.value
      there == Sorted({k \in DOMAIN request.ids : request.ids[k] \in Exist(c)})
  IN  /\ outcome.kind = "ObjectNotFoundError" => Head(request.ids) \notin Exist(c)
      /\ outcome.kind = "value" =>
           /\ request.method = "iota_getObject" =>
                Head(request.ids) \in Exist(c) /\ Seen(v, Head(request.ids), c)
           /\ request.method = "iota_multiGetObjects" =>
                /\ Len(v) = Len(there)
                /\ \A k \in DOMAIN v : Seen(v[k], request.ids[there[k]], c)
           /\ request.method = "iotax_getBalance" => v.coin_object_count = Cardinality(Exist(c))
           /\ request.method = "iotax_getAllBalances" =>
                /\ v = << >> <=> Exist(c) = {}
                /\ \A k \in DOMAIN v : v[k].coin_object_count = Cardinality(Exist(c))
           /\ request.method = "iotax_getCoinMetadata" => (v = None <=> ~HasMetadata(c))
           /\ request.method \in ListingMethods =>
                /\ IdsOf(request.method, v.data) = FirstPage(c, request.cursor)
                /\ v.has_next_page <=> Len(Rest(c, request.cursor)) > Len(v.data)

OneInstant ==
  phase = "idle" /\ outcome.kind \in {"value", "ObjectNotFoundError"} => \E c \in window : TrueOf(c)

(* Paging shows no object twice and in the node's order, and when it ends  *)
(* no object is missing that existed all along, whatever was created or    *)
(* removed meanwhile and however often a page had to be asked for again.   *)
ListedOnce ==
  /\ \A k \in 2 .. Len(listing.got) : listing.got[k - 1] < listing.got[k]
  /\ (listing.method # None /\ ~listing.more) => steady \subseteq Range(listing.got)

\* Paging ends: every page moves the cursor on (client.py:136-143, 249-251).
PagingEnds == listing.more ~> ~listing.more

Attribute ==
  [show_content |-> "content", show_bcs |-> "bcs", show_owner |-> "owner", show_type |-> "type",
   show_previous_transaction |-> "previous_transaction", show_storage_rebate |-> "storage_rebate",
   show_display |-> "display", show_effects |-> "effects", show_events |-> "events",
   show_object_changes |-> "object_changes", show_balance_changes |-> "balance_changes",
   show_raw_transaction |-> "raw_transaction"]

\* The show_* keywords control which fields the response includes (client.py:274): a field
\* that was asked for, and that the node sent, is there.
ShownIsReturned ==
  phase = "idle" /\ outcome.kind = "value" /\ listing.method = None =>
    \A s \in request.shown :
      IF request.method = "iota_multiGetObjects"
        THEN \A k \in DOMAIN outcome.value : outcome.value[k][Attribute[s]] # None
        ELSE outcome.value[Attribute[s]] # None
=============================================================================
