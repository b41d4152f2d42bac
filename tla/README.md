# A TLA+ verification of pyiota

pyiota is a Python SDK for the IOTA Rebased network: it builds programmable
transaction blocks, resolves gas and prices through a node's JSON-RPC
interface, serializes the result in BCS, signs it, submits it, and waits for
it. This directory holds its TLA+ model: what the modules stand for, what TLC
checks of them on small instances, and what TLAPS proves of them for every
value of their constants.

All paths below are relative to `src/pyiota/` in the repository.

## 1. The system

| Component | State it keeps | Operations | Talks to |
|---|---|---|---|
| Transaction block builder (`transaction.py:63-340`) | `_inputs`, `_commands` | `pure*`, `object`, `transfer_objects`, `split_coins`, `merge_coins`, `move_call`, indexing of a `TransactionResult` | BCS types, Base58 |
| Build and gas resolution (`transaction.py:344-572`) | `_sender`, `_gas_budget`, `_gas_price`, `_gas_payment`, and the locals of a running `build()` | four setters, `build`, `build_sync` | the clients, over up to three awaited questions |
| Execution and signing (`client.py:257-329`, `sync_client.py:218-267`, `crypto/`) | none in the SDK; coins and results on the node | `sign_transaction`, `execute_transaction_block`, `sign_and_execute_transaction` | the node |
| `wait_for_transaction` (`client.py:357-388`, `sync_client.py:281-299`) | the local `elapsed` | one polling loop | the node, the clock |
| JSON-RPC transport (`rpc.py`) | a process-wide request counter, an httpx client | `request`, `close` | the node |
| Client queries (`client.py:78-253, 392-416`, `sync_client.py`) | the transport; the caller of a paginated query keeps the cursor | one request and a mapping of fields each | the transport, the response models |
| BCS engine (`bcs.py`) | a writer's buffer, a reader's position | the `write_*` and `read_*` methods, ULEB128 | - |
| BCS transaction types and type tags (`bcs_types.py`) | - | `serialize` of each type, the type tag parser | the BCS engine |
| Base58, addresses (`base58.py`, `types/common.py`) | - | encode and decode; `normalize_iota_address`, `is_valid_iota_address` | - |
| Response models, event filter (`types/`) | - | pydantic parsing; `to_rpc_filter` | - |
| Faucet, exceptions, exports | - | one POST; declarations | - |

How they interact. A program makes a `Transaction`, calls the builder methods,
and passes the handles they return to later calls. `build()` reads the
configuration, asks the node for what is missing - the reference gas price, the
sender's coins, the first coin's current version - and serializes the block
as it then is. The bytes are signed and sent; the digest in the reply is what
`wait_for_transaction` polls for. There are no callbacks and no threads of the
SDK's own; the concurrency is that of the caller's tasks between the awaits of
`build()`, and that of the chain, which never stops moving.

What is hard about it, and what makes each part correct:

* **Builder.** Handles are bare indices computed around list appends, and a call
  may raise half-way (`split_coins` registers its amounts one by one). Correct
  means: a handle keeps denoting what it was returned for; every argument of a
  command resolves to an input or an *earlier* command; amounts are paired with
  their own inputs; a failed call changes nothing but the inputs it gave up on.
* **Build.** `build()` reads the configuration at several moments separated by
  awaits. Correct means: each part of the payload comes from the time the
  build was running, the gas coin is the sender's and its version is no older
  than the listing it was picked from, the bytes hold a contiguous prefix of
  the calls, the build ends. `build_sync()` must look like one instant.
* **Execution.** The reply to a submission may be lost after the node executed
  it; another transaction may use the gas coin first; effects are looked at only
  if they were asked for. Correct means: what a call reports is true, and
  repeating it with the same bytes never pays twice.
* **Waiting.** The timeout counts sleeps only. Correct means: never a timeout
  before its time, never a question skipped, a bounded wait, and an end.
* **BCS.** No field names, so one byte too many or too few shifts everything
  after it. Correct means: every read takes exactly what its write left, cut bytes
  are noticed, and no foreign bytes pass for another value.
  The same holds of a whole block, one level up: its layouts have no names either, and
  most swaps of two fields keep the length. Correct means: a node that reads the
  bytes by its schema sees the values that were meant, in the roles they were
  meant for, and a block with nothing wrong in it is not refused.
* **Names** (type tags, Base58, addresses). A type is text with nested brackets; a
  digest may begin with zero bytes; an address may be short, or too long.
* **Queries.** The chain moves while a request and its reply travel, and between two pages
  of one listing. Correct means: an answer was true at one instant during the call;
  paging ends, shows nothing twice, and misses nothing that was there all along.
* **Response models.** A key that a model does not know is dropped without an error.

The hazards are listed line by line in `PROJECT.json`, each with the property
that would notice it or the reason there is none yet.

## 2. The modules

| Module | Stands for |
|---|---|
| `TransactionBuilder` | the builder: one action per method and per way it raises |
| `TransactionBuild` | `build()` and `build_sync()` over one block and one configuration, with the setters, the command methods and the node around them |
| `AtomicBuild` | the abstract build: bytes made in one instant |
| `Execution` | `sign_and_execute_transaction` of several tasks, the network between them and the node, and the node's execution |
| `Settlement` | the abstract execution: each payment settled at most once, each call told something true |
| `WaitForTransaction` | the polling loop, with time |
| `ClientQueries` | the queries of both clients, the transport, the response models, the event filter, and a caller that pages |
| `Bcs` | `BcsWriter` and `BcsReader` |
| `Names` | Base58 and hex: `base58.py`, `normalize_iota_address`, `bytes.fromhex` of an address |
| `TypeTags` | the type tag parser |
| `BlockBytes` | `serialize()` of every type in `bcs_types.py` and `_serialize_pure`, over `Bcs`; and a node that reads the bytes |
| `MCTransactionBuilder`, `MCTransactionBuild`, `MCExecution`, `MCBlockBytes`, `MCClientQueries` | model values and sets for TLC |
| `TransactionBuilderProofs`, `TransactionBuildProofs` (any build, then the blocking one), `ExecutionProofs`, `WaitForTransactionProofs`, `ClientQueriesProofs`, `BcsProofs`, `BlockBytesProofs` | theorems and proofs |
| `NaturalFacts` | lemmas: induction and recursion over numbers, stated of sets and functions |

A definition whose comment begins with `Mutant:` is a plausible bug and belongs to no
specification: it shows that the property named with it in `PROJECT.json` can
fail.

### TransactionBuilder

State: `inputs` and `commands` are the two lists; `handles` maps every handle
the caller holds to the thing it was returned for (a history of intent - the
program has only the index); `orphans` and `last` record inputs a raising call
left behind and how the last call ended. `tx.gas` is the handle `GasCoin`.

Each method is one atomic action, as it is in Python between two awaits: the
action registers the inputs the method registers on the way and then appends
the command. `SplitCoins` appends the integer amounts' inputs and the command
together; `SplitCoinsRaises` appends only the inputs before the first integer
that does not fit. `object()` takes any subset of its three keywords. What a
caller can pass is `Usable`: handles it was given, and any indexing of a result,
since `__getitem__` checks nothing. Values are abstract: `Encodable` is what
`_serialize_pure` accepts, `WellFormed` what hex and Base58 decoding accept. A pure
value is one given to `pure_u64` or `pure_address`; the inference of `pure()`
and the other widths change only what is encodable.

### TransactionBuild and AtomicBuild

State: `config` is the four configuration fields, `block` the calls made on the builder,
`build` for each build its program counter, locals, pending reply and result;
`chain` and `refPrice` are the node's; `began`, `seen` and `asked` are
histories that the properties need. A call that the command methods accept but
`serialize()` refuses - a type argument that does not parse, an index above
u16 - is `"unserializable"`.

`Start`, `ResumePrice`, `ResumeCoins` and `ResumeObject` are the stretches of
`build()` between awaits; each ends in the next question (`Await`), in an exception
(`Fail`) or in bytes (`Finish`). `Answer` is the node's reply, computed from
the node's state at that moment, or an error; the coroutine resumes in a later
step, so the chain and the other tasks may move in between. With
`Blocking = TRUE` the module is `build_sync()`: setters, command methods and other
builds wait until it returns, while the node still moves. A program that calls
setters from a second *thread* during `build_sync()` is not modelled.

`AtomicBuild` has no program counters: `Succeed(b)` makes the bytes from the
block and the configuration of one instant, leaving to the node only what was not
set. It takes no side on finding 2: whether an explicit budget of 0 is kept or replaced by the
default is left open (`BudgetChoices`), because the question here is when the budget is read. The
refinement maps a running build to "unfinished".

### Execution and Settlement

State: `bytes` is what `build()` returned for each payment, `call` one record per call of
`sign_and_execute_transaction` (its bytes, whether it asked for effects, how it
ended), `inFlight` and `reply` the network, `version` and `ledger` the node's
coins and executed blocks. The client itself keeps nothing.

`Send` signs and posts: Ed25519 is deterministic and the digest is the node's, so the
bytes identify the request. `Receive` is `_extract_result` and the
`effects` branch (`Report`); `GiveUp` is every transport error - a refused
connection, an error status, a lost or unreadable reply, httpx's timeout - and may come
while the request is still on its way. `LoseRequest`, `Deliver` and what they
use are the node and the network, as the code in `client.py` relies on them: a block executes
once, if its gas coin still has the block's version; a repeated block gets the
effects it already has; any request may be answered with an error, also after
executing. JSON-RPC request ids are left out because nothing compares them with
the response's.

The SDK does not retry. A caller may: several attempts may send the same bytes.
One that *builds again* after a lost reply asks for another payment in this model,
and nothing protects it from paying twice.

`Settlement` knows no requests. `Settle(p)` executes a block of a payment that has none
yet; `Tell(a, p)` ends a call with a true statement: the block's status, that it was
executed, or nothing. The refinement reads `paid` off the ledger and `told`
off the outcomes.

### WaitForTransaction

State: `pc`, `elapsed` (the local), `clock` in ticks since the call,
`since` when the current request or sleep began, `indexed` the node's; `polls`, how many
questions were asked, and `asked`, the clock at the last of them, are histories.
`Sleep` is the `except RpcError` branch; `Raise` is every
other exception of a question; `Cancel` is a cancelled task, or an interrupt of the program, in a question
or in a sleep. `Wake` adds `PollInterval` to
`elapsed` however long the sleep really was. `elapsed` is a float in the program, and its
additions round: ten times 0.1 are less than 1.0, so a timeout of 1.0 asks eleven
questions. `FloatSums` has every number at most `MaxRounding` from the sum and not below what was
added to. A tick is a unit as fine as wanted - in the run one fourth of the interval, with a
rounding of one tick, far more than a float's; for TLAPS any, 0 included. One
abstraction: `HttpTimeout` bounds a whole request, where httpx bounds each of its phases.

### ClientQueries

State: `chain` gives each object its version, 0 where there is none; `phase`, `request` and `reply` are
the call that is under way; `outcome` is what the last call returned or raised; `listing` is what a
program that pages keeps (the fields of its `EventFilter`, the cursor, `has_next_page`, the ids it has collected). `window` and `steady` are
histories: the states of the chain since the request was posted, and the ids that have
existed since the listing began. The clients keep nothing between two calls, so one
caller, who has one call under way at a time, stands for all.

`Ask...` and `NextPage` build the parameters and post; `Respond` is the node's answer, computed from the
chain at that moment; `Receive` is everything the client does with the response, in its
order: `raise_for_status()`, the error of the JSON-RPC envelope, the response model, what
the method makes of it (`Outcome`, `Parsed`). `GiveUp` is a transport error and may come while the
request is on its way or after the node has answered. `Change` is somebody's transaction.
`Collected` is the program's: what its loop over the pages keeps of a call that ended.

`QueryEvents` refuses a filter with no field or several, before anything is posted; what is posted is
`ToRpcFilter`, the variant of the first field that is set, as `filters[0]` is (`events.py:83-84`). That nothing the
caller set is dropped therefore rests on the check alone: `FilterIsWhole`.

A response model is two tables: the key each field is read from - its alias, or its own
name where it has none - and the fields that have no default (`Model`). A missing field is `None`, but for the version and the
digest of an object, 0 and the empty text (`ObjectDefaults`); the node of the model always sends both,
and the version of its API (`ApiVersion`), so these defaults are in the model and never taken. The node
names everything in camelCase, as the aliases in `objects.py` and `events.py` and the unit
tests' fixtures do. Types of values are not checked: the node's are right. A cursor is
the last id of the page. Left out: queries in descending order (the caller's choice of a
sequence), raw filter dicts, which are passed on unchanged, and the limit a
caller may ask for.

### Names, TypeTags and BlockBytes

`Names` and `TypeTags` have no state. A text is a sequence of characters; the character of a
digit, in Base58 or hex, is its value, and `0x`, `::`, `<`, `>`, `,` and the keywords
are one character each. Loops are recursive functions where a proof goes through them step by step - the
digits of a number (`Denoted`, `Shortest`), the depth of brackets (`Depth`), the text between two commas
(`Pieces`), the parser's own recursion (`TypeTag`) - and closed forms elsewhere: a Base58 digest is its
leading zeros and a number; white space between two bytes is skipped (`FromHex`). A type tag is the
fields of its outermost type, which depend on `TagKind` and `StructTag`, and then those of the texts
inside (`Inner`), as `_serialize_type_tag` and `_serialize_struct_tag` call each other; one of the
fields is `Refused` where the parser raises `ValueError`.

The types that callers *mean* are a table, `Types`, each made of types before it, so that types of any depth are a
finite datum. `Written` is how a caller writes one: `WrittenOf` puts the texts of its
parameters between commas, with the white space `pad` on both sides. `TypesAssumption` is what
Move says of them: identifiers hold no marks, a vector has one parameter (and no white space
inside its brackets, which the parser does not strip), a struct any number.

`BlockBytes` extends `Bcs` by the block. A block holds the texts a caller wrote: decoding is done where the
program does it, between the text and the writer. Each `serialize()` is an operator from a
value to the list of fields it writes; the enclosing one appends them, as
`write_fixed_bytes` of the inner bytes does. `SerializePure` is `_serialize_pure`: hint, inference, range.
`Serialize` makes the bytes; `SerializeRaises` is a bad name, type or number.

The node is external and modelled from the layouts' docstrings and the golden vectors: a stack
of things it still expects, each read with one of `Bcs`'s reads, with no other knowledge of
what was written. `Variants` and `Element` are its schema. What the author of a block *meant* is a part of
the block (`meant` of a type, of a pure value), never computed by the code's own operators: `Meant` lists it as
facts, values in their roles, in the order in which a reader of the block meets them, and `Seen` is
the same list as the node reads it. `NodeSees` compares the two, fact by fact.

`BlocksAssumption` says what a block can hold (`IsBlock`): indices and numbers may be out of
range, texts need not be names, a type argument need not be a type; a pure value means what `pure()`
documents for its hint or its Python type, and a text stands for its UTF-8.

Preconditions are named. `WellNamed`: no address is longer than 32 bytes - `bytes.fromhex`
accepts one, and it shifts every field behind it; `normalize_iota_address` would refuse it, but
nothing calls it. `Aligned`, for `SchemaFollowed`, is weaker: every address that was written has
its 32 bytes. `WellTyped`: a type argument is one its author could mean. The run also
contains the 207 texts that have one mark or space too many or lack one character: 137 are refused, 70 are serialized
as some type - a shorter name or address, an empty one, a comma or a space in a name, a trailing comma, or, when the last `>`
is missing, a type that has lost its last letter instead. White space around a type parameter is stripped, inside
`vector< >` it is not, so `vector< u8 >` is refused.

### Bcs

State: `buf` and `data`, `pos` are the writer's and reader's fields; `written` and `got`
the histories of values; `origin` says whether the reader was given all of
`finish()`, a proper prefix of it, or bytes the writer did not make. A value is a
record of a kind, a width and a value; the kinds are the shapes of
bytes, so a vector length and a variant index are ULEB128 fields.

A byte has `2 * Half` values and a ULEB128 digit `Half`; `Half` is 128 in the
program and 8 for TLC, and no definition depends on it. `LittleEndian`, `Uleb`,
`Number` and `EncodeAll` are recursive functions that go through the digits, or the fields, as the code's
loops do; `ReadUleb` ends at the first byte without a continuation bit among the first
`MaxDigits`. `ValuesAssumption` says what a Python value of each kind is, in its range or not. `pos`
after a read that raises is the code's: unmoved by a fixed-width read, behind the
byte of a bad flag, behind the length of a byte string that does not fit. A
text stands for its UTF-8 encoding, and `read_str` of anything else raises. `WholeIsRead`
leaves out a writer whose counts - ULEB128 values and the lengths of byte
strings and texts - need more digits than `read_uleb128` takes.

## 3. The runs

| Run | Instance | Shows |
|---|---|---|
| `builder` | up to 3 inputs and 2 commands, 4 together; splits of up to 2 amounts, one good and one bad value of each sort | `TypeOK`, `AmountsDistinct`, `UnusedInputsAreOrphans`, `ReferencesResolve`, `HandlesDenote`, `FailedCallKeepsBlock` |
| `builder_id_only` | as above | finding: `object()` with only an id raises |
| `build_async` | one `build()`, 2 setter calls, 2 command calls, 2 accounts, 1 coin of 2 versions | `TypeOK`, `PayloadFromWindow`, `GasCoinFresh`, `BlockInWindow`, `BuildEnds` |
| `build_sync` | two `build_sync()`, 1 setter call, 1 command call | `BuildIsAtomic` |
| `build_zero_budget` | one `build()` | finding: an explicit budget of 0 becomes the default |
| `wait` | timeout 12, interval 4, requests 0..3 ticks, wake-ups up to 1 late, sums up to 1 off | `TypeOK`, `NeverEarly`, `PollsCounted`, `LastPollLate`, `WaitBounded`, `WaitEnds` |
| `wait_overrun` | timeout 6, interval 2, requests 0..3 ticks, no lag and no rounding | finding: the call outlasts `timeout` |
| `execution` | 2 payments, 1 coin of 3 versions, 3 calls | `TypeOK`, `ContendersDisagree`, `SettledAndTrue` |
| `execution_silent` | 2 calls | finding: without effects a failure is returned as success |
| `bcs` | bytes 0..15, widths 1 and 2, 2 ULEB128 digits; 2 fields, every cut, foreign bytes up to 4 long; 342 blocks, whole and cut at every byte | `TypeOK`, `ReadsBack`, `WholeIsRead`, `CutIsNoticed`, `AcceptsEncodings`, `SchemaFollowed`, `NodeSees`, `SoundIsSerialized` |
| `queries` | 3 objects of up to 2 versions, pages of 2, 2 changes of the chain, 2 failed calls | `TypeOK`, `FilterIsWhole`, `OneInstant`, `ListedOnce`, `PagingEnds` |
| `shown` | the same | finding: `show_object_changes` is answered and the field is `None` |

**Why the bounds are enough.** *Builder:* a wrong index shows with one neighbour on each
side, so two inputs and two commands suffice for references, and a split of
two amounts over three inputs puts an integer after an integer, after a handle
and after an abandoned input. A block of four inputs and commands together is checked but not
extended further (`FewCalls`, a constraint). The theorems below remove the bounds. *Build:*
`build()` has three awaits but reads the configuration at only two moments;
two edits put one before each, and two command calls one before and one during a build. `build_async` gives u64 a maximum of 8, with
budgets 0, 3 and 9 and prices 1 and 9: zero, fitting, too large. The coin has
two versions, enough for a stale one. *Wait:* the timeout is a multiple of the interval,
the case in which an off-by-one and a rounding show: three questions, or four where the
sums fall short. `MaxClock` is above the longest possible call
(`WaitBounded` gives 4 * 8 = 32), so it is not met.
*Execution:* three calls are a contender, a first try and its repetition; the coin has one
version more than the two blocks can use up. *Bcs:* values stand at
every boundary - the largest of a width and the next, one digit and two, a
length that needs two digits - and two fields give each one a neighbour to
be mistaken for. The digit limit is met by foreign bytes and by a value
`write_uleb128` accepts but `read_uleb128` does not (2^70 in the program), which
`WholeIsRead` excludes by name. *Blocks:* every command, input, argument and type shape occurs, next
to each other input and behind each other command; numbers stand at the ends of their widths; a
vector of nine amounts and a byte string of eight have lengths of two digits; digests have leading
zeros, two bytes, none, and a character outside the alphabet; addresses are short, full, empty, too
long, of an odd length and not hex. *Queries:* with pages of two, three objects make two pages,
so an object can be created or removed before, on and behind the cursor, and a page can be asked for again;
`MaxItems` is above what a listing without repetitions can collect, so a correct one never meets it.

**Deadlock.** The builder can always make a call that raises, so deadlock is checked. In
the other modules a call that ended, or a reader at its end, does nothing more, and
those runs turn the check off.

**Fairness.** `FairSpec` of `TransactionBuild` has weak fairness of `Answer(b)` -
every request has an httpx timeout (`rpc.py:49`), so it is answered or raises -
and of `Resume(b)` - the event loop runs a coroutine whose result is ready. No
fairness is assumed of setters, of command methods or of starting a build. `FairSpec` of
`WaitForTransaction` has weak fairness of each step of the loop, of the request
ending one way or another, and of time. It does not say which answer comes nor
that the transaction is ever indexed: `WaitEnds` holds because sleeps add up.
A cancellation has no fairness, and neither has anything in `Execution`, whose properties are all safety. `FairSpec` of `ClientQueries` has weak fairness of `Respond` and `Receive` - a request is
answered, or raises at its timeout, which is `GiveUp`, at most `MaxErrors` times - and of `NextPage`, a caller
that pages until `has_next_page` is false, and asks again after a failure. Without a bound on failures
paging need not end; nor does the SDK promise that.

## 4. Findings

1. `object()` documents that an id alone is resolved by the build step
   (`transaction.py:166-167`); it raises, and `build()` has no such step.
2. `self._gas_budget or DEFAULT_GAS_BUDGET` (`transaction.py:399`) discards an explicit
   budget of 0, although the default is for one "not specified" (line 59).
3. `timeout` is documented as the maximum time to wait (`client.py:372`); only
   sleeps are counted, so each request may add up to the HTTP timeout.
4. `execute_transaction_block` documents "TransactionError: If the transaction
   execution fails." (`client.py:281`); with `show_effects=False` the response
   has no effects to look at and the call returns normally.
5. `show_object_changes`, `show_balance_changes` and `show_raw_transaction` "control which optional
   fields are included in the response" (`client.py:274`); the node sends them as
   `objectChanges` and so on, `TransactionResponse` declares no aliases (`types/transactions.py:38-42`),
   and pydantic drops them: the fields are always `None`. For the same reason, outside the run's property,
   `get_object(show_content=True)` raises `ValidationError` (`ObjectContent.data_type` is required and
   the key is `dataType`), and so does every `dry_run_transaction_block`; `CoinMetadata.icon_url`, which has no
   alias either, is always `None` if the node's key is `iconUrl`, as its other names suggest.

Not findings, but worth knowing: one transport error ends `wait_for_transaction`, which
catches only `RpcError`; its last sleep is followed by no question
(`LastPollLate` says how late the last one is); `read_uleb128` accepts needless
digits, so a foreign encoding of a value may be longer than the writer's; with
`poll_interval=0` `elapsed` stays 0 and the wait never times out (`WaitEnds` is checked
for an interval of 4; `WaitAssumption` allows 0, and the proved properties hold for it too);
an empty address text is the address zero; over-long addresses and the damaged type
texts above are serialized without a complaint.

## 5. The proofs

Every theorem holds for all constants that satisfy the module's named assumptions. They give the
constants their types and keep the sentinels (`None`, `Error`, ...) apart from the values
(`PayloadAssumption`, `NullAssumption`, ...). Seven say more: `QueriesAssumption`
has finitely many object ids; `BuildAssumption` keeps a payment the caller gave distinct from one the
node's reply was made into, so that the histories can tell them apart; `BcsAssumption` and
`ValuesAssumption` fix the base of a byte and what a value of a kind is; `TypesAssumption` and
`BlocksAssumption` say how a type is written and what a caller can put into a block, and `BlockAssumption`
that a byte has two hex digits. TLC evaluates all of them.

*Builder.* `TypeCorrect`, `HandlesAlwaysDenote` and `BlocksResolve` come from one
inductive invariant, their conjunction. Neither half is inductive
alone: an argument of a new command resolves only because the handle it is
made from still denotes something in the lists, and a handle goes on denoting it only
because calls append. The work is in `SplitCoins`, where an index is the
length of the list plus the rank of an amount among the integers
(`RankBounds`, `RankInjective`). `SplitAmountsDistinct` uses the injectivity of
that rank on top of the invariant. `FailureKeepsBlock` is the action
property, by cases on the call. `OnlyOrphansAreUnused` needs the converse, that every input a split registers
is the argument of one of its amounts: the rank reaches every number up to the
count (`RankOnto`, by the least place at which it gets that far).

*Build.* `BlockingBuildIsAtomic` assumes `Blocking` and proves
`Spec => Atomic!Spec`. The invariant, `LocalsCurrent`, says that while a
build waits, its locals still agree with the configuration: the sender and an
explicit price are those a build starting now would read, and the payment is
unset if it is asking for coins. The setters keep it because they are excluded
while a build runs, and with it each `Finish` is a `Succeed` with the current
configuration, each `Fail` a `Fail`, everything else a stutter or the same edit.
For the coroutine the theorem is false; `PayloadFromWindow` says what it
promises instead, and the next theorems are about that.

*Coroutine.* `TypeCorrect`, `PayloadAlwaysFromWindow`, `GasCoinAlwaysFresh` and
`BlockAlwaysInWindow` assume nothing of `Blocking`, so they hold of both builds. The
invariant follows one build (`BuildKept`): every local it carries over an await is
one that a configuration of its window gave, or the node's answer; the coin it is asking about was
in its sender's listing; the block has only grown since it began. A step of another task can
only enlarge the window and the block and move the chain on (`OthersKeep`), which keeps all of
that; a step of the build itself moves facts from the locals to the payload. It is
`ChainMovesOn`, versions never going back, that makes the version in the payload no older than the
listing's.

*Execution.* `ExecutionSettles` proves `Spec => Ledger!Spec`, and
`OneContenderReported` the invariant `ContendersDisagree`. The inductive invariant follows a
block through the system. `BytesAgree`: what a call sent and what the
ledger holds are the bytes built for that payment - so a second block for a
payment is the same block, which does not execute again. `AnswersAgree`: an answer on its way,
and a report already made, agree with the ledger. `GasSpent`: an executed
block's version is behind its coin's, so no two executed blocks share one. None is inductive
alone: a report is true because the answer was, and that because the
call's bytes are the ones executed. Each action has a lemma saying both that it keeps
the invariant and which step of `Settlement` it is.

*Wait.* `TypeCorrect`, `TimeoutNeverEarly` and `TimeoutAfterLatePoll` come from the
invariant that `elapsed` is never ahead of the clock, where a sleep in progress
counts from its start, by more than the rounding of the sums so far (`Drift`). `NumberOfPolls` and
`WaitAlwaysBounded` need two more
facts, each by program counter: `ElapsedCounted`, `elapsed` lies between the number of
finished rounds times the interval less the rounding (`Least`) and times the interval plus
the rounding (`Most`), and `ClockCounted`, the clock is at most a
full round for each of them plus the step in progress. What a product gains
when a count grows by one is a lemma of its own, `OneMore`. With `MaxRounding` 0 the theorems speak of
exact sums: the number of questions is then the timeout over the interval, rounded up.

*Queries.* `AlwaysOneInstant`: while a request and its reply travel, the reply is the
node's `Answer` in a chain that is in `window` (`Answered`), and what the client
makes of such an answer is what is true of that chain (`AnswerIsTrue`). That second
half is about the response models' tables: for each method, that the key each field is read from
is the one the node writes. `AlwaysListedOnce` needs the cursor to separate what has been listed from what is still to
come (`Paging`): everything collected is at most the cursor, everything on the next page is above it,
and what has existed since the listing began and is at most the cursor has been collected. `AlwaysFilterIsWhole` carries the check of `QueryEvents` along the loop - a listing's filter has at
most one field - and a filter of one field is sent as its variant (`OneFieldIsSent`). The node's order
is a `CHOOSE`; that there is an increasing sequence of a finite set of ids is `OrderExists`.

*BCS.* The five theorems rest on facts about recursive functions. A
definition `f[x] == ... f[...] ...` is a `CHOOSE` of a function that obeys
an equation, so each gets a lemma that one exists (`UlebRecursion`, `NumberRecursion`,
...), all from `RecursionOnRank` of `NaturalFacts`: an argument whose successor has a smaller rank. On these stand
the round trips, by induction on the number of digits: what is written is read back
(`LittleEndianRead`, `UlebRead`), and what is read was written, for fixed widths and for ULEB128 numbers
without needless digits (`LittleEndianWritten`, `UlebWritten`). `ReadAny` says what a read of any bytes can do, and
`ReadOwn` what a read does at a field the writer left. In the inductive invariant, the reader of the
writer's bytes stands right behind the encodings of the values it has returned, and these are
the first ones written (`ReadSoFar`); from there `ReadsBack` is by inspection and
`CutIsNoticed` by counting: the encodings of all values returned fit into the bytes it was given, and the
encodings of all written do not fit into a proper prefix. `NoErrorInWhole` is `WholeIsRead`'s part.

*Blocks.* `BlockBytesProofs` is about `BlockSpec`, the engine with whole blocks and the node, and proves every
invariant of the `bcs` run of it. `AlwaysNodeSees` is the
strongest statement of the project: whatever a block holds - any number of inputs, commands and
arguments, types of any depth, names, digests and pure values - a node that has
only the schema and has read all the bytes has seen what the author meant, fact by fact.

The bridge between the writer and the node is a relation: `Accepted` holds the triples of things that the schema
expects, fields, and sights, such that reading the fields takes each thing off and puts what is below it
in its place. It is the least such relation, as an intersection of all closed ones, because the
depth of a type has no bound. On it stands one predicate, `Laid(things, fields, facts, good)`: the fields are
read as the things; if `good`, what is seen meets the facts and the fields can be
serialized. It composes side by side (`LaidBoth`), downwards (`LaidThing`) and over vectors
(`LaidVec`), so each `serialize()` has one lemma with the structure of the method, up to
`LaidBlock`.

Below that are four things that composition does not give. Digits: `DenotedShortest` and `ShortestDenoted` say that the digits of a
number denote it and that digits without leading zeros are those of what they denote. Pure values: what the inference writes is
what the hint or the Python type meant, in the width that was meant (`LaidPure`). Base58: encoding
what was decoded gives the caller's text (`DigestFacts`). And types: `EveryTypeLaid`. The parser takes a text apart, the author put it together, and the two
meet in the counting of brackets: a written type is `Balanced` and has no comma outside its
brackets (`Uncut`), so a list of written types is cut exactly at its own commas
(`ListPieces`, `SplitListed`) and white space around each is stripped (`PaddedText`). By
induction along the table each type is laid out as the schema says (`TypeMeant`); a text
that means no type - any sequence of characters - is still laid out in the right
shape, or refused, by induction on its length (`AnyTypeLaid`). That `TypeTag` obeys its own equation,
in which a text leads to several shorter ones, is `RecursionOnParts` of `NaturalFacts`.

`BlockIInv` adds to the invariant of the engine that the fields of the block are the ones
written, and of the node (`NodeFollows`): what it still expects is read from the fields it has not read, and
what it has seen and will see are the sights of the whole reading. The premise that matters
is `Aligned`: an over-long address breaks the reading at exactly that field, and nothing is claimed behind it.

**Only model-checked:** the liveness properties `BuildEnds`, `WaitEnds` and `PagingEnds`:
liveness under fairness is outside the prover's reach. The library's induction theorems, which take
a predicate, are too; `NaturalFacts` states induction and recursion of sets and functions
instead, and a property of a recursive function is proved of the set of numbers that have it.

## 6. What is not modelled, and the plan

Not modelled by choice: the faucet (one POST without state); the closing of the httpx client; the tables of URLs; logging; exceptions' texts. Keys and signatures
are one concatenation around PyNaCl and hashlib: under ideal signatures and hashes every property of them would
hold by the shape of the model. The aliasing of lists the caller keeps
(`set_gas_payment`, `type_arguments`) appears only as further edits. Of `bcs_types.py`, the
command kinds `MAKE_MOVE_VEC` and `UPGRADE`, for which there is a number but no layout.

What is left, in order:

1. `AtomicBuild` and `Settlement` are implemented by the detailed modules; the abstract invariants they have by themselves
   could be stated and proved of them.
2. The types of values in the response models, should the SDK come to convert them.
