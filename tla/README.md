# r2web3 in TLA+

r2web3 is a C++ library with which a microcontroller (ESP32, ESP8266) or a Linux program talks to an Ethereum-compatible chain over JSON-RPC. It has no threads, persists nothing and never retries by itself; what makes it hard is the world around it: requests that are lost, late or answered twice over by the application, devices that restart in the middle of a payment, several devices that hold the same key, and a node whose view of an account changes between two requests.

## The system

| Component | State | Operations | Talks to |
|---|---|---|---|
| `Chain` (`Blockchain/Chain.cpp`) | `url`, `id`, `started` | `Start`, `LoadChainId`, `Send`, `EstimateGas`, `GetTransactionCount`, `GetGasPrice`, `GetBalance`, `ViewCall`, `GetTransactionReceipt`, `GetBlockInformation`, `SetRPCUrl` | the exchange below, once to three times per call |
| JSON-RPC exchange (`Internal/Chain_ethRequest.cpp`) | none | `BaseJsonBody`, `DoRequestYo` | `HttpRequest`, cJSON |
| `Result<T>` (`Shared/Common.h`) | value or error | `Value`, `Err`, copy, assign | every caller |
| `HttpRequest`, `HttpResponse`, `NetworkFacade` | one body buffer | `SetBody`, `SendRequest`, copies | a facade |
| `ESPNetwork` | `timeSyncRequired`, `caCertAdded`, the HTTP client | `MakeRequest`, `Restart`, `SetNtpServers` | NTP, HTTP client |
| `CurlNetwork` | one curl handle | `MakeRequest` | libcurl |
| Transactions and signing (`EthereumTransaction*`, `EthereumSigner`, `Signer`) | none | serialise, sign | RLP, ECDSA |
| RLP, ABI, addresses, accounts, receipts | values | encode, decode, parse | - |
| `BigNumber`, `Common` | values | parse, print, convert | - |
| cJSON (`Shared/cJSON.c`) | items on the heap, linked in lists; a buffer while it prints | parse, create, add, insert, detach, replace, copy, delete, print | the exchange, receipts |
| Cryptography (`cryptography/`) | a hash context between updates; else values | big numbers modulo a prime, points, keys, signatures; SHA-1, SHA-2, Keccak, HMAC | `Signer`, `Account` |

All calls are blocking, so a device has at most one exchange open. Components meet by plain calls; the only shared state is on the node (the account's transactions) and in the radio (the clock).

What makes each component correct: `Chain` must say the truth about a payment in its `Result`, never leave a nonce gap, never send before `Start`; the facade must send only under a trusted clock and must return; the pure parts must encode and decode without losing or confusing values; buffers must be released once, by the allocator they came from. cJSON must keep its lists linked and lose no item when memory runs out; the cryptography must compute exactly, in limbs that are never quite reduced, and hash the same message to the same digest however it arrives in pieces.

## Modules

| Module | What it is |
|---|---|
| `EthRequest` | what `DoRequestYo` makes of a response: pure operators |
| `EthNode` | the node, external: pool, mined transactions, what it accepts |
| `ChainSession` | `Chain` objects on several devices, the network between them and the node; extends both |
| `NonceLedger` | the abstract promise: per account, payments are made one at a time and in turn |
| `ChainSessionProofs` | three inductive invariants, one on top of the other: types, nonces and order of calls; what results say of the node; at most one payment. And `ChainSession` implements `NonceLedger` |
| `EspNetwork` | the facade of the microcontrollers: SetClock's loop, Restart, MakeRequest |
| `EspNetworkProofs` | its types, and that requests are sent under a set clock |
| `Bytes` | byte arrays: truncation, big-endian integers |
| `BytesProofs` | what these do to every array and every integer, and how a recursive function is unfolded in a proof |
| `Rlp` | `RlpEncoder`: headers, items, lists; and, external, how a node reads RLP, strictly |
| `SignedTransaction` | chain id, digest, signature, serialisation, and what nodes make of the bytes; extends `Rlp` |
| `SignedTransactionProofs` | what the encoder writes, for items of any length, and that the reader reads it back; and the inductive invariant of the pipeline: the node finds what was meant, no other chain's does |
| `Abi` | `ABIEncoder` and `ContractCall::AsData` |
| `ContractCall` | the arguments of a call and the contract that reads them; extends `Abi` |
| `ContractCallProofs` | the contract finds every argument, whatever they are, while the call data are short |
| `BigNumber` | words, hexadecimal and decimal text, conversions, and a variable set from every constructor |
| `BigNumberProofs` | words, bytes, hexadecimal and decimal text stand for the number that was given |
| `Bignum` | `bignum.c`: numbers in limbs, one function per function |
| `BignumInverse` | `bn_inverse`: its shared registers, its loop, its division |
| `LimbInverse` | the same as a machine, one action per part of the loop; extends `BignumInverse`, implements `AlmostInverse` |
| `LimbInverseProofs` | that it does, step by step, for limbs of any width and number; and so its result is the inverse |
| `AlmostInverse`, `AlmostInverseProofs` | the algorithm on numbers, and the proof that it inverts |
| `FieldNumbers` | any computation with the functions of `bignum.c` that their comments allow |
| `Residues` | the reference: residues, powers, points of a curve by the textbook |
| `Ecdsa` | `ecdsa.c`: points, multiplication, keys, signing, verification, recovery; extends `BignumInverse` |
| `Signing` | a key pair and a signature, from the key to the recovered signer |
| `Words` | 32-bit and 64-bit words and bytes, as sets of bits |
| `Sha2`, `Sha3` | `sha2.c` with the HMAC of `hmac.c`, and `sha3.c` |
| `Hashing` | Init, updates and Final of every hash, piece by piece; and the reference, what FIPS 180-4, FIPS 202 and RFC 2104 say of a whole message |
| `JsonItems` | cJSON's items: allocation, lists, names, replacement, copies |
| `JsonParser`, `JsonPrinter` | the parser and the printer, on the items of `JsonItems` |
| `JsonDocuments` | the abstract promise: documents are trees of sequences |
| `Json` | a program that parses a text and works with its items while any allocation may fail; and the reference, RFC 8259 as a function from texts to values |
| `MC...` | values of the constants for TLC |

### ChainSession

`started` and `id` are the fields of `Chain`. `pc` is the JSON-RPC method of the open exchange (or `"idle"`, or `"crashed"`), `op` the local variables of the running `Send` or `EstimateGas`, `reply` what the facade is about to return. One action is the code between two exchanges:

| Action | Code |
|---|---|
| `StartKnown`, `StartLoad`, `StartLoaded`, `StartFailed` | `Chain::Start`, `LoadChainId` |
| `BeginTx` | entry of `Send` and `EstimateGas`: `AssertStarted`, first exchange |
| `CountReply`, `GasPriceReply` | code behind `eth_getTransactionCount`, `eth_gasPrice` |
| `RawReply`, `EstimateReply` | the end of `Send`, `EstimateGas` |
| `Fault` | a null result is dereferenced and the program dies: the first exchange of `Start`, the nonce, the gas price, the estimate; the end of `Send` copies nothing for a null pointer |
| `ServeRead`, `ServeRaw`, `NodeFails` | the node answers |
| `Refuse`, `TimeOut`, `Spoil`, `StrayArrives`, `StrayLost` | the network refuses, gives up, loses an answer, or delivers a request the device gave up on |
| `PowerLoss` | the device, running or crashed, restarts and forgets everything |
| `MineBlock` | a block takes a pooled transaction |

`journal`, `accepted` and `startReturned` are history variables: what the application was told of each call, what the node took, whether `Start` returned true. The hash of a transaction is not modelled (the number 0 stands for it), nor are amounts: a payload is a model value. A response body is one of six shapes, which is all `DoRequestYo` distinguishes. An uninitialised `started` is a nondeterministic choice from `StartedInit`. A thrown `AssertStarted` leaves the device idle, as on a desktop; on a microcontroller it restarts the device, which `PowerLoss` adds at any time.

### EspNetwork

`pc = "poll"` is an evaluation of the condition of `SetClock`'s loop. `clock` is `time(nullptr)`: it counts from boot (`Tick`) until `NtpAnswers` sets it and may be lost in `Hibernate`. `restartDue` is a history variable: the application does what `ESPNetwork.h:61` and `73` ask of it, and after hibernation makes no request with a certificate until a `Restart` has returned true. The time constants are scaled down: three retries for fifty, four ticks for sixteen hours.

### Encoders and numbers

These parts are pure functions; each module has their translation as operators, and a small machine that feeds them what the program can.

`Encode` of a list joins the encodings of its children, which is what `EncodeVector` is given. `SignedTransaction` has one action per function of the pipeline. keccak-256 is taken as injective (bytes stand for their hash), ECDSA as an oracle: any two numbers `r`, `s` may sign a digest, and who has the same digest, numbers and recovery id finds the key. The node reads the bytes strictly, takes the chain out of `v`, rebuilds the digest from the fields and looks whether it is the one that was signed. `ContractCall` lists arguments one at a time and lets the contract read the result by their types. In `BigNumber`, a character is a number.

### Big numbers and signatures

A `bignum256` is a function from limbs `0..L` to words. The code has nine limbs of thirty bits, of which the last uses sixteen, for numbers of 256 bits; `W` and `L` scale them: with `W = 8` and `L = 2` there are three limbs, of which the last uses four bits, for numbers of twenty bits, and a machine word has `W + 2` of them, as 32 bits hold a limb of thirty. The carry of every loop is written out, and every intermediate value keeps the width of its C type (`U32`, `U64`), so a carry or borrow that does not fit is lost in the model as it is in the code. A prime has to lie as close below a power of two as the reductions of `bignum.c` assume of it.

`FieldNumbers` keeps two numbers and, beside each, the residue it should stand for; each action is one function with the precondition its comment states ("partly reduced" and the like). `LimbInverse` is a state machine because `bn_inverse` is one long loop with a dozen interacting variables: `Halve`, `Subtract` and `Divide` are its three parts. `Signing` runs the functions of `ecdsa.c` in the order a signer, a checker and a recovering party use them. The generator of nonces is taken to give any number, and so are the random numbers that blind a multiplication.

### Hashes

A word is the set of its bits that are one; exclusive or, shift and sum are operations on sets, which TLC evaluates fast enough to hash real blocks. The buffers of `sha2.c` are bytes that the code turns to host order in place, as the model does; the word functions, schedules, permutation and padding are those of the code. Only the constant words of SHA-1 and SHA-2 are replaced by others (`MCHashing`), because they are data.

### cJSON

`heap` maps each of a few items to its fields, and pointers are numbers of items. A call gets `left`, the allocations that succeed before the first that fails, so failure at every point of every call is tried. `held` is what the program holds. The program does what `cJSON.h` asks of it: it adds an item to one list only, and never to itself or what is below it. Texts are sequences of bytes, numbers are decimal numbers `m * 10^e`. A string is the copy of one allocation; `strings` counts them. The C library's `strtod` and the `%g` of `sprintf` are external; the model has them exact, and prints eight digits for fifteen.

Definitions marked "broken twin" are wrong forms of the definition that follows them; putting one in its place must break the property the twin is meant for.

## Runs

| Run | Shows | Bounds |
|---|---|---|
| `shared_account` | types, truth of results, nonces, order of calls, and the refinement of `NonceLedger` | two devices, one account, two calls, two payloads, two gas prices. Two calls are the least for which one transaction replaces, blocks or overtakes another; two prices decide who replaces whom |
| `safe_retry` | no payment is made twice if only safe results are retried, and every call returns unless a null result kills it | one payload, two attempts from two devices that were constructed with the chain id (the exchange of `Start` adds nothing here), one price. `SafeRetry` restricts which calls the application begins, not how they run, so `CallsReturnUnlessNull` loses nothing by it |
| `esp_sync` | requests under a set clock, return of every call, healing | three retries; uptime on both sides of the threshold, so that an unset clock comes to pass for a set one |
| `signed_bytes` | the right node finds sender and values, no other accepts | a `uint32_t` of two bytes; all mixes of leading zeros in amounts, address, `r` and `s`; data of 0, 1, 2, 17, 55, 56, 255 and 256 bytes, so that items and the list meet every change of form; ids up to the last that fits and two beyond |
| `call_arguments` | contracts read what was passed | up to four of thirteen arguments around the size of a word |
| `numbers` | numbers keep their value; conversions give the number, the greatest long, or throw | words of two digits, numbers of up to three words; a long of sixteen bits, the width of two words, as on the microcontrollers |
| `limb_inverse` | inversion of limbs: the invariants of the comments, the result, the end of the loops, and the refinement of `AlmostInverse` | limbs of four bits, every number of twelve bits but those that are zero modulo the prime, so that words are filled, dropped and shared in every way two words allow |
| `field_numbers` | no carry is lost and every promised bound is kept | limbs of eight bits, numbers of twenty, eleven starting values around zero, the limbs' ends, the prime and the greatest number; three calls, one more than it takes to reach and then use a number above the prime |
| `signing` | public keys, range of signatures, verification, recovery | a curve `y^2 = x^3 + 59` over 24 bits with an order below its prime, as secp256k1; keys next to 0 and the order; digests of 0, the order and beyond; nonces out of range, nonces that make `r` or `s` zero, and points with x at and above the order, which on the real curve nobody will ever meet |
| `hashing` | updates and digests of SHA-1, SHA-256, SHA-512, Keccak-256, SHA3-512 and HMAC | two pieces of lengths around the ends of a block and of its padding, aligned or not; keys of less than a block, a whole one and more |
| `json` | links, memory, printing and reading back, the parser against the grammar, and the refinement of `JsonDocuments` | some 3,000 texts; three documents that are worked with in up to three calls, with up to five items and any allocation failing; nesting to three, integers to 127 |
| `long_call` | violation: see below | up to four arguments, two of them long ones |

Deadlock is checked where the system goes on forever (`ChainSession`, `EspNetwork`, `BigNumber`); the encoders, computations and documents stop when their result is there or their calls are used up. `MaxCalls`, `MaxArguments`, `MaxUpdates`, `MaxTurns`, `MaxUptime`, `MaxItems` and `MaxAllocations` bound calls, arguments, pieces, signing attempts, the clock, items and allocations; nothing else is bounded, since all other state is finite. Widths of integers are constants, so that their ends can be reached with small numbers. In `ChainSession` a call number stands for one invocation of `Send` or `EstimateGas`.

`PaidAtMostOnce` and `MinusOneMeansNotSent` hold for the codes of the ESP HTTP client (-1 for a refused connection, -11 for a time-out). `CurlNetwork` uses -1 for every failure, which is the variant `OneTransportCode`: with it -1 no longer means that a payment was not made. `MinusOneMeansNotSent` and `EstimateNeverSubmits` follow from theorems and are in no run.

### What the violation shows

`long_call`: `padx` misplaces offsets of two bytes, so calls with a dynamic argument behind 255 bytes arrive broken. `pad` of `ABIEncoder.cpp` does the same job rightly.

### Known deviations

Each of these is a property of the modules that fails when a passing configuration is changed as described.

| Deviation | Property | How to see it |
|---|---|---|
| `GetTransactionCount` asks at `"latest"` (`Chain.cpp:78`), so two `Send`s within one block use the same nonce; the second replaces the first or is refused, and an application that looks at the hash only does not notice. `Chain.h:104` says it returns "the number of transactions made" | `NonceCountsTransactionsMade` | add it to `shared_account` with `Clients <- OneClient` |
| No constructor sets `started` (`Chain.h:48-51`, `136`). In static storage it is zero, elsewhere `AssertStarted` may pass without `Start`, with chain id 0 | `CallsOnlyAfterStart` | `shared_account` with `StartedInit <- AnyMemory`, `Clients <- OneClient`, `ConfiguredId <- NoneConfigured` |
| A response whose `result` is null is a value to `MakeRequst`, and `Chain.cpp:57`, `82`, `222` and `235` hand its null pointer to `strtol` and to the constructor of `BigNumber`: the program dies, although `Chain.h:65-119` documents a `Result` for every answer; `GetTransactionReceipt` checks for it (`Chain.cpp:96`). `CallsReturnUnlessNull` says that nothing else keeps a call from returning | `CallsReturn` of `ChainSession` | add it to `safe_retry` |
| `SetClock` takes any clock past sixteen hours for a set one (`ESPNetwork.cpp:148`), also the uptime of a device that NTP never reached: `Restart` returns true against `ESPNetwork.h:74` ("true if NTP time was successfully fetched"), and certificates are judged against the year 1970. `SentWithSetClock` is therefore all that can be said of requests: the clock is one that `SetClock` would not wait for | `TrueMeansFetched` | add it to `esp_sync` |
| A time that arrives in the last delay of `Restart` is fetched and reported as not fetched (`ESPNetwork.cpp:154`). It heals: the next call finds the clock set | `FetchedMeansTrue` | add it to `esp_sync` |
| Zero prints as the empty text (`BigNumber.cpp:113`; `BigNumber.h:114` promises a "decimal representation of the number"). `ToUInt32` is saved by `strtol`, which reads nothing as 0. `NonZeroDecimals` is about the other numbers | `DecimalHasDigits` | add it to `numbers` |
| `ToUInt32` reads its decimal text with `strtol` (`BigNumber.cpp:317`). Where long has 32 bits, as on the microcontrollers, every number from 2^31 on becomes 2^31 - 1 in silence; `BigNumber.h:110` promises the number, or an exception above four bytes. A nonce never gets there, a timestamp will in 2038 (`TransactionResponse.h:148`). Where long has 64 bits this does not happen. `ConvertsOrSaturates` says exactly what is returned | `UInt32IsTheNumber` | add it to `numbers` |

### Limits written into the properties

These are no runs of their own; a property states them as its precondition, or the inputs leave them out.

- Call data of one zero byte are sent as no data (`EncodeBytes` takes it for the number zero): `AcceptedAsMeant` says so.
- Chain ids from 2^31 - 18 on make `v` wrap around, and the transaction belongs to nobody; an id beyond 32 bits is cut, and what the device signs can be executed on the chain that has the rest as its id. Both are outside `FitsUint`; without that precondition TLC shows each of them.
- Arrays of strings or of arrays are laid out without offsets, and written beyond their vector; the run's arrays hold static values.
- What `eth_call` returns has sixteen words, so `ToUInt32` refuses it however small it is; `ConvertsOrSaturates` says so.
- `" 0x5"`, with a blank before the prefix, is read as 0; the run's texts have the one or the other.
- `bn_inverse` of a multiple of the prime reads in front of its array; the assumption of `LimbInverse` leaves it out, as the callers do. Its comment calls the bound of a turn `max(u,v) <= 2^k`; what holds, and is checked, is the bound on `s` and `r`.
- `ecdsa_verify_digest` refuses a digest that is a multiple of the order (it returns 3), although `ecdsa_sign_digest` signs it: `SignatureBelongsToKey` says so.
- cJSON reads some texts that are not JSON (leading zeros, control characters in strings), cuts numbers behind 63 bytes and strings at a `\u0000`: `ReadsJson` is about JSON texts, without a zero, of the modelled nesting, and no text of the run fills those 63 bytes.
- A replacement in an object that fails has already lost its old name; `JsonDocuments` promises no more than that.

## Fairness

`ChainSession`: weak fairness of the code behind an answered exchange (the program is sequential and nothing else runs) and of `TimeOut` (`ESPNetwork` sets a time-out of 10 s on the HTTP client, `ESPNetwork.cpp:39-41`). Nothing is assumed of the node, the miners or the application. `CurlNetwork` sets no time-out, so `CallsReturnUnlessNull` is not claimed for it. A crashed program stays crashed as long as nobody restarts the device, since `PowerLoss` is not fair.

`EspNetwork`: weak fairness of the library's own steps, and strong fairness of `MakeRequest("https")`, because the application's `loop()` makes requests again and again, whatever else it does; and weak fairness of `Restart` while one is due after hibernation, because the application tries again until it is true. NTP is not assumed to answer: `SyncFailureHeals` says what follows when it has.

`LimbInverse`: weak fairness of `Next`; the function is sequential and does nothing but its loops. `Returns` is a claim about numbers, that `u + v` shrinks and `k` runs out, and fails if a bit is left over.

The other runs claim no liveness: their functions return by construction of the model.

## Proofs

All theorems hold for any sets of devices, accounts, payloads and prices, any number of calls, for `EspNetwork` any number of retries, for `SignedTransaction` any `uint32_t` of one to four bytes, any keys, amounts, addresses and data, for `ContractCall` any number of arguments, for `LimbInverse` any number of limbs, of any width that is not below the bits used of the last one (`Bignum`'s `WidthAssumption`; thirty and sixteen in the code), and every input that is not zero modulo the prime, and for `BigNumber` words of any even number of hexadecimal digits, numbers and texts of any length. `ChainSession` assumes `StatusAssumption`, `NodeAssumption` and `SessionAssumption`; the encoder and `SignedTransaction` assume `WidthAssumption` and `TransactionAssumption`, which bounds the data by a megabyte (`MaxData`), far more than a device holds, so that no header needs more bytes of length than the reader is asked to read. `WordAssumption` is the types of what the constructors of `BigNumber` take, and that a text has blanks or a prefix in front of its digits but not both. `ItemsAssumption` says what the constructors of `EncodableItem` make: numbers without leading zeros and at most a word long, which `pad` asserts, flags and addresses of their lengths, texts of any, and arrays of the former; `CallAssumption` is the types of the other two constants. `LimbInverseAssumption` is what `bignum.c` asks of a modulus: an odd prime that fills its top limb, as the primes and orders of secp256k1 and NIST P-256 do.

| Theorem | Says | Further assumption |
|---|---|---|
| `TypeCorrect` | `Spec => []TypeOK` | |
| `NoncesLeaveNoGap` | `Spec => []NoNonceGap` | |
| `StartComesFirst` | `Spec => []CallsOnlyAfterStart` | `StartedInit = {FALSE}`, a `Chain` of static storage |
| `HashesAreTrue` | `Spec => []SendResultSound` | |
| `EarlyErrorsAreFinal` | `Spec => []EarlyErrorMeansNotSent` | |
| `EstimatesAreFree` | `Spec => []EstimateNeverSubmits` | |
| `KeepsThePromise` | `Spec => KeepsLedger`, the refinement of `NonceLedger` | |
| `SafeRetryPaysOnce` | `Spec => []PaidAtMostOnce` | `RefusalIsDistinct`: the facade keeps -1 for requests that were not sent |
| `MinusOneIsFinal` | `Spec => []MinusOneMeansNotSent` | the same |
| `EspTypes` | `EspNetwork`'s `TypeOK` | |
| `InverseIsRight` | `AlmostInverse`: what is returned is the inverse, below the modulus | `InputAssumption`: the modulus shares no factor with what is divided by |
| `RegistersFit` | `AlmostInverse`: `u * s + v * r` is the modulus in every turn of the loop | the same |
| `AlgorithmImplemented` | `LimbInverse`'s `Spec => ImplementsAlgorithm`, the refinement of `AlmostInverse` | |
| `LoopInvariantHolds` | `Spec => []LoopInvariant` | |
| `InverseReturned` | `Spec => []ReturnsInverse` | |
| `LimbsTyped` | `LimbInverse`'s `Spec => []TypeOK` | |
| `TypesAreKept` | `SignedTransaction`'s `Spec => []TypeOK` | |
| `TheNodeUnderstands` | `Spec => []AcceptedAsMeant` | |
| `NothingIsReplayed` | `Spec => []NoReplay` | |
| `StagesAreKnown` | `Spec => []Known`, the inductive invariant of the three | |
| `Typed` | `ContractCall`'s `Spec => []TypeOK` | |
| `ShortCallsArrive` | `Spec => []ShortArgumentsArrive` | |
| `EncodeBytesIs` | every array is encoded as nothing, as itself, or behind a header that says its length | shorter than `MaxLength` |
| `EncodeVectorIs` | every vector is encoded behind a header that says the length of its contents | the same |
| `TruncateProperties` | truncating leaves the integer of an array as it was, without a leading zero | |
| `WordsStayWords` | `BigNumber`'s `Spec => []TypeOK` | |
| `NumbersKeepTheirValue` | `Spec => []KeepsItsValue` | |
| `DecimalsAreTheNumber` | `Spec => []NonZeroDecimals` | |
| `ConversionsAreRight` | `Spec => []ConvertsOrSaturates` | |
| `WordsStandForIt` | `Spec => []IInv`, the inductive invariant of the four | |
| `RequestsAreTimely` | `EspNetwork`'s `Spec => []SentWithSetClock`, for any uptime | |

**Nonces.** `NoNonceGap` is not inductive. What a device has read of the node must be bounded by what the node has mined since: `AnswersFit` for a count that has arrived, `NoncesPast` for the nonce of a running call, `StraysPast` for requests that were given up on. Blocks only raise the bound. The node refuses what is below it, so what it accepts is exactly at it; `OnePerSlot` then gives that no other pooled transaction of the account is left behind when a block takes one. `IInv` is the conjunction with the types; one lemma per building block (`EndIsTyped`, `DeliverStep`, `AcceptStep`, `AbandonStep`, `NextExchangeStep`) and one per group of actions.

**Records.** `RecordsOK` ties three things that the code never sees together: the requests under way (open or stray) and the transactions the node has, the locals of the running call, and what the application was told. Every request carries the number of its call; calls of the future have none (`FutureEmpty`); a call that still asks for its nonce or price has sent nothing; an answer with a hash is only formed for what the node took. With this, each of the three properties is a matter of the step that closes a call.

**Payments.** `AttemptsOK` says that of all attempts at a payment at most one is live: the others ended with a result that says "not made", and such a call has nothing under way. `LedgerOK` says that the node only has what a call signed, once. A new attempt begins only after the earlier ones are final, so the node never has two. The assumption on -1 is needed in one place, the result of a call whose last exchange was refused; with `CurlNetwork`'s codes the step fails, as the run's broken twin shows.

**Refinement.** The mapping reads the ledger off the node: a step of `Accept` appends or replaces the pending payment, `MineBlock` makes it, all others stutter; `IInv` supplies that an accepted transaction is the next in turn.

**ESPNetwork.** `SyncedMeansSet` is what the code relies on without saying it: while `timeSyncRequired` is cleared and no `Restart` is due, the clock is past the threshold. The flag is cleared and the duty is met only where the loop found such a clock; the clock never falls but in hibernation, which makes a `Restart` due. Neither an answer to a request (`AnswersDoNotRelease`) nor a failure (`FailureDoesNotRelease`) ends the duty.

**Inverse.** `LoopInv` has the relations of the comments (`u * s + v * r = prime`, and `r` as the almost inverse of `u`), and that `r` is zero in the first turns only; `ResultInv` says the same of `s` and `v`, and that `s` is below the prime once `v` is 1, so that dividing the powers out leaves the inverse. Congruences are kept as witnesses (`Multiple`), since the provers do not reason about `%`. The theorem knows nothing of limbs.

**Limbs.** That `bn_inverse` follows the algorithm step by step is `AlgorithmImplemented`. A register holds two numbers, one from its lowest word up (`First`), one from its highest word down (`Second`), and `len1` says where they meet. The words are digits, and a number is their `Worth`, a sum over places: `WorthCompare`, `WorthShift` and `WorthCarry` say what comparing digits, moving them and passing carries on does to it. Each loop over words then has one lemma, by induction on the place, that says what it does to the two numbers: `HalveIs` (trailing zero words, then bits, taken from the first number and given to the second), `CompareIs` and `SubtractIs` (the loop that ends at the first word that differs, the borrow, the carry), `DivideIs` (a multiple of the prime is added that makes the last bits zero, `NegativeInverseIs` being why the factor is right), `LoadIs` and `StoreIs` (limbs to words and back, after `bn_fast_mod` and `bn_mod`). The inductive invariant `LInv` is the one of `AlmostInverse` for these numbers and two parts of its own. `Shape`: which words are not zero and which numbers are odd; `bn_inverse` looks for the last one bit of a word without asking whether there is one. `Growth`: the second numbers are at most `2^k` (twice that for one of them while the other's first number is even); it gives the bounds on `s` that the comments of the loop claim, and is not in the algorithm's invariant. That both numbers of a register fit, and that no carry runs from one into the other, is `u * s + v * r = prime` (`Room`). That the modulus is prime is used in `LeavesAtOne`: the loop ends when the two numbers are equal, a common divisor, and it is 1.

**Signed bytes.** The stages of the pipeline are functions of the transaction, the id and the signature, as far as the work has come: `Known`, the inductive invariant, says which. What is left is about the encoding, for items of any length. `Digits`, `Number`, `FlattenSeq` and the reader's `Pieces` are recursive functions, chosen by `CHOOSE`, so nothing is known of them until a function with that recursion is shown to exist. `Recursion` shows it once, along any rank, and `NatRecursion` and `BoundedRecursion` for numbers; the step is a function and the induction a set (`NatInduct`), because the provers take neither as an operator. With it `DigitsUnfold`, `FlattenUnfolds` and `PiecesUnfold` give each its equation, `NumberBounds` and `DigitsWithoutZeros` the value of bytes. `GeneratedHeader` finds the `CHOOSE` of `generateHeader`, the one count of bytes without a leading zero; `ShortForm` and `LongForm` say what the reader's first piece is behind either kind of header, in front of anything. So every item that `EncodeBytes` writes is read back (`EncodeBytesIs`), and, one after the other, all of a list (`EncodeVectorIs`): `StringLists` of what is sent holds the nine fields and nothing else. The integers among them are in their shortest form, and so are `r` and `s`, which makes them acceptable and keeps their value. `RecoveryValueIsRead` takes the chain and the recovery id back out of `v`; `FitsUint` is needed there and where the id is read, and nowhere else. A node of another chain does not find its own in `v`, and 27 and 28, which name no chain, are never written.

**Contract calls.** `IInv` says that the call data are `AsData` of the listed arguments, or not there yet; `Typed` and `ShortCallsArrive` are about that operator. `Encode` is a recursive function on the items, of which nothing is known until it is shown to exist; arrays hold words, so one level below an item is enough (`EncodeUnfolds`). `ItemEncoded` says what each item becomes: whole words, a number at the end of its word, a size and then the bytes or the words. Heads and tails are laid one after the other: `Laid` says where the parts of a joined sequence begin, which for the heads is the word of the same number, and for the tails, by the sums that `AsData` keeps, what the head says, as long as one byte says it. That is where the bound of 256 enters: `padx` puts one byte where it belongs and longer positions elsewhere. The contract then reads the words it finds there (`Arrives`).

**Numbers.** None of the four properties of `BigNumber` is inductive: they speak of what is computed from the words, while the next words come from somewhere else. `IInv` says that the words are words, that they stand for what was given and that the text is theirs; every constructor establishes it (`FromUintIs`, `FromHexIs`), and the properties are facts about sequences of words of any length. Words, bytes and hexadecimal digits are the same digits in groups of another size: `Regrouped` says that the groups, taken as digits to a power of the base, stand for the same number, even if the first group is short. `WordsAreCut` finds these groups in the pieces that `FromHex` cuts off the end of the text, `TextIsRead` gives `strtol` of one piece, blanks counting as zeros, and `LettersAre` says what `remove_hex_prefix` leaves. A decimal string is made by schoolbook sums and products: a column holds a sum of digits, `ValueOf` is what the columns stand for, and `CarriedIs` says that passing the carries on leaves it alone and leaves digits, if the number has no more digits than there are columns. With `RowIs`, for the product with one digit, `AddStringsIs` and `MultiplyStringsIs` say that strings are added and multiplied as their numbers are, `IntToCharIs` that a word is printed as itself, and `DecimalIs` that the weighted words add up. Two words are less than the span of a `uint32_t`, so the last `%` of `ToUInt32` takes nothing away.

Only model-checked:

- Liveness (`CallsReturnUnlessNull`, `EspNetwork`'s `CallsReturn`, `SyncFailureHeals`, `Returns`), which needs ENABLED.
- `Hashing` and `Json`: their invariants speak of what recursive functions compute; they could be unfolded as above, which is left for later.
- `FieldNumbers` and `Signing`: their references are powers and multiples of points modulo a prime. Of their functions only those that `bn_inverse` calls (`bn_fast_mod`, `bn_mod`, `bn_subtract`) and `bn_inverse` itself have lemmas for limbs of any width.


## Not modelled, and the plan

1. `ChainSession`: the remaining calls of one exchange, receipts that appear when a transaction is mined, `SetRPCUrl` with nodes of two chains.
2. Ownership: `Result`, `HttpRequest`/`HttpResponse`, the buffers of `MakeRequst` (`new[]`, `malloc`), the text of `cJSON_Print` that `Chain_ethRequest.cpp:119` never frees, and copies of transactions, as an allocator model. The mismatches are visible in the code and depend on no order of events.
3. Conversions: `hex_string_to_bytes` with odd texts (it throws), `Address` from bytes and text, `ABIDecoder`; handles of ABI arguments.
4. Theorems about `JsonItems`: that detaching and replacing keep a list linked, for any number of items.
5. Cryptography: the generator of nonces (RFC 6979, `ecdsa.c:570-618`; any nonce is assumed instead), the DER form of a signature, `bn_divmod*` and the formatting of numbers, none of which the library uses but the first; `rand.c`, which is a vendored generator. `rfc6979.c` is commented out.
6. cJSON: references, `Compare`, `Minify`, `InitHooks`, arrays of strings, infinite numbers, printing with seventeen digits. The library uses none of them.

Logging is pure output. `CurlNetwork` is one blocking library call without state.
