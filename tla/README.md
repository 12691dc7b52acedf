# A formal model of AI-Warden

AI-Warden reads a log, replaces everything that identifies the infrastructure by
random tokens, turns the rest into an event vector, sends it to a language model
for diagnosis and verifies the answer. This directory holds TLA+ modules that
model the parts of it that keep state or decide what leaves the machine, TLC
configurations that check them on small instances, and proofs, checked with
TLAPS, that the most important properties hold for every value of the constants.

## 1. Inventory

| Part | State | Operations | Interacts with |
|---|---|---|---|
| Token vault, `vault/vault.py`, `vault/prime.py` | `_vault`, `_reverse`, `_hashes`, `_prime`, `_lock`, the encrypted file, the key file | `new_session`, `tokenize`, `detokenize`, `verify`, `get_prime`, `_save` | shared by Layers 1 to 4 and by every thread that holds it |
| Layer 1, `sanitizer/layer1.py` | none (date placeholders during a call) | `sanitize` | calls `tokenize` |
| Layer 2, `sanitizer/layer2.py` | none (word frequencies during a call) | `scan` | calls `tokenize`, and an LLM auditor over HTTP |
| Layer 3, `sanitizer/layer3.py` | none | `check` | calls `verify` |
| Layer 4, `sanitizer/layer4.py` | none | `verify` | calls `verify` |
| Canary system, `canary/canary.py` | none | `run` | drives Layers 1 to 3, hence fills the vault |
| Pipeline, `sanitizer/__init__.py` | none | `run_pipeline` | canaries, then the layers in order |
| SFL transformer, `sfl/transformer.py` | a sequence counter shared by the process | `transform` | reads what the pipeline returned |
| Service registry, `registry/registry.py` | a JSON file | `register_service`, `get_channel_b`, `resolve_fix` | keyed by tokens |
| Response verification, `api/protocol.py`, `api/integrity.py` | `_seen_nonces`, `_nonce_order` | `verify_response`, packet construction | called by the client |
| Client, `api/client.py` | session id, the verifier | `send` | the model's API, the verifier |
| Diagnose tool, `tools/diagnose.py` | none | one run | all of the above |
| `repair/`, `watchdog/` | - | empty packages | - |

What is hard here, and where:

* **Threads.** The vault is shared; writers take a mutex, `verify` takes none
  and reads two fields one after the other while `new_session` may replace both.
* **Failures in the middle.** `_save` is the last step of every write, after the
  maps were changed. Whoever catches its exception goes on with a vault that
  already has the mapping: Layer 2 returns its input unchanged, the escalation
  path tries again, `run_pipeline` lets it through.
* **Text that is rewritten many times.** Later patterns see the tokens and
  placeholders of earlier ones; Layer 2 scores tokens like words. A token can
  stand for a text with a token in it.
* **Bounded memory.** The nonce cache forgets; what was refused once may be
  accepted later, if nothing else ties an answer to its request.
* **Files that several processes share.** The key, the vault and the registry
  are opened for writing in place, without a lock; a process may end between any
  two steps, and the others go on with what is left.
* **Code that reads the same lines twice.** The verifier looks for the hash
  first and for the fields afterwards, by two different loops; the transformer
  computes the type and the magnitude of a packet apart.
* **Gates that see part of a packet.** The whitelist, the session id and the
  number whitelist look at less than their comments promise.

What makes each part correct: the vault is one injective, stable assignment, and
`verify` tells the truth about it; a verified answer answers the request in
hand, is certain enough and names known actions; a text leaves the pipeline only
when both gates have passed it as it stands, can be turned back with the vault,
and shows an identifier only for a reason the code intends; a packet is ordered
by its number, and its type, scale and magnitude agree with the text; no entry
and no key is lost without a race or a crash; context precedes surprise.

`PROJECT.json` lists every hazard at its line with the properties that would
catch it.

## 2. Modules

| Module | Content | Extends |
|---|---|---|
| `SessionVault` | what the vault promises: atomic operations on one injective assignment | |
| `TokenVault` | the class `TokenVault`, step by step, with any number of threads | instance of `SessionVault` |
| `TokenVaultProofs` | its invariants; that it implements `SessionVault` | |
| `ResponseGates` | the gates of `verify_response` that change nothing | |
| `Wire`, `WireProofs` | how the lines of a response are read, step by step | `ResponseGates` |
| `ResponseVerifier`, `ResponseVerifierProofs` | the gates with the nonce cache | `ResponseGates` |
| `ZKDPClient`, `ZKDPClientProofs` | `send` of the client | `ResponseVerifier` |
| `Sanitizer` | what `run_pipeline` promises its caller | |
| `Pipeline`, `PipelineProofs` | `run_pipeline` with the four layers and the canaries | instance of `Sanitizer` |
| `SurprisePacket` | what a packet says of a text: pure operators | |
| `SFLTransformer`, `SFLTransformerProofs` | `transform` in several threads, with the shared counter | `SurprisePacket` |
| `Machine` | the processes that share files | |
| `VaultKey` | creating and loading the key file | `Machine` |
| `ServiceRegistry` | the registry file | `Machine` |
| `Startup`, `StartupProofs` | the start of the tool in several processes | `VaultKey`, `ServiceRegistry` |
| `Diagnose`, `DiagnoseProofs` | runs of the tool one after the other | `SurprisePacket`, instance of `Sanitizer` |
| `MC...` | the instances for TLC | |

### Vault

`lock`, `vault`, `reverse`, `hashes`, `prime` are the attributes of the object,
`file` what is on disk; `pc`, `arg`, `cand`, `seenHash` are the locals of the
call each thread is in. A step is what another thread can tell apart. The maps
`_vault` and `_reverse` are read under the lock only, so they change in one step
together with `_hashes`; `_hashes` and `_prime` change in different steps of
`new_session` (`ClearMaps`, `NewPrime`), and `verify` reads them in different
steps (`ReadHash`, `Compare`), because it takes no lock. `SaveFails` leaves the
file as it was, torn or complete, and the maps as the call changed them. The
keyed hash is taken to be collision free. `window` is a history variable: the
registration statuses a token had during the running verification.

`SessionVault` has none of this: an operation is called, takes effect in one
step, and returns; it may raise after its effect. `ImplementsSessionVault` is the
refinement, with `assigned <- vault` and the phase of a call read off `pc`.

### Response verification and client

A response is a record of what the gates look at: its shape, the request whose
hashes it echoes, session, nonce, confidence in tenths, and what kinds of
actions its vectors name. A hash is the request it covers. `VerifyResponse` is
one call: `Refuse`, `Replay` or `Pass`, and `Admit` is the cache with its
eviction loop. `count` and `stamp` are history variables.

`Wire` is where the shapes come from. The other side starts from an honest
answer and removes, inserts and changes lines (`Edit`); then the reader goes
through the steps of `verify_response` in their order, with the loop of
`_parse_body` a line at a time. A line is what the parser tells apart: a colon or
none, a name, spaces around it, a value. `Form` says declaratively what shape a
text has, and `GatesAgree` that the reader always comes to the verdict that
`EarlyGate` gives on it; so the abstraction under `ResponseVerifier` is checked
and not assumed; `WireProofs` proves it for any number of changes.

`ZKDPClient` adds the two calls of `send` and the confidence floor. The other
side can answer with anything built from requests it has received, this one or
an earlier one; a call may raise before or after the request arrived; a packet
that cannot be built raises `IntegrityError`, which `send` passes on. A gate that
dies of another exception (`Fatal` shapes) ends in the last `except` of `send`.

### Pipeline

A text is a sequence of words; a word has a form (what the patterns take it
for), a name, a label, the contexts around it and a flag for comment lines. The
two entropy bounds are two forms: what Layer 2 finds random (above 3.5 bits, any
word) is `dense`, and `random` only if Layer 3 finds it so too (above 4.0 bits,
in one run of more than twelve characters). The contextual patterns of Layer 1
take a value together with what is around it (`user `, `as `, a path, a unit);
they run in the order of the list (`Contexts`), so a word can lose several
contexts one after the other, to a new token each time.

| Action | Code |
|---|---|
| `Run` | `run_pipeline` is called; the first canary enters Layer 1 |
| `EnterL1` (in `Run`, `CanaryCaught`) | `normalize`, then the dates give way to placeholders |
| `L1Replace`, `L1Raises`, `L1Returns` | one match of a pattern; its save raises; dates restored |
| `L2Keep`, `L2Replace`, `L2Cleared` | one word of the scan, by its decision and the auditor's answer |
| `L2Raises`, `L2Returns` | the scan fails open, or returns |
| `CanaryCaught`, `CanaryAlarm` | the verdict on one canary |
| `L3Check`, `L4Verify` | the two gates |

`Signals` and `Decide` are the score. The weights are tenths; `RoundedDown` are
the two sums of doubles that fall short of 0.8 although their weights add up to
it, so the decision is the one the interpreter makes. Where an escalated word is
tokenized, a failing save is caught by the handler of `_escalate`, whose second
call finds the mapping: `L2Replace`. If the auditor has failed before, that call
is the first one, and its failing save ends the scan: `L2Raises`. An eight-digit
number of a log and a token are the same kind of word, so a number may happen to
be a token.

A canary is a text with a needle in it. The database connection string, the one
canary that Layer 1 leaves to Layer 2, is escalated there, since its entropy is
above 3.5: an auditor that answers NO makes the canaries fail, in every run.

`Sanitizer` is the same component seen by its caller: the vault only grows and
never gives two values one token, and either nothing is released, or a text of
which every piece passes the egress check and every long number is a token.
`ImplementsSanitizer` is the refinement. A piece is a word there and a line in
`Diagnose`, which takes over the promise for its lines; the step from one to the
other is an analogy and is not checked.

### Transformer

A text is the sequence of its lines that are not blank; a line is the time in
it, the entries of the keyword tables that occur in it, and its first
eight-digit number. The tables are the code's, in its order; an entry that
contains another one (`Contained`) occurs only with it. `Magnitudes` is the rounded mean,
exact in thousandths; where the mean lies halfway between two, both are allowed,
since the sum of doubles decides. `SFLTransformer` puts `transform` into threads:
`Acquire`, `Read`, `Write`, `Release` are `_allocate_seq`, whose `+=` is a read
and a write.

### Files and processes

`VaultKey` and `ServiceRegistry` have one action per step that another process
can come between: the look at the file, the load, the opening for writing, which
truncates, and the closing, when the text is there. `KeyEnds` and `RegistryEnds`
are the end of a process, by itself or by a crash, at any step; it can be started
again. A registry written over a longer text, or cut off, may be garbage. What a
race or a crash does is allowed for by history variables (`raced`, `cut`,
`lost`, `torn`, `vault_torn`), each of which names one cause. The properties say
that nothing else goes wrong, and that these causes have no other consequences;
they do not guard against the causes, which the code is open to.

`Startup` composes them into two kinds of process. One is the tool's:
`TokenVault()`, then `new_session` and any number of calls of `tokenize`, each of
which opens the vault file and writes it (`NewSession`, `Tokenize`, `OpenVault`,
`WriteVault`; `SaveRaises` is a save that fails in `tokenize`), with
`ServiceRegistry()` after the session was made (`BuildRegistry`). The other one
is the operator's (`Operate`), who registers services; nothing in the repository
calls `register_service`, so it is external. Here too a save that was overlapped
or cut off (`vault_torn`) may leave garbage, until one that begins alone has come
to its end.

### Diagnose

One process after the other: `Start`, `Tokenize` (any number of times) and
`Sanitized`, which are the promise of `Sanitizer`, `Transform`, `LookUp`,
`ChannelB`, `ChannelA`, `Finish`; `Raises` is an exception, which ends the
process. `Register` is the operator, who may register a service under any token.
The processes do not overlap here; that they may is the subject of `Startup`.

## 3. Runs

| Run | Instance | What it shows |
|---|---|---|
| `vault` | 3 threads, 2 values, 2 tokens, 2 primes | the maps agree, proofs are current, `verify` is linearizable, the file is the image of memory after a successful save, tokens are stable |
| `vault_refinement` | 2 threads | the vault implements the atomic one; the mutex is released, verifications end |
| `client` | 4 sends, cache of 2 | answers belong to the request in hand, context first, fails closed, a judged answer has used its nonce up; queue and buckets agree, no nonce twice within the window |
| `client_actions` | 3 sends, cache of 1 | violated: unlisted actions come out in `FALLBACK` or without a label |
| `client_failures` | 3 sends, cache of 1 | violated: a refused answer ends in `None` when a hash is not ASCII |
| `wire` | 2 changes of an honest answer | the reader's verdict is that of the gates; every field has one reading; no field is read before the hash is compared |
| `pipeline` | 3 runs, logs of up to 2, 1 and 0 of 14 words, 2 canaries, 5 tokens | see below |
| `pipeline_scan` | 1 word | violated: what a failed scan lets through is not caught by Layer 3 |
| `pipeline_dates` | 1 word | violated: Layer 2 tokenizes the dates of the lines it scans, so the transformer does not see them |
| `sfl` | 2 threads, 3 calls, texts of up to 3 of 14 lines | see below |
| `startup` | 2 processes, 3 keys, 2 services, 2 profiles | see below |
| `diagnose` | 3 processes, 2 values, 2 tokens, logs of up to 2 lines | see below |

`client`: `JudgedOnce` is about the order of the gates: the nonce is recorded
before the confidence and the whitelist gate, so that an answer which one of
these refuses cannot be delivered to them again until the cache has forgotten
its nonce. Were the nonce recorded after all gates, refused answers could come
back at once.

`pipeline`: `ReleasedIsProven` (whatever raised on the way, a released text has
no form that the egress check knows and no unproven long number);
`ClearForAReason` (an identifier that only Layer 2 can tell is in the clear only
on a comment line, after an abandoned scan, or because the auditor cleared it;
and the auditor is asked about values of keys only, the dense ones in any log,
the others in authentication logs, since their sum is rounded below the
threshold elsewhere); `Reversible` (following the vault back from a released text
gives the normalized log, through tokens of tokens, unless a log contained a
number that is a token, and up to dates in a context, of which the vault keeps
the placeholder); `AlarmForAReason` (a canary fails only behind an abandoned scan
or because the auditor cleared its needle, not over anything that earlier logs
or runs left in the vault); `AbandonedAlarmsRunOut` (a Layer 2 that cannot save
does not block a session for ever: each failed save leaves its mapping, so the
canaries fail behind abandoned scans once per word at most; failures that the
auditor causes are not bounded); `ImplementsSanitizer`.

`sfl`: `SeqOrdered` (numbers are unique, and a call that began after another one
returned has the higher); `ScaleIsGap` (each class is that of the time since the
last line that has one); `TypeFitsMagnitude`, `MagnitudeSound` (type and
magnitude do not contradict each other or the text, for fewer than a thousand
lines, from where on rounding hides a line). Rounding itself cannot show on three
lines; that it hides nothing below a thousand is shown by the theorem alone.
`TypeFitsMagnitude` allows for DRIFT at magnitude 0, of a text in which nothing
failed: the rule at `transformer.py:153` asks for two states and a slow sigma, though
the comment at `:144-145` calls DRAIN the only type that fires before a failure. No
property is about which row of the keyword table a line gets: the words are looked
for as parts of the line, so a line with `disconnected` is never DISCONNECT (and +1
unless something failed), one with `rate limit` never THROTTLE, and `unhealthy` is +1;
a property could only restate the table.

`startup`: `KeyAgreement` and `VaultReadable` (all vaults have the key in the
file, and the vault file can be read with it, unless two processes created the
key at once, or the last saves of the vault overlapped or did not end: one
undisturbed save repairs the file whatever happened before); `RefusedForAReason`
(the key file is empty only during its creation or after a process ended in it);
`NoLostEntry`, `ChannelBCurrent`, `UnreadableForAReason` (the registry holds what
was registered last, unless somebody saved a stale copy, saves overlapped, or
one was cut off).

`diagnose`: `OnlyTokensLeave` (a number in a packet is a token of this session,
or below 10000: `00001234` passes Layer 4 by its value and is then taken for a
token by its length, so `transformer.py:75-78` is mistaken about what
`\b\d{8}\b` finds); `SomethingToAsk` (a text without lines ends the tool before
anything is sent, and CONTEXT precedes SURPRISE). The packet of such a text is
well formed, as `transformer.py:246-247` promises, and the tool dies over it
with an IndexError at `diagnose.py:44`: the property allows this and says that
nothing was sent by then.

What the violated properties quote is in `PROJECT.json` under "findings".

Why the bounds are enough. *Vault*: a race needs a verifier and a writer, a
second writer needs the lock; a third thread lets `new_session` and `tokenize`
of two others fall into one verification. Two tokens make reuse after
`new_session` certain, two primes make a stale proof visible. Threads and values
are interchangeable. *Client*: a cache of two over four sends and two sessions
overflows twice: buckets fill, empty and fill again, and an answer can come back
after it was forgotten. *Wire*: what the two readings could disagree about is
one line, or a line and a second one with its name, so two changes make every
such text. *Pipeline*: two words are the least with which a count differs from
one and a scan can fail after a replacement. Each log of a session has a word
less than the one before: two runs are the least with which the vault knows a
value before a run, and three, the last one with an empty log, let a canary fail
for each of its two words and then pass, and let a number of a log be a token of
an earlier run; five tokens suffice for the longest chain (address, its two
contexts, Layer 2) beside the canary's. When tokens run out a behaviour stops,
as the code would spin. *Transformer*: three lines let a line without a time lie
between two others, and a third line differ from two that make a cascade; two
threads and three calls let one thread take two numbers while another one holds
its own. *Startup*: two processes race, and start again any number of times, as
other processes do; two keys make the race visible, and a third one can be drawn
by whoever comes after a crash. *Diagnose*: the third run can meet an entry for
a token of the first that the second did not have. The bounds are constants:
`MaxAdmitted`, `MaxSends`, `MaxEdits`, `MaxWords`, `MaxRuns`, `MaxLines`,
`MaxCalls`.

Fairness (`FairSpec` of `TokenVault`): a thread that is past the lock keeps
running, and a thread in `verify` keeps running, since nothing there blocks.
Nothing is assumed about who gets the lock: Python's lock is not fair. The
instance has at least as many tokens as values, without which `_generate_valid_token`
spins with the lock held: `LockReleased` does not see that, it is about the
exits of the operations, of which a save that raises is one. `VerifyReturns` says
that writers cannot hold a verification up, which is so because it takes no lock.

## 4. Proofs

*Vault.* `IInv` of `TokenVaultProofs` adds to the checked invariants: only the
holder of the lock is between a test and its save (`Exclusive`); what arguments
are (`Arguments`); what a writer has established and nobody else can undo
(`Writer`: its value is still unmapped, its candidate unused, and after
`ClearMaps` the maps stay empty until the new prime is set); and what an
unprotected verification can still answer (`Verifier`: once past its first read,
either the hash it read is under the present prime, or the token has been
unregistered meanwhile). `Bijective` alone is not inductive, because `Store`
preserves it only if the tests made before still hold; `VerifyLinearizable` is
not, because it says nothing of a verification in progress. From `IInv` follow
`TypeCorrect`, `MapsAgree`, `ProofsUnderCurrentPrime`, `LockFreeVerify`,
`FileIsImage` and, step by step, `TokensAreStable`.

`Implementation` shows, with the same invariant, that initial states map to
initial states and every step to a step or a stutter of `SessionVault`.
Assumption: `Distinct`, that `None` and `Raised` are no values, tokens or hashes.

*Verifier.* `IInv` of `ResponseVerifierProofs`: the queue holds the last
admitted pairs in the order of their stamps (`Stamped`), and a pair is in its
bucket exactly if it is in the queue (`Matching`). Hence `QueueAndBucketsAgree`
and, for every size of the cache, `ReplaysAreRefused`. Assumption:
`VerifierConstants`.

*Reader.* `IInv` of `WireProofs` says what each step of the reader has
established of the text for the steps after it: that it is text and not too long
(`Readable`), its header (`HeaderRead`), that the one line with the received hash
was found (`HashRead`) and equals the computed one (`HashProven`), that until
then no field was read (`Unread`), that the fields up to the cursor are
known, not empty and different (`Parsed`, `AllParsed`), and that a verdict is the
one the text deserves (`Decided`). `GatesAgree` is not inductive: it says nothing
before the verdict. Hence `WireTypes`, `ReaderAgreesWithGates`,
`ResponseReadOneWay` and `HashBeforeFields`, for any number of changes to an
answer; a text of one line and an empty one are among the cases. No assumption but
that the bound is a number.

*Client.* `ClientInv` of `ZKDPClientProofs` contains the verifier's invariant,
since every step of the client is a step of the verifier or leaves it alone. It
adds where a call is (`Calls`: while Channel A is under way the context of this
send has been answered and its SURPRISE packet has not), which is what makes
`ContextComesFirst` inductive, that the history of judged answers follows the
stamps of the cache (`Numbered`), from which `NoncesAreUsedUp` follows with the
replay window of the verifier, and what the last send returned (`Returned`).
`AnswersAreCurrent` and `ClientFailsClosed` rest on what the gates establish of
the response they let through. Assumption: `ClientConstants`.

*Pipeline.* `IInv` of `PipelineProofs`: types; a placeholder is at the place of
its date (`Placed`); nothing encoded is left (`Decoded`); past Layer 1 no word
stands in a context (`Consumed`); a running pipeline has no outcome (`Busy`);
what the gates found of the text behind them (`Gated`). Hence `TypeCorrect` and
`ReleaseIsGated`, for any logs, canaries and failures, and with them
`PipelineImplementsSanitizer`: a step of a layer is an `Issue` or a stutter, the
last gate is a `Release`.

Three more invariants stand on it. `ClearInv`: what is odd or dense in what Layer 2
has scanned is excused (a comment, or cleared by the auditor with the signals that
`DecideOdd` computes from the weights), unless the scan was abandoned; hence
`OnlyExcusedInClear`. `CanaryJob` and `AlarmInv`: while a canary is in work its words
are those of its text, but for the ones that Layer 1 replaces, so its needle
survives only an auditor's NO or an abandoned scan (`AlarmsHaveReasons`). An
abandoned scan has met a failed save, and that save has put a word of the canary
among those the vault knows (`Met`), which only grow; so the alarms behind
abandoned scans, with the one about to be raised (`Pending`), are at most as many
as the words met; hence `AbandonedAlarmsAreBounded`. `WayBack`: tokens are injective
and the vault is finite (`VaultInv`), a number of eight digits in the normalized
text is one of a log (`RawInv`), and from each word a path of steps back leads to
the one it was (`ChainInv`): `Turned` is what Layer 1 does to a word, a step for the
identifier and one for each context, and Layer 2 adds one more. Paths survive the
growth of the vault (`BackGrows`). Two steps of a path that take the same token
away would go on alike, so one of them would never reach a word without a token
(`TokensDiffer`); hence a path has as many steps as the vault has values at most,
by the pigeonhole principle (`PathIsShort`), and `Original`, which peels as often,
comes to its end and stays there (`PathEnds`); hence `ReleaseIsReversible`.

Assumptions: `PipelineConstants`, which orders the contexts around a word, and
`CanaryConstants`, which is what `canary.py` lists: needles are identifiers, keys or
headers, no canary has a comment, a date or a long number, and one whose needle is
left to Layer 2 has no word that Layer 1 replaces.

*Transformer.* `SeqInv` of `SFLTransformerProofs`: one thread at a time is
between `Acquire` and `Release`, and knows the counter (`Exclusive`); numbers that
are out or held by a thread are different and at most the counter, less if a
number has just been written (`Claimed`); what was out when a call began is below
the number it will get (`Below`). Hence `SequenceOrdered`. `RoundingHidesNothing`
and `TypeAndMagnitudeAgree` are about the operators: the numbers of lines that
failed and warned bound the sum of the weights, and the sum bounds its rounded
mean. `ScaleIsTheGap` is about the operators too: the anchors of the lines are a
recursive function (`AnchorsAre` says what it computes, by a least
counterexample). Assumptions: `SurprisePacketConstants`,
`TransformerConstants`.

*Startup.* `KeyInv`: until two processes race, at most one is creating the key
file, and whoever is up has the key in it (`Alone`). `RegistryInv`: until
something was lost or torn, at most one process writes, the file is what was
registered last, and the copies of the fresh processes are it (`Undisturbed`).
`VaultInv` ties the vault file to the key file: while the last saves of it were
undisturbed, at most one process is saving, over an empty file. `StartupImplementsParts` shows
that the composition only runs the two parts, which lets the first two be proved
of the parts. Assumptions: `VaultKeyConstants`, `RegistryConstants`.

*Diagnose.* `DiagnoseInv`: what a released text holds (`VaultOK`); what a process
has made and sent at each stage (`Progress`: the packet is made of such a text,
and what is on the wire is the context, then the packet); the types of the registry
and its copy (`Lookup`). Assumptions: `DiagnoseConstants`, `SurprisePacketConstants`.

The type invariants of the vault, the transformer, `Startup` and `Diagnose` are
proved and are not repeated in the runs.

The induction theorems of the library take an operator as a parameter, which the
installed provers cannot instantiate. What a recursive function computes for every
input (the anchors of the lines, `Original` of a word) is proved instead by
assuming a counterexample and taking the least one, which exists because `<` is
well founded on the numbers (`LeastNumber`). No module has a RECURSIVE operator.

Only model-checked: the liveness properties `LockReleased` and `VerifyReturns`
(liveness under fairness and ENABLED are out of the prover's reach), and the four
properties that the code violates. Every invariant, action property and refinement
that a run shows to hold is also proved for all values of the constants.

## 5. Not modelled

* Regular expressions, dictionaries and encodings: a form of word stands for
  what they recognise. Whether a pattern recognises what it should is a matter
  for tests. For this reason Layers 1 to 3 and the canaries are listed as partly
  modelled.
* Words around the canaries' needles that no layer changes; of the database
  connection string, the domain that Layer 1 replaces within it stays in its core.
* The entropy of ordinary words, which is taken to be low: a long dictionary word
  can be above 3.5 bits, and is then tokenized or put to the auditor as well.
* One line of words is not kept together: the comment flag belongs to a word.
* Concurrent runs of the pipeline on one vault; the vault itself is modelled with
  threads, the pipeline in one.
* Outbound serialization (`canonical_packet`, `build_outbound_packet`): it is a
  pure function, and its result matters here only as the two hashes that an
  answer must echo.
* `get_prime` (reads one attribute), `resolve_fix` (a constant table) and the
  arithmetic of prime generation.
* The SDK's own retries: the client sees one answer per call.
* `repair/` and `watchdog/` are empty packages.

## 6. Plan

Done: the vault with its abstract specification, the verifier with its reader,
the client, the pipeline with its promise, the transformer, the files, the tool.
What could follow:

1. `canonical_packet` over bounded packets, with its round trip through `Wire`.
2. Two pipelines in threads over one `SessionVault`.
