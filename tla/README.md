# Lintrix in TLA+

Lintrix (`src/`) is a TypeScript and JavaScript linter: a C++ parser, rule engine and result cache, a type server
(tsgo, the TypeScript compiler in Go) it talks to over a pipe, a resident `lintrix serve` mode, and a VS Code language
server in TypeScript that lints through the resident binary. This directory specifies its stateful parts and the
algorithms its results rest on in TLA+, model-checks them with TLC, and proves the main results about the cache, the
serve mode, both sides of the type server's connection, the directives, the passes of `--fix`, the language server, the
rules about control flow and the rules about `any` with TLAPS.

- [Inventory](#inventory): the system's components, their state, how they interact, what is hard about them
- [The modules](#the-modules): which module models which part, and how state and actions correspond to the code
- [The runs](#the-runs): what each TLC run checks, its bounds, and the fairness assumed
- [The proofs](#the-proofs): what is proved for every value of the constants, from what and how
- [Where the code and its documents part](#where-the-code-and-its-documents-part)
- [Limits found while modelling](#limits-found-while-modelling)
- [What is not modelled](#what-is-not-modelled)
- [Plan](#plan)

Paths below are relative to `src/`; `cache/`, `types/`, `lint/`, `tsgo/`, `ast/`, `syntax/`, `rules/` are under
`source/fastlint/`, `cli/` under `source/`, `server/` under `editors/vscode/`. `PROJECT.json` maps every definition to
the lines it models, and lists the hazards the properties are aimed at, each at its line.

## Inventory

| component | state | operations | hard because | correct when |
|---|---|---|---|---|
| import graph (`cache/closure.cc`, `imports.cc`) | entries of the files loaded, reverse edges | `setFile`, `loadClosure`, `closureHash`, `resolveImport` | work list abandoned at a file that cannot be opened, edges left out of the hash | equal hashes mean equal worlds for the type server |
| result cache (`cli/run.cc`, `cli/lint.cc`) | environment hash, the run's graph | `open`, `refresh`, `load`, `save` per file | lookups, deletes and commits are separate statements and other processes run between them; crashes | the cache is invisible |
| sqlite store (`cache/store.cc`) | tables `files`, `rule_results`, `symbols`, `types`, ... | get/put, `begin`/`commit`/`rollback`, schema rebuild | no busy timeout, so a second writer fails at once | a commit is seen whole or not at all |
| serve mode (`cli/serve.cc`) | sessions: configuration, type source, cache, graph | `lint`, `close`, `changed`, `configChanged`, `shutdown` | everything outlives the request; notices arrive late; unsaved text | an answer is for the text, the configuration and the tsconfigs of now |
| type source (`types/type_source.cc`) | texts handed over, open files, snapshot, session, routes | `open`, `addProject`, `setFileProject`, `beginFile`, `endFile`, `forgetFile`, `filesChanged`, `close` | the server re-reads only what it is told to, and keeps an open file's text | what the server checks is what the rules walk |
| type graph and facts (`types/type_graph.cc`, `type_facts.cc`) | interned types, handles, journal, cursor, sequence numbers; memoised answers | intern, query, `flush`, `loadFrom`; questions of the rules | several processes append to one store; rows load in `seq` order; unions, intersections and parameters nest | a row only refers to rows before it; a fact holds of every value of the type |
| tsgo client (`tsgo/client.cc`, `process.cc`) | connection, `m_broken`, callbacks, frame buffer | `start`, `request`, `notify`, callbacks, `stop` | requests and callbacks interleave on one pipe, and there is no timeout | one answer per request, nothing waits for ever |
| linter core (`lint/linter.cc`) | one walk over a tree, messages, fixes | `lintSource`, with fixes or with an edit per problem | a rule may ask the type server mid-walk; edits are found by linting again | messages of the text that is written, an edit of the problem it is shown for |
| directives (`lint/directives.cc`) | ranges switched off, use marks | parse, `apply` | nested and overlapping ranges | every unused directive is reported, and only those |
| fixer and fixpoint (`ast/fixer.cc`, `printer.cc`, `comments.cc`, `fixpoint.cc`) | children, dirty marks, captured layouts, comments; passes | replace, insert, append, remove, set, reprint; fix until stable | comments live in gaps that edits change; rules that undo each other | ends; prints the tree it built, and every comment once |
| templates and parentheses (`ast/template.cc`, `precedence.cc`) | a tree that no source text had | build, match, print | a slot may need parentheses that no parse put there | what is printed is read back as what was built |
| scanner, parser, lowerer, binder (`syntax/`, `ast/lower.cc`, `binder.cc`) | per parse | sequential | context flags, speculation, hoisting | the tree and the scopes of the language |
| rules (`rules/`) | per file | one verdict per node | what a type or a position says must hold whenever the code runs | no wrong verdict, no fix that changes the program |
| configuration (`lint/config.cc`, `glob.cc`) | parsed config | `load`, `resolve` | order of overrides | later entries win |
| npm command line and plugins (`plugin/ts/`) | serve client, worker pool, compiled configurations | `ServeClient` requests, plugin lint | answers matched by id, a process that exits | every promise settles |
| language server (`editors/vscode/server`) | documents, reports, configuration cache, handoff files, binaries | pulls, code actions, fix-all, watched files, settings | every handler is `async` and reads state before and after awaits | at rest, a report is of the text and configuration of now |
| embedding, napi, wasm, plugin ABI | thin | marshalling | none | |

How they meet: the language server pulls a document, resolves its configuration, writes the configuration it compiled
into a handoff file and sends `lint` to a resident binary over a pipe. The binary (serve mode) finds the session of that
configuration, hands the text to its type source, which tells tsgo (through the client) and binds a session of the
current snapshot, looks in the result cache and otherwise runs the rules. The linter parses, lowers and binds the text,
walks the tree with every rule, asks the directives about each problem, and with `--fix` applies the fixes that do not
overlap, prints the tree and lints what it printed, until nothing changes. The rules' type questions go through the type
facts to tsgo and the answers are interned in the type graph. `lintrix lint` is the same without sessions, with many
files and possibly several processes over one store.

## The modules

| module | models | code |
|---|---|---|
| `ImportGraph` | import resolution, graph entries, one turn of `loadClosure`, the closure hash | cache/closure.cc |
| `FileCache` | the freshness test and the tables `files` and `rule_results`, as operators on their values | closure.cc, store.cc |
| `LintService` | abstract: what a run promises with no cache in sight | cli/run.cc |
| `LintCache` | concurrent, crashing runs of `lintrix lint` over one store; implements `LintService` | cli/lint.cc, run.cc |
| `ProjectTypes` | the type source and what it expects of tsgo | types/type_source.cc |
| `TypeCalls` | abstract: calls to the type server, one at a time, each answered or failed | tsgo/client.h |
| `TsgoClient` | the client, its two pipes, the framing, the child process; implements `TypeCalls` | tsgo/client.cc, process.cc |
| `Serve` | the serve mode: composes `ProjectTypes` and `FileCache` | cli/serve.cc |
| `ServeClient` | the client of `lintrix serve`, the handoff file, the binary seen through its pipe | plugin/ts/serve.ts, server/native.ts |
| `LanguageServer` | handlers between awaits over one document; composes `ServeClient` | server.ts, configs.ts, engine.ts |
| `Directives` | disable directives, replayed from problem to problem | lint/directives.cc |
| `FixPasses` | `lintSource`: the fixpoint of `--fix` with the lint of every pass, and the edits shown without it | lint/linter.cc, ast/fixpoint.cc |
| `Fixer` | one pass of fixes on a tree with comments, and the text it prints | ast/fixer.cc, comments.cc, file.cc, printer.cc |
| `SyntaxTree`, `Parser`, `Lowerer`, `AstPrinter` | nodes and tokens; the grammar; lowering; parentheses and templates of the printer | syntax/, ast/lower.cc, precedence.cc, printer.cc |
| `Templates` | trees built by templates, printed, parsed and lowered again | ast/template.cc |
| `TypeFacts` | the questions rules ask of a type, and the values a type has | types/type_facts.cc |
| `ConditionRules`, `PromiseRules`, `AnyRules` | the rules about conditions, about promises, about `any` and `!` | rules/ |
| `Scopes` | declarations, scopes and lookup | ast/binder.cc |
| `Execution` | reference: what a program of `Scopes` does when it runs. No part of the repository | |
| `NameRules` | no-var, prefer-const, no-unused-vars and their fixes | rules/ |
| `Flow` | fall-through and reachability, with no-unreachable and no-fallthrough, over statements numbered inside out | rules/flow.cc |
| `MC...` | the instances TLC checks; `MCTypeServer` and `MCAnalysis` put several components side by side | |
| `...Proofs` | theorems: `ImportGraphProofs`, `LintCacheProofs`, `ProjectTypesProofs`, `ServeProofs`, `TsgoClientProofs` and `LanguageServerProofs` about the module each is named after, `LinterProofs` about `Directives` and `FixPasses`, `RuleProofs` about `Flow` and `AnyRules` | |

**Data.** A text is a member of `Content`, and a content hash is the text: hashing is taken as injective. What a text
imports is the constant `Names`, and where a specifier is looked for is the sequence `Candidates`; an empty sequence is
a bare name, which a tsconfig may still map (`Alias`). A payload is what a lint is a function of: path, text,
environment, key, whether it was typed, and the *world*, every file reachable from it with where its imports lead. Two
lints with equal payloads print the same diagnostics. In `FixPasses` a text is an atom, and what the rules find in it is
chosen once; in `Fixer` it is a sequence of symbols; in `Parser` one of tokens.

**`LintCache`.** `pc` is the place in the loop of cli/lint.cc. Each SQLite statement another process can come between is
a step: `LoadLookup` (SELECT), `LoadDrop` (DELETE), `Replay` (SELECT), `SaveLookup`, `SaveDrop`, `Begin`, `Commit`.
`lock` is SQLite's write lock; without a busy timeout, `Begin` fails at once when it is taken, and a stand-alone DELETE
too. `Crash` may come at every stage and frees the lock. `Refresh`/`LoadFile`/`Opened` are `ResultCache::open` with the
turns of `loadClosure`.

**`ProjectTypes`.** `served`, `projects`, `fileProject`, `session` are `m_served`, `m_projects`, `m_fileProject`,
`m_session`. `program` and `openFiles` are tsgo's and are modelled from how this code drives it: an update names files,
which the server reads through `FileProvider` unless it holds them open. `live` are the sessions whose handles rows of
the type graph carry. Snapshot names are reused once nothing refers to them, as tsgo's are never compared for anything
but equality.

**`TsgoClient`.** `client` is the one thread of the client: the call it makes, and its place in the read loop of
`Client::call`. A frame arrives in two halves, so a read may end in the middle of one: `frames` are those the server
wrote, `arrived` counts halves, as `m_received` does bytes. The server asks `readFile` and `fileExists` while it works
on a call, may write a frame that does not parse or an answer that does not decode (`ServerMayGarble`), and may exit
anywhere, a frame half written (`ServerMayDie`). `stop` closes its stdin, waits, and kills it.

**`Serve`.** `stage` is the place in `Server::lint`; the steps of a request are those that read or change state that
outlives it. One configuration file governs everything, `ProjectFor` is `projectFor`, `tsconfig[p]` is the hash of a
tsconfig as it is on disk and `options[p]` as the type server parsed it. The stdin loop takes one request at a time, so
no two requests interleave; files change between requests, and the server may die at any time.

**`ServeClient`, `LanguageServer`.** A handler (`req[r]`) goes from one await to the next in one step, and an event is
taken up only when no handler can go on (`Event`): Node drains its job queue before the next callback. `textOf(l)` names
a text by the life of the document object and its version, because `TextDocuments` changes the object in place, and a
handler that holds it sees later versions. `loads` are `ConfigCache.load` promises in the order they began, `handed` is
the `WeakMap` of native.ts, `states` is the report kept for quick fixes, `offer` is an edit sent in this very step.
`Quiet` says that the client has pulled since it last heard of a change and every handler is done.

**`Directives`.** `directives` is what `collect` made of the comments; `replayed`, `blanket`, `disabled` and `enabled`
are the state that `advance` carries from problem to problem, as the linter asks in source order. `Off` is the
reference: what the directives mean as they are written, with no replay.

**`FixPasses`.** `stage` follows `lintSource`: the lint of a text, the next pass, the comparison that reverts or
settles, and for edits without `--fix` the replays of `singleEdit`. The type source may fail on any text or any question,
so each lint sees a part of the type-aware problems (`Aware`) of its own. A problem offers a fix, suggestions or both
(`Offers`); `Offered` is what the diagnostics count, `Collected` what a lint hands over to be applied, and the numbers
of the two (`IndexOf`, `Number`) are all that links them.

**The rules.** Each of these modules holds the rule, translated, and an independent account of what the program does:
the values of a type (`TypeFacts`), what becomes of a promise (`PromiseRules`), the completions of a statement (`Flow`),
a run of the program (`Execution`). A state is one program under lint, the property compares verdict and account.

Types are rows (`TypeFacts`): flags, the text of a literal, members, arguments, a bound. `Rows[n]` are those nested no
deeper than `n`, and a question that walks a type is a recursive function on them. `Nesting` is how deep they go: the
walks of rules/unsafe.cc stop at depth 8, so `NestingAssumption` has it between 1 and 9; the run's inputs need 6. A body
in `Flow` is a sequence of statements, each after the ones inside it, so whatever holds of a statement is a function of
its number and of the ones below. `checkArguments` walks the arguments with what it has consumed so far, as
`Parameters` does; what a call hands over (`HandedOver`) is one sequence, with the spreads opened.

**`Fixer`, `Templates`.** `Fixer` applies up to `MaxFixes` edits to a parsed file and prints it: `children`, `dirty`,
`layouts`, `comments`, `deadRanges` are the fields of the node and the file. `Templates` builds a tree out of template
texts, every one parsed by `Parser` and lowered by `Lowerer`, prints it by `AstPrinter`, and reads it back.

## The runs

All runs use two workers; every bound is a constant in the `.cfg`. A violation run has the smallest instance that shows
the disagreement.

| run | question | instance | why it is enough |
|---|---|---|---|
| `lint_sequential` | one process over and over, three files, two environments, a type server that fails on single files, crashes: is the cache invisible (`Transparent`), does each record name what its rows were made with (`RowsMatchRecord`), is a result the type server failed on never saved (`TypeOK`)? | 2 runs, 1 edit | three files with a two-candidate specifier: an import that starts to resolve elsewhere |
| `lint_concurrent` | two processes on one store with crashes: `Transparent`, `RowsHonest`, `RunsKnowTheDisk`, and does every run end (`RunsEnd`)? | 2 files, 3 runs, 1 edit | two files are enough for an import; the third run reads what two wrote |
| `lint_mixed_env` | violation: `AnswersUnderOwnEnv` | 2 processes, 2 environments | |
| `lint_no_server` | violation: `UntypedNeverStored` | 1 process | |
| `lint_twins` | violation: `ReplayIsOfFile` | 1 process, two files of one text | |
| `serve_requests` | three requests, unsaved buffers among them, with everything changing between them and a type server that may not start or may die: `RowsOfTheirKey`, `RepliesCurrent` | 2 files under 2 tsconfigs, 3 requests, 2 edits | the third request reads what the second stored after a change |
| `serve_stale_import` | violation: `RepliesSeeTheDisk` | 3 requests, 2 edits | |
| `type_server` | the type source over every order of operations: `ServerInStep`, `AnswersMatchTree`, `HandlesInScope`; the client over every order of reads, answers and deaths: `InStep`, `OurBytes`, `CallsImplemented`, `StopEnds` | 2 files, 2 texts, 2 tsconfigs, 3 snapshots, 2 edits; 3 calls, 2 files, 2 questions a call | three snapshots: the current one, a session's, a new one; a call after a call that failed |
| `editor` | `ReportIsCurrent`, `ReportsGoForward`, `OfferFitsHere` | 2 handlers, 2 versions, 2 lives, 2 loads, 1 configuration edit, 2 processes, 3 configurations, one of them broken | two handlers are the least that overtake; a second load is the one after the edit |
| `editor_fix_all` | violation: `OfferFits` | 1 handler | |
| `analysis` | the analysis of one file, a component at a time, see below | | |
| `fixer_comments` | violation: `CommentsAreNeverLost` | three statements, a comment in one gap, one fix | |

`analysis` has one behaviour for each input of each component; `under` chooses the component, the others stay as they
are.

| component | properties | inputs |
|---|---|---|
| directives | `SuppressedAsWritten`, `UnusedMayGo` | three comments of any keyword on three lines of two places each, two known rules and an unknown one, two problems |
| conditions | `ConditionVerdictsHold`, `AcceptedConditionIsUnambiguous` | every kind of type, unions, intersections and parameters of them, expressions two operators deep |
| promises | `NoPromiseFloats` | expression statements two operators deep, with and without handlers, the options of the rule |
| `any` | `ArgumentsMeetTheirParameter`, `NoAnyIsReturned` | calls of up to three arguments with rest parameters, spreads of tuples (open ones too) and arrays; returns of plain and async functions, the empty `new Map()` among them |
| names | `NamesMeanTheirVariables`, `FixesKeepMeaning`, `UnusedReachesNothing` | up to three statements over `x`, `y`, `f` in a list, block, loop, catch clause or function |
| flow | `UnreachableNeverRuns`, `FallsAreReported` | a loop of every kind under one label or two around two statements, the first of any kind with jumps to each label in it |
| templates | `PrintedTreeReadsBack`, `TemplateFindsWhatItBuilt` | a template text for every kind of node the printer has a template for, two nested, and three for an operator of every precedence |
| fixer | `CommentsPrintOnce`, `PrintedCodeIsTheTree` | three statements, a return of a call, a block, empty nodes; comments of four forms in one gap or two; two fixes |
| passes | `OutputWasLinted`, `EditsAreOfTheirProblem` | two texts; three problems, the second type-aware, the first without a target, with a fix and none, one and two suggestions; any of them suppressed; three passes |

Where the code is known to be wrong, the property names the case and exempts it (`HidesIndex`, `ContinuesItsDoWhile`,
`JoinsAny`, `WaitsOnce`, `HiddenByOwnName`, `Misread`, `HeadUnwrapped`, `InChangedGap`, `HandedAway`); each is in
[limits](#limits-found-while-modelling).

**Fairness** is assumed in two runs. `lint_concurrent`: weak fairness of each process's `Step`, since the operating
system runs every process on. Nobody has to start a run or edit a file; a crash is possible and not fair, and ends the
run. `type_server`: weak fairness of the client's thread and of the server, so that a call returns whether or not the
server lives: it either answers or exits. Neither can be expected of a server that hangs without exiting; the client has
no timeout, see limits.

**Deadlock** checking is off in every run: each bounded instance comes to rest when its edits, runs, requests or inputs
are used up, and each of these programs may be idle for ever.

**Symmetry** is used over handlers (`editor`), processes (`lint_mixed_env`), snapshots, configurations and tsconfig
hashes (`serve_*`): none of them is named by an initial state or a property, and none of these runs checks liveness.
`type_server` does check liveness and has symmetry over paths, texts, tsconfigs and snapshots: these are values of the
type source alone, which no temporal property and no fairness assumption of the run mentions, the client being a
component of its own in the same run. `lint_concurrent` uses none.

What the assumptions of a run leave out is stated by constants, and set there:

- `EditsDuringRun` FALSE (`lint_sequential`, `lint_concurrent`): with edits between the loading of the graph and the
  reading of a file, a row can be filed under a closure that was not linted; the cache does not claim otherwise.
- `Locked` and `Alias` empty (every run): see [limits](#limits-found-while-modelling).
- `SnapshotMayFail`, `LateNotices` FALSE (`type_server`, `serve_*`), `PipeKills` FALSE (`type_server`), `LoadsInOrder`
  TRUE and `CloseMidway` FALSE (`editor`): see [limits](#limits-found-while-modelling).

## The proofs

Eight modules; every leaf is checked by tlapm (Z3, Zenon, LS4). The assumptions in the last column are about constants,
and negate what a constant of the model allows; what happens without them is in [limits](#limits-found-while-modelling).
Two do not: `TwoHandlers` bounds the number of handlers, and `FixAllWaits` is about behaviours. The invariants of the
language server were checked by TLC with two and with three handlers before they were proved.

| theorem | says | assumes |
|---|---|---|
| `ClosureDeterminesWorld` | equal closure hashes of two files, on one disk or two: the same files, texts and import edges below them | `AllReadable`: no file that cannot be opened |
| `TypeCorrect` | `Spec => []TypeOK` of `LintCache` | |
| `RunsStayInformed` | `Spec => []RunsKnowTheDisk` | `Quiet`: no edits under a run, the type server starts, `AllReadable` |
| `RowsStayHonest` | `Spec => []RowsHonest` | `Quiet`, `NoAliases` |
| `RowsKeepTheirRecord` | `Spec => []RowsMatchRecord` | `OneProcess` |
| `CacheIsTransparent` | `Spec => Transparent`: `LintCache` implements `LintService` | `Quiet`, `NoAliases`, `EnvKept` |
| `AnswersStayUnderOwnEnv` | `Spec => []AnswersUnderOwnEnv` | the same |
| `TypesHold` | `Spec => []TypeOK` of `ProjectTypes` | |
| `HandlesStayInScope` | `Spec => []HandlesInScope` | |
| `ServerStaysInStep` | `Spec => []ServerInStep` | `Prompt`: no update is refused, no change is reported late |
| `AnswersStayMatched` | `Spec => []AnswersMatchTree` | `Prompt` |
| `SessionTyped` | `ServeSpec => []ServeTypeOK` | |
| `RowsKeepTheirKey` | `ServeSpec => []RowsOfTheirKey` | `~LateNotices` |
| `AnswersAreCurrent` | `ServeSpec => RepliesCurrent` | `~LateNotices`, `KeyTellsFile` |
| `ClientTyped` | `ClientSpec => []ClientTypeOK` | |
| `StaysInStep` | `ClientSpec => []InStep` | |
| `ServerSeesOurBytes` | `ClientSpec => []OurBytes` | |
| `CallsAreImplemented` | every step of the client is a step of `TypeCalls` or a stutter | `~PipeKills` |
| `DirectivesTyped` | `DirectivesSpec => []DirectivesTypeOK` | |
| `DirectivesSuppressAsWritten` | `DirectivesSpec => []SuppressedAsWritten` | |
| `UnusedDirectivesMayGo` | `DirectivesSpec => []UnusedMayGo` | |
| `FixedOutputWasLinted` | `PassesSpec => []OutputWasLinted` | |
| `EditsFollowTheirProblems` | `PassesSpec => []EditsAreOfTheirProblem` | the property says of which edits (`NumbersAgree`) |
| `ServerTyped` | `Spec => []TypeOK` of `LanguageServer` | |
| `ReportsForward` | `Spec => ReportsGoForward` | |
| `OffersFitHere` | `Spec => []OfferFitsHere` | `~CloseMidway` |
| `LintsAreCurrent` | `Spec => []LintIsCurrent` | `LoadsInOrder`, `~CloseMidway` |
| `ReportsOfTwoAreCurrent` | `Spec => []ReportIsCurrent` | the same, `TwoHandlers` |
| `ReportsAreCurrent` | `Spec /\ [][FixAllWaits]_vars => []ReportIsCurrent` | the same |
| `UnreachableIsNeverRun` | `FlowSpec => []UnreachableNeverRuns` | |
| `FallsAreAllReported` | `FlowSpec => []FallsAreReported` | |
| `EveryArgumentMeetsItsParameter` | `AnySpec => []ArgumentsMeetTheirParameter` | |
| `NoAnyComesBackUnseen` | `AnySpec => []NoAnyIsReturned` | the returns the rule does not follow are in the property |
| `ChainsAreReportedOnce` | `AnySpec => []ChainReportedOnce` | |

**The closure hash** has no edges in it: it hashes the members of the closure, their texts and their unresolved names.
That it still determines where every import leads is `ClosureDeterminesWorld`. The argument: a path resolves to the
first candidate that is a file. If one disk resolved a specifier to a later candidate than the other, the earlier one is
in the other's closure, hence, the hashes being equal, in this one's, hence a file, and would have been taken.

**The cache.** `RowsHonest` is not inductive: what a commit files is whatever the run has in hand. `RunsKnowTheDisk` is
the strengthening. It says of each run that its graph agrees with the disk entry by entry and misses nothing but what is
on the work list, that the files still to come are there, and that text and answer in hand are the disk's. It needs the
work list in it (`graph.imports \subseteq DOMAIN graph \cup pending`), without which a turn of `loadClosure` does not
preserve it, and `OnDisk`, without which `loadClosure` could give up halfway. `CommitHonest` then reads the row off the
invariant, with `KeyOfWorld` and the lemmas about closures for the key. Other processes matter not at all to a run's
knowledge (`OthersUntouched`, `OthersKnow`) and only write honest rows to the store.

**The records.** That every row was made under the record of its file rests, between a save's lookup and its commit, on
what the process found there: `StoreKept(p)` says of each stage what it still knows of the store. One process at a time
is needed, since nothing holds a lock over those statements; with two, another's commit falls in between
(`lint_mixed_env`).

**The refinement.** `CacheIsTransparent` maps a lint that is stored or replayed to the abstract answer and every other
step to a stutter. A replay is the interesting step: its payload is that of *some* file with equal content and closure
hashes, on *some* disk (`RowsFromDisk`); `ClosureDeterminesWorld` makes the worlds equal, and what is left, the
environment, is equal either because there is one (`OneEnv`) or because the row is the file's own (`NoTwins`) and the
record names its environment (`RecordInv`). That is `EnvKept`, and the runs `lint_mixed_env` and `lint_twins` show what
happens without either half.

**The type source.** `HandlesInScope` is inductive with the types, and holds whatever the server refuses: a refused
update leaves snapshot, session and handles alone. `AnswersMatchTree` rests on `ServerInStep` and on `InHandIsHanded`,
that the text in hand is the text recorded as served. `ServerInStep` needs its third part, that the server holds open
exactly the files that were created: without it, whether an update reaches a file is unknown, because an open file is
not read again.

**The serve mode.** `SessionInv` carries `HandlesInScope` of the type source through every step of a request
(`Scoped`), and that a file is routed to its own tsconfig. `RequestInv` says what a request knows at its stage: every
change is reported, the configuration and the tsconfigs are those on disk, the key is the tsconfig's, the text is the
one asked about. A row is filed by its key only in the last step, from a payload fixed earlier; `PayloadIsOfRequest`
ties the two. `AnswersAreCurrent` needs `KeyTellsFile` for replays, the condition `lint_twins` violates, here over the
graphs a session may have read.

**The client.** Nothing in a frame tells which call it answers, so `InStep` is about the whole of both pipes, and is
inductive only with what is in them when no call waits (`Quiet`), that each question has at most one answer under way
(`Correlated`, `OneOfEach`), and what a call in each place of the read loop waits for (`Waiting`). The mapping to
`TypeCalls` reads `pending`, `outcome` and `usable` off the client; `CallsAreImplemented` is the safety part of
`CallsImplemented`.

**Directives.** `advance` keeps three variables and forgets lists under a blanket directive. The invariant says what
they mean at the point the replay has reached: `ReplayExact`, `ReplayLatest` and `ReplayEnables` give the directive that
decides for every rule, by its last position. `InSourceOrder` and `ReplayedLieBehind` are what makes "last" agree with
"nearest before the problem". That unused directives may go needs the converse too: the directive that answered is the
latest that could (`AnsweredByLatest`), and an enable that made a problem reported is marked as used
(`ReportedEnabled`).

**Passes.** `LoopInv`: in the loop, the count of fixes tells whether the text has changed and a file that parsed still
does (`LoopKnows`); after it, the text is settled, put back or cut off (`Settled`). `EditsInv`: while edits are
collected, what is at hand is the lint of the source, and what has been numbered is a prefix of what it offers. The
edit of `o` then has as number the count of the offers of its kind before `o`. `NumbersAgree` makes that the count of the
entries before `o` in the list of the other lint as well, and two entries of one list never have the same count.

**The language server.** Handlers run from await to await, so each theorem is about what may happen during an await.

- `ServerTyped` holds the pipe to the promises: a promise is pending exactly while its message is in the pipe
  (`PipeInv`). The binary that exits settles all of them at once.
- `ReportsForward`: texts in the pipe come in the order of their versions, the answer that has arrived is older than
  what is still in the pipe, and the report kept is older than both (`TextsHeld`, `PipeForward`, `AnswerFirst`,
  `KeptFirst`). `TurnInv` says what one event can settle: answers or loads and never both, and one lint at most.
- `OffersFitHere`: a handler at work holds the open document and the report kept is of it (`LifeInv`), which is what
  `CloseMidway` breaks.
- `LintsAreCurrent` is the part of `ReportIsCurrent` that users see: once the client has pulled after the last change
  and every handler is done, the report is of the text and the configuration of now. It is a statement about rest, and
  no handler is inductively "the right one". `CurrentInv` says that while a pull since the last change is under way, one
  of the pulls will deliver (`Timely`: it waits for the last load, or holds the text and its configuration is the one
  the binary will have when it gets to the message) or every pull is bound to fail and the report kept is already good
  or gone (`Spent`). What the binary will have is decided by the pipe: `CertainAtEnd` says that after the messages under
  way the binary holds the handoff file's configuration, because a `configChanged` is still to come or none is needed.
  `LoadInv` has the loads settle and be handed over in order, and the last one read the configuration of now.
- `ReportsOfTwoAreCurrent` and `ReportsAreCurrent` add the plugins' rules, which run on the load the pull holds.
  `HandoffInv` is about the pulls and fix-alls that wait for the answer to a `configChanged`: they are answered in the order of their loads, one behind an older one still
  waits, and a newer load already handed over is in the hands of a handler that waits too (`FirstHandoff`). Then some
  pull of the newest load reports after every pull of an older one, or every pull is doomed (`RulesInv`). A fix-all may
  be the one that hands the newer load over, and its answer brings no report. With two handlers there is no third to
  get in between (`TwoHandlers`); with more, it is enough that no fix-all hands over while a pull's handoff is under
  way (`FixAllWaits`), and TLC shows that something is needed: see limits.

**Control flow.** A body lists statements inside out, so an induction over statements is one over numbers: a set of
counterexamples has a least member (`LeastNumber`), and below it everything holds (`FromBelow`). `Recursion` gives the
same way that the recursive functions of the module satisfy their equations (`CompletesIs`, `EndsIs`, `HasJumpIs`). If a
statement can end in a jump, the search for that jump finds it (`JumpsAreFound`), and if it can end normally, flow.cc
says so (`NormalCompletes`, which has to speak of a statement under any labels of its own, since a break to one of them
ends the labelled statement around it). The exemption `ContinuesItsDoWhile` is what the do-while needs, and follows
chains of labels, since in `A: B: do ... while (x)` a `continue A` continues the loop as well. The two theorems read the
rules off `NormalCompletes`.

**The `any` rules.** `RowsGrow` and `LevelsAreTypes` put the members and arguments of a type a level below it, and
`UpToNesting` is induction over levels. `UnsafeIs`, `LeaksIs`, `AwaitedIs`, `ThenValueIs` are the equations of the
recursive functions. `NoAnyComesBackUnseen` rests on three facts about types of any depth: what leaks is an unsafe
assignment (`LeaksAreUnsafe`), a type leaks nothing to itself (`SelfTakesAll`), and the walk for promises overlooks no
awaited any (`SafeAwaitsNoAny`). `EveryArgumentMeetsItsParameter` is a loop lemma (`Loop`): after each argument the walk
has compared the sequence handed over so far, element by element, and stands where the sequence ends (`ArgumentIs`),
whichever parameters were fixed or rest and whether a spread was open. `ChainsAreReportedOnce` is the same for accesses.

**Only model-checked.**

- `RunsEnd`, `StopEnds` and the liveness half of `CallsImplemented` need fairness, which is out of the prover's reach.
- `ConditionVerdictsHold`, `AcceptedConditionIsUnambiguous` and `NoPromiseFloats` walk expression trees by RECURSIVE
  operators, which close a module to the SMT backend. They would also need exemptions for types that are not among the
  inputs: an element type `never` behind an index, an intersection with a type parameter among its members, a branded
  string beside `undefined` in a union, the literal `-0`.
- `NamesMeanTheirVariables`, `FixesKeepMeaning`, `UnusedReachesNothing` compare two interpreters of whole programs,
  `PrintedTreeReadsBack`, `TemplateFindsWhatItBuilt`, `CommentsPrintOnce`, `PrintedCodeIsTheTree` a printer with a
  parser, all over recursive definitions on trees; what they compute for every tree is an induction over data.

## Where the code and its documents part

| run | code | document |
|---|---|---|
| `lint_mixed_env` | `load` tests freshness and reads the payload in two statements (run.cc:40-65), and the payload's key has no environment (store.cc:89-91): a run under another configuration that commits in between is answered for | docs/rules.md:470-474 |
| `lint_no_server` | a run whose type server did not start stores its untyped results under the key of typed ones (lint.cc:312-334, 385) | docs/rules.md:480-481, lint.cc:384 |
| `lint_twins` | two files of one text that import each other share content and closure hash and hence one payload | docs/rules.md:475 |
| `serve_stale_import` | a session's graph outlives the request and `loadClosure` stops at a file whose own text is unchanged, so an importer's record stays fresh after its import changed | docs/vscode-extension.md:134-135 |
| `editor_fix_all` | fix-all takes the text before it awaits the lint and stamps the edits with the version after it | server/actions.ts:3-6 |
| `fixer_comments` | a list prints one captured gap between two neighbours, so a comment in the other gap beside a removed element is lost (printer.cc:628) | docs/ast-design.md:18 |

`serve_stale_import`, step by step: `a` imports `x` and is linted and stored; `x` is edited and reported; `a` is asked
about again. `refresh` starts at `a`, whose text is the old one, and ends there, so `x`'s entry stays as it was, the
closure hash is the old one and the stored payload is replayed.

`editor_fix_all`: fix-all captures the text at version 1 and sends it to the binary, the user types, the answer arrives,
and `editsBetween(document, original, text)` goes out as edits on version 2. The editor has no reason to refuse them.

`fixer_comments`: of three statements with a comment on a line of its own before the second, the first is removed; the
gap that prints is the one before the removed statement, and the comment went with the other.

## Limits found while modelling

Facts about the code that constants or named exemptions exclude, each found by TLC or by reading. Where a document says
otherwise, it is named.

- **type source.** `beginFile` records a text as served before the update that may fail (type_source.cc:330): typed
  again with the same text, the file is taken for up to date while the server has the old one (`SnapshotMayFail`).
  And a file seen for the first time is compared with the disk, not with what the server has: edited on disk but not
  yet reported, it is not updated (type_source.cc:308, `LateNotices`). docs/type-facts.md has `defaultProjectForFile`
  choose a file's tsconfig; the code routes with `setFileProject`.
- **tsgo client.** `stop` leaves `m_broken` set, so a closed type source cannot be opened again (client.cc:302); `Serve`
  makes a new one with the session. Reads have no timeout (client.cc:347). A write to a server that has exited raises
  SIGPIPE, which nothing ignores, where docs/tsgo-client.md:45 has an error (process.cc:358): with `PipeKills` TRUE, TLC
  finds `WriteFailureIsAnError` violated.
- **lint.** A file that is there but cannot be opened ends `loadClosure` with the rest of the work list unread
  (closure.cc:325). The list is taken from its end: of a text with two imports the second of which is locked, the first
  one and all it leads to drop out of the key. With two imports and one of them `Locked`, TLC finds `RowsHonest`
  violated; with one import nothing is lost. A `paths` alias is followed by the type server and not by the closure hash
  (closure.cc:171).
- **serve.** An importer linted while an import has unsaved text in the type server is stored under the import's saved
  text (serve.cc:287-289). A request that overtakes the notice of a changed tsconfig stores a result of the old options
  under the new key (serve.cc:296, `LateNotices`). Where the type server or a tsconfig did not open, the untyped result
  is stored and later replayed as typed (serve.cc:266, 322, 330). A save between the read of a file (253) and `refresh`
  (308) files the old text's result under the new record; edits come between requests in the model.
- **language server.** Loads that settle out of order leave the older configuration in the handoff file for good, since
  the newer one's path is already in the `WeakMap` (native.ts:58-69): with `LoadsInOrder` FALSE, TLC finds
  `ReportIsCurrent` violated. A pull under way when its document closes sets `states` afterwards, and a document
  reopened at the same version number is offered its fixes (server.ts:384): with `CloseMidway` TRUE, TLC finds
  `OfferFitsHere` violated. A pull that finds the configuration broken overtakes an older one that waits for the binary,
  whose report is kept. With a pull, a fix-all that hands a newer configuration over, and a second pull under way, the
  pull that reports last may have its plugins' rules from the configuration before (server.ts:145-190, native.ts:63-68):
  TLC finds `RulesAreCurrent` violated by three handlers. With a native engine the version test of quick fixes is void
  for a report that was stamped late (diagnostics.ts:85-93), which is why `OfferFitsHere` speaks of the bundled engine
  alone. A native lint sent after its document closed leaves the overlay in the type server.
- **typed rules.** What no-unnecessary-condition says of `??` on a union with a bare type parameter is not so, against
  docs/rules/no-unnecessary-condition.md (`NullishVerdictsHold`, exempted by `HasOpenMember`).
  no-unnecessary-type-assertion takes `x!` of an unconstrained type parameter for unnecessary, and judges without
  strictNullChecks too. await-thenable reports `await x` for `x : T | number` with `T extends Promise`.
  no-misused-promises never checks `b` in a bare `(a && b) && c`. strict-boolean-expressions takes the literal `-0` for
  truthy. no-unsafe-return passes a promise of `any` out of a plain function, and a `new Map()` without type arguments, a
  `Map<any, any>` to the checker, for every `Map` (unsafe.cc:123, `IsEmptyMap`). no-floating-promises sees nothing of
  `promise || anyValue`, whose type is `any` (`JoinsAny`). `TypeFacts` remembers a negative answer of
  `isArray`, `isPromiseLike` and others even when the server failed to answer.
- **names.** The fix of no-var breaks a program that calls a hoisted function before the `var` it reads
  (no_var.cc:45), and one that declares `var e` inside `catch (e)`. A function expression's own name hides a `var` of
  that name in it, which is then reported as unused. A read inside a call on the right of its own assignment is not
  counted. `for (i = 0; ...)` lowers to a pattern, in which the binder sees no write.
- **flow.** A labelled `continue` of a do-while, by any label it stands under, does not make its test reachable
  (flow.cc:136, docs/rules/no-unreachable.md:34-35).
- **fixer.** Comments handed to a node that prints from its own slice or template are lost (fixer.cc:212-224,
  printer.cc:1082); an insertion doubles a comment of the gap it splits; wrapping a node prints a comment that was not
  moved twice; `Unwrap` loses those in the code it drops. `insertAfter` does not place the node as docs/ast-design.md:
  372-378 has it. The output of the last pass allowed is never parsed (fixpoint.h:73-74, docs/ast-design.md:568).
  `singleEdit` takes the k-th fix of another lint by its number (linter.cc:514-574), and linter.cc:510-512 has that
  entry match the k-th surviving fix. The numbers count every fix (355, 577), the list leaves out those of a report
  without a node (400, 405), and the two lints may see different types: after the first such problem each edit is that
  of another problem, or none (`NumbersAgree`). The rules of the repository all name a node; a plugin's need not
  (plugin/host.cc:102).
- **printed trees that are misread** (`Misread`, `HeadUnwrapped`), against docs/ast-design.md:531-536: a pattern
  assignment at the start of a statement or arrow body, a sequence that starts with an object, function or class,
  `(f<T>)(b)`, `(x--)!`, `infer U extends` a conditional, a comma in `export =` or in a computed class key, class
  heritage that is no primary expression, `export default` of a parenthesised function or class, a dangling `else`, `in`
  in the head of a `for`, `new (import(x))()`, `(x as T) < y`, an import type without specifiers, a trailing hole of an
  array, an optional pattern parameter. A union nested in a union, or an intersection in an intersection, prints flat
  (precedence.cc:259-262), which the model counts as the same tree.
- **parser.** `async function` as an operand, generator methods in an object literal under an outer yield, `a?.[x, y]`,
  a comma list in the head of a `for`, `in` in the middle of a conditional there, conditional types of a mapped type
  under an `extends`, calls of a function named `async`, `a?.<T>(b)`, `a ? (b) : c => d` are parsed otherwise than the
  language has it, or refused; the model follows the code and the template texts keep to what it accepts.

## What is not modelled

- The scanner's characters, automatic semicolons, error recovery, JSX, decorators; regular expressions, output formats,
  codecs: sequential and pure, compared against tsc and fixtures by the repository's tests. Rules that are a pattern of
  one node.
- The rows of the type graph and the tables of `cache/store.cc` that keep them, the schema rebuild, the queries of
  tsgo/queries.cc.
- In `LintCache`: argument parsing, output, the file walk, `--fix` (its results are never cached).
- In `Serve`: several configurations at once (sessions share nothing but the store), the framing, `--no-cache`.
- In `TsgoClient`: finding the binary, its version check, the worker thread of the asynchronous process.
- In `LanguageServer`: several documents (they share the configuration cache and the binary, which two handlers of one
  document already contend for), the choice of a binary by path, status notifications, the `revalidate` command (a
  `Notice` together with a `ChangeSettings`), watched source files and `natives.changed`, plugin workers. `close` and
  `changed` requests reach the binary but leave its loaded configuration alone: they name documents and watched files,
  never the handoff file.
- In `Fixer`: comments a fix makes (`addComment`), the style of printed code (`LineFormatter`), parentheses (they are
  in `AstPrinter`). In `FixPasses`: the dispatch of nodes to rules, severities, message texts.
- External code (tsgo, SQLite, Node, the editor) is modelled from how `src/` uses it and marked so in the map.

## Plan

Done: the cache, the type source, the serve mode, the client, the directives, the passes, the language server, control
flow and the `any` rules, each with its proofs; the rules about conditions, promises and names, templates and the fixer,
model-checked.

1. Lemmas that both `LintCacheProofs` and `ServeProofs` rest on (closures, worlds, keys) are in `ImportGraphProofs`;
   those about the store (`FileCache`) are still stated twice and could be stated once.
2. `ServeProofs`: `KeyTellsFile` speaks of every graph a session may have read; to be reduced to a condition on disks,
   as `NoTwins` is one in `LintCacheProofs`.
3. `ConditionRules`, `PromiseRules`: expressions as numbered nodes, the form `Flow` has, which the lemmas `Recursion`
   and `FromBelow` of `RuleProofs` apply to; then `ConditionVerdictsHold` for all types, with the exemptions above
   stated.
4. `TypeStore`: the type-graph tables of `cache/store.cc` with the journal of `types/type_graph.cc`: sequence numbers
   handed out per process against one table (`INSERT OR IGNORE`), `flush` and its cursor, `loadFrom` in `seq` order
   (docs/type-cache.md). To check, and then prove: a loaded row only refers to loaded rows.
5. `Config`: order of overrides and ignores against a reference definition. `PluginPool`: the worker pool of
   `plugin/ts`.
