# Gaunt Sloth in TLA+

Gaunt Sloth is a coding agent: a pnpm monorepo in which `core` runs a language-model
agent turn by turn and asks for approval before its tools act, `agent` adds tools and the
servers an editor talks to, `app` is the terminal program, `batch` runs evaluations, and
`review` reviews diffs. This directory holds TLA+ modules of the parts where order,
failure and shared state decide whether the program keeps its word to the user, the TLC
runs that check them, and TLAPS proofs of the main results.

Source paths are relative to `src/packages/`.

To check: `tlc -config MCTurns.cfg Turns.tla` (the modules of the runs are in
section 4), `tlapm TurnProofs.tla`. `PROJECT.json` lists every run, the
lines each definition models, the mutation that breaks each property, and the hazards.

## 1. The system

| component | state it keeps | operations | what is hard | what makes it correct | model |
|---|---|---|---|---|---|
| **Approval grants** `core/src/core/approvals/grants.ts`, `GthAgentRunner.ts` | a JSON file per list (approvals, refusals); per process a store read from it and a session ledger | load and migrate, remember for a session or for always, lift, resume a conversation | failing and torn writes, an unusable file, edits under a live process, two processes on one file | what the user is told about saving is true; nothing else is saved; an unusable file is never rewritten | `ApprovalGrants` |
| **Approval gate** `GthAgentRunner.ts` (`decideToolApproval`), `core/src/core/shell/{rater,negotiation,alignment}.ts`, `approvals/matcher.ts`, `config/shell-policy.ts` | the live rung, remembered entries, negotiation counters, the decision in progress | one decision per gated call in up to six stages; `/approvals`; start and end of a turn | three awaits during which the rung may change; a rater that fails; counters with different resets | deny wins, the hard floor holds, escalations reach a person, machines approve within bounds, rejections reach a person in time | `ApprovalGate` |
| **Turn drivers** `GthAgentRunner.ts` (`processMessages`, `processMessagesWithEvents`), `GthAbstractAgent.ts`, `contextOverflowSeam.ts`, `quotaCooldown.ts`, `terminationReason.ts` | thread, turns in flight, retries, the reasons on the runner and on the agent, rows on screen | run, drain approvals, fall back, fold and retry, cool down and retry, stop; `/compact` and `/resume` between turns | nested retries, a reason with two writers, Esc at any await, checks that go stale across an await | a turn ends and its reason is that of its last attempt; Esc is final; a fold keeps calls with their results | `Turn` (what both promise), `TurnSeams`, `TextTurn`, `EventTurn` |
| **Stored conversations** `core/src/history/{checkpointSaver,checkpointRetention,historyStore}.ts`, `agent/src/modules/{sessionCheckpointer,sessionResume}.ts` | index rows, record files, a checkpoint file per thread; per process a mirror, open files, the degraded flag | start, step, record, resume, clear, close, crash; sweep, prune, rebuild | several processes on one store, a write that fails once, a file unlinked under its writer, a sweep that acts on an old selection | a resume gives the whole conversation or a refusal; sweeps take only what nobody reaches | `ConversationStore` |
| **ACP server** `agent/src/modules/acp/` | sessions, their current turn and its controller, the workspace binding | session/new, prompt, cancel, close | nothing serialises requests; a prompt is answered before its turn starts; a close waits with a deadline | one turn at a time, reported as what became of it; closes end; the workspace stays with those that need it | `AcpServer` (v2) |
| **Agent graph and its stream** `GthLangChainAgent.ts`, `toolOutputChannel.ts`, `cutStreamRetry.ts` | the open stream, late tool output | stream, retry a cut stream | output after the stream's end, a consumer that leaves early | every call gets one result; no output is dropped | what the drivers see of it, in `TurnSeams`; the merge of late tool output, in `TuiSession` |
| **Runtime calls** `core/src/runtime/` | a deadline and a signal | call with timeout | a timeout racing an answer | one outcome per call | no: one function, whose order of two statements decides the race |
| **History migrations** `core/src/history/{historyMigrations,historyFiles}.ts` | the store (a file, or a directory), a lock file, an index built aside | split a single-file store under a lock, go on with a split that died | two processes, a lock that goes stale under its holder, a crash between any two calls, an earlier release in between | nothing is lost; the index goes last; a store in use is whole | `HistorySplit` |
| **Context window** `contextWindow.ts`, `compaction.ts` | limits per model | estimate, fold | threshold arithmetic | a folded list is a legal conversation | the fold, in `TurnSeams` |
| **Shell analysis** `core/src/core/shell/{hardline,openWorld,framing}.ts` | none | classify a command | text analysis | out of TLC's reach; its verdicts are the attributes of a call in `ApprovalGate` | no |
| **AG-UI server** `agent/src/modules/apiAgUiModule.ts` | agents per toolset, a checkpoint thread per conversation, the runs | run, resume with a client tool's answer, disconnect | the client replays its history and splices in what it is sent; it may leave during any await | one result per call, on both sides; an answer reaches its call | `AgUiServer` |
| **Interactive session, single run** `agent/src/modules/interactiveSessionModule.ts`, `core/src/runtime/singleShot.ts` | the prompt loop | read, run, `/resume`, `/clear`, record | resume against a store others use | see stored conversations | its store operations, in `ConversationStore` |
| **Terminal UI** `app/src/tui/` | transcript, queues of prompts, owner of the keyboard, the turn in flight | turns, prompts, `/clear`, `/resume`, quit | several keys handled before the screen is drawn again, answers and reports racing a teardown, notices and recaps that come late | no prompt is lost, no output is dropped, the transcript reads in order | `TuiSession`; the live rung in `ApprovalGate`, Esc in `TurnSeams` |
| **Batch runner** `batch/src/BatchRunner.ts` | cells and results | run with limited concurrency | a failing cell, an abort | one result per cell | no: nothing is shared between cells |
| **Tools, MCP, middleware** | files, child processes, tokens | read, write, edit, run, authorise | I/O | | no |
| **Configuration, providers, commands, review, evaluation, reporters, statistics** | none after start | load, format, one sequential run | nothing concurrent | | no |

**How they interact.** The terminal UI, the interactive session and the servers own a
`GthAgentRunner` and call it with messages; the runner drives the agent's stream through
one of two drivers (a string for the plain front ends, events for the TUI and the
servers). The graph suspends on a gated tool call; the driver's drain has the runner
decide the call in the approval gate, which reads the rule lists (configuration plus
approval grants), calls the rater and the alignment model, and asks a person through a
callback of the front end; the answer resumes the graph. The graph writes its checkpoints
through the saver of the session. Grants and stored conversations are files shared by
every process of a project or user.

## 2. The modules

Each module names its source functions where the name alone does not. Variables that
start with a "history" remark in their comment do not exist in the code; they
record what the properties need.

### ApprovalGrants
One of the two lists (approvals, or refusals: `Migrates` tells them apart). `disk` is the
JSON file by format and entries, `store[s]` is a process's `PersistedApprovalGrants`
(loaded, readable, entries, `inSync`), `ledger[s]` its `ApprovalGrantStore`, `live` the
running processes, `promised` what the user was told is saved. Actions: `Start`, `Exit`,
`Load` (with the migration write), the answers that remember an entry for a session or
for always (with the take-back when the save fails), `Lift`, `Resume`, a torn
write, and the user's edits. Every write is a boolean input `writeOk`.

### ApprovalGate
One gated call at a time (the code decides calls sequentially). `decision` holds the
stage (`tripwire`, `rating`, `alignment`, `banner`, `prompt`), the call, and everything
that was read when it began: the rung, the floor, the verdict, the entry on offer. A call
is a record of the attributes the rules look at. What an entry matches is a constant
relation (`Covers`, `Forbids`). `Propose` is the synchronous part of
`decideToolApprovalInner` up to the first await; one action per answer awaited follows.
`SetRung` may happen at any await (`/approvals` is available then, `KeyboardIsFree`).

### Turn, TurnSeams, TextTurn, EventTurn, Turns
`Turn` is the abstract specification: a turn begins, may ask a person a bounded number of
times, may be tried again after one fold and after a few waits, and ends once, with the
ending of its last try; a compaction or a resume takes the conversation between turns
only. `TurnSeams` has what the drivers share: the thread as a sequence of message kinds,
the phase of the turn, the running graph call, the counters (`attempt`, `quota`,
`rounds`), the two reasons, the fold and the cooldown, the upkeep between turns
(`/compact`, `/resume` with their check and their later write), `mode` (the driver, and
for the string driver `streamOutput`) and the rows on screen (`open`). `TextTurn` is
`runTurn`, streaming or not, with the empty-stream fallback. `EventTurn` is
`processMessagesWithEvents`: rows of tool calls, a consumer that may stop consuming.
`Abstract == INSTANCE Turn WITH ...` in `TurnSeams` is the refinement mapping of both, and
`Turns` composes them into one specification, a session of either driver. A graph run
is external: it adds messages, suspends, fails, or gives in to the abort.

### ConversationStore
`index` and `records` are the two places that name a conversation's thread, `files`,
`disk` and `old` the checkpoint files, `told` (history) the steps a thread really saw. Per
process: `stage`, `thread`, `conv`, the degraded flag `cut`, the mirror `held`, `written`,
the connections `open` and those whose file is gone (`lost`). `doomed` is what a sweep or
a prune has selected and will remove one by one. `Step` is a graph step whose checkpoint
is written, or fails to be; every failing write and every crash is a choice of the
action it belongs to.

### AcpServer
`stage` places a session between `session/new` and the answer to its close (`building`
is `pendingSessions`, `open` the `sessions` map, `draining` and `cleaning` are
`closingSessions`); `root` is `workspaceRoot`; `busy`, `turn`, `cancelled`, `callback` are
the fields `abort`, `turn`, `cancelled` and the runner's callbacks, with the prompt standing
for its controller and its promise; `phase` is where that prompt's turn is. Every
action ends where its handler awaits.

### HistorySplit
`store`, `pre`, `files`, `staged`, `index` and `lock` are the paths on disk by what they
hold; `at[p]` is the next call of process p, `seen`, `tries` and `todo` its locals. A step
is one file-system call or one SQLite transaction. `Crash` stops a process at any of
them; `LockAges` lets a lock pass `STALE_LOCK_MS`, that of a dead process always and that
of a live one when `Suspends` (a laptop that sleeps); `EarlierRelease` makes a single-file
store again where it finds none. After the split every process records a turn, so that an
index replaced too early would show.

### TuiSession
`running`, `turn`, `working` are the App's refs, `transcript`, `deferred`, `epoch` and
`recaps` what it commits and when; `inner`, `listening`, `queue`, `live`, `reader` the merge
of the event stream with tool output; `asked` to `waiting` the approval bridges, whose
records are numbered; `approvals` and `attacks` the App's queues. A chunk of keys is one
step, because Ink handles all of it before the screen is drawn again, each key with the
prompt of the last rendering. `Quit` answers what is open, `Leave` ends the process.

### AgUiServer
`history`, `pending` and `current` are the browser's; `bound` (`toolAgentCache`), `mapped`
(`checkpointThreads`) and `doomed` (deletions under way) the server's; `thread` the
saver's. `run[r]` has the locals of one request. A first request waits for the agent of
its tools (`Bound`); everything from there to the opened stream is one step, as the code
awaits nothing in between. `Replay` and `Resume` are the ways `startTurn` opens the
stream; `Echo` is the guard on results the client sent. Message lists are followed only in
how many results they hold for each call.

`MCApprovalGrants`, `MCApprovalGate` and `MCConversationStore` hold instances and symmetry
sets; the other modules are instantiated by their `.cfg` alone.

## 3. Properties

Every property is stated next to its module with a comment. The ones worth arguing about:

* what the user was told about a saved answer is true after any sequence of failed and
  torn writes (`PromiseKept`, with `NothingSavedUnasked`, `UnusableFileIsKept`,
  `StaysInForce`);
* moving the stages of the gate, or changing the rung while one waits, lets no machine
  approve what a person was promised to see, nor argue with the agent about a rating nobody
  gave (`EscalationsReachAPerson`, `MachineDecisionsAreBounded`, `HardFloorHolds`,
  `GrantsAreAnswers`, `RefusalsHold`), and a negotiation reaches a person in time
  (`RejectionsReachAPerson`);
* both drivers keep the promise of a turn (`ImplementsTurn`): nested retries fold once,
  wait a bounded number of times, and end once with the ending of their last try. Turns
  end (`TurnsEnd`); Esc is final (`EscEndsTheTurn`) and reported (`StoppedTurnsSaySo`); the
  model is never asked to go on from its own message (`NeverAsksAfterTheModel`); a fold
  replaces what it summarised and orphans no result (`SummariesAreCurrent`,
  `ResultsFollowTheirCalls`);
* a resume is whole or refused, and a sweep that acts on an old selection takes only what
  is still out of reach (`ResumeIsWhole`, `SweepsTakeOnlyTheUnreachable`);
* a split of a single-file store that dies anywhere, or runs twice at once, loses no row
  (`NothingIsLost`) and never shows a row before its file (`IndexGoesLast`); a store in use
  is whole (`ReadyMeansWhole`), and the split ends (`SplitsEnd`);
* however the turns of an ACP session overlap at their ends, cancels and closes reach the
  right one (`OneTurnAtATime`, `TurnsSayWhetherTheyWereStopped`, `CloseFollowsTheTurns`),
  closes end on a silent client (`ClosesAreAnswered`), and every accepted prompt gets its
  idle state (`PromptsEnd`);
* keys that come in chunks take no unanswered prompt away, and nobody waits for the outcome
  of a question the run is past (`PromptsStayAnswerable`); a tool's output among the
  agent's events keeps its place, and its last words as the stream ends are not lost
  (`OutputIsWhole`) nor the turn left asleep (`EndedTurnsAreCommitted`); what is deferred,
  late or both still lands in order, and a recap under its turn (`TranscriptReadsInOrder`);
* between a browser that replays everything and a thread that keeps everything no call
  gets two results (`ResultsAreUnique`), and a browser's answer reaches its own call
  (`AnswersReachTheirCalls`).

## 4. The runs

| run | module, cfg | instance | distinct states | shows |
|---|---|---|---|---|
| `approval_grants` | `MCApprovalGrants` | two processes, one at a time; three entries; torn writes; edits between processes | 523 | what is told about saving is true |
| `lost_approval` | `MCApprovalGrants`, `MCLostApproval.cfg` | two processes at once | violation | the later save drops the earlier one's entry |
| `approval_gate` | `MCApprovalGate` | one call of every kind the rules tell apart; an exact, a glob, a rule and an escalate entry; bounds 2 and 3 | 1 705 763 | the six gate properties |
| `turns` | `Turns`, `MCTurns.cfg` | either driver; two turns, three calls, two cooldowns, two drain rounds, upkeep between the turns | 865 560 | both drivers implement `Turn`, and the properties of each |
| `escape` | `TextTurn`, `MCEscape.cfg` | the string driver, two turns, two calls | violation | Esc on an empty stream starts the turn again |
| `stored_conversations` | `MCConversationStore` | two processes, two conversations, three threads, three steps, one open file | 735 581 | the store, when no living conversation is shared |
| `resume_in_turns` | `MCConversationStore`, `MCResumeInTurns.cfg` | two processes that take turns on a conversation | violation | a resume from a stale mirror |
| `history_split` | `HistorySplit`, `MCHistorySplit.cfg` | two processes, two files, two crashes, sleeping holders, an earlier release | 783 366 | the split under crashes and takeovers |
| `acp_sessions` | `AcpServer`, `MCAcpServer.cfg` | two sessions, two prompts (turns or commands), two workspaces | 642 476 | the sessions of a server |
| `rerooting` | `AcpServer`, `MCRerooting.cfg` | three sessions, one prompt | violation | the workspace is released under a closing turn |
| `tui_session` | `TuiSession`, `MCTuiSession.cfg` | two turns with up to two events or outputs each, two questions, chunks of two keys, one `/clear` | 1 997 463 | the screen, the prompts and the merged stream |
| `ag_ui_runs` | `AgUiServer`, `MCAgUiServer.cfg` | two conversations, three requests, two calls, a restart | 1 663 606 | results and answers across runs |

**Why the bounds are enough.** *Grants*: entries do not interact except through the list
they are written in, so two with a third to migrate reach every mix of saved, unsaved and
lifted; two processes are enough for a lost update. *Gate*: the calls enumerate the
combinations of attributes that route differently; bounds 2 and 3 differ, so that the row
and the total can be reached in either order, and are above one, so that an off-by-one
shows. *Turns*: one drain round less than the calls makes the drain run out; two cooldowns
exceed the one fold, so the retries nest both ways; the second turn shows what the first
leaves behind. *Store*: one open file with three threads forces connections to be released
and taken again; three steps give a thread that is saved, degraded and resumed; two
processes suffice for every property that speaks of pairs. *Split*: two processes are
what a takeover needs, two files let a crash fall between two copies, and two crashes let
the one who takes over die as well. *ACP*: two prompts on one session overlap at the first
one's end, and the same two on different sessions race for the workspace; the violation
needs a third session. *Terminal*: a prompt answered twice matters when another stands
behind it, so two of each; the second turn is where a late notice or recap would land.
*AG-UI*: a call, its answer and the follow-up that replays both are three requests; two of
one conversation with the third of another share the wait for an agent. The names of
sessions, entries, conversations and threads are interchangeable, which the symmetry sets
use where no liveness is checked.

**Fairness.** *Turns*: weak fairness of each driver's `Progress` as a whole: the model
answers or fails, timers fire, the person answers a prompt on screen; nothing makes the
user press Esc, start a turn, abandon one or run `/compact`. A run that keeps calling
tools is bounded by `MaxTools` (the graph's recursion limit in the code). *ACP*: weak
fairness of each turn's own steps (the model answers or fails, notifications are sent), of
the drain (a timer fires) and of the cleanup; nothing of the client, who may leave a
permission request unanswered for ever; therefore `PromptsEnd` excuses a turn that is
asking, and `ClosesAreAnswered` does not. *Split*: weak fairness of the age of a lock (time
passes) and of each process's next call, which includes that a store found unavailable is
opened again some day. *Terminal*: weak fairness of what settled promises set in motion,
while the process lives; nothing of the model, the tools or the person. *Grants, gate,
store, AG-UI*: none; their properties are safety.

**Deadlock** is checked except in `ConversationStore`, `AcpServer`, `HistorySplit`,
`TuiSession` and `AgUiServer`: their instances run out of fresh threads, steps, sessions,
prompts or requests, every process of a split is done in the end, and a terminal session is
left.

## 5. What the code does otherwise than it says

Four runs end in a counterexample; `PROJECT.json` quotes both sides.

1. `lost_approval`: two processes on one project each read the approvals file once and
   write it back whole; an entry the user was told is saved disappears.
2. `escape`: Esc before any answer text closes the stream empty, the string driver takes
   that for an empty model turn and invokes the agent again.
3. `resume_in_turns`: a session that was on a conversation before, and resumes it after
   another session continued it, gets the copy in its memory.
4. `rerooting`: `releaseWorkspaceIfIdle` does not count sessions that are closing, so the
   wait that protects a closing session's last tool call is undone by another session's
   failure or close (both dialects).

Seen while modelling, without a run of its own. *In the gate and the drivers:*

* the attack banner of an allow-listed command reaches a person and leaves the
  negotiation's counters and transcript as they were (`GthAgentRunner.ts:2290`), where
  `negotiation.ts:235-239` has a human decision end a negotiation;
* a rating the gate never obtained "now reaches the human" (`GthAgentRunner.ts:2412`), but
  where the open-world floor fired its escalation goes to the alignment check first
  (`GthAgentRunner.ts:2478`), which may approve the command or send it back;
* the fallback of a streaming turn is not drained, and is judged empty when it stops on a
  gated call;
* the drain's last round is not followed by a look at what it left
  (`GthAgentRunner.ts:1627`): a graph that completes in answer to it is still recorded as
  out of rounds;
* an approval stop leaves the stopped call's row running (`GthAgentRunner.ts:3645`);
* a cooldown sleeps on through Esc, which takes effect after it;
* a turn stopped at the approval prompt leaves its call pending, and `/compact` and
  `/resume` then ask for an answer to a prompt that is gone (`GthAgentRunner.ts:4244`).

*In the stores:*

* after `history prune` takes a live session's thread the mirror keeps the conversation
  for the session itself, and its next write fails and cuts the link, where
  `docs/COMMANDS.md` has it carry on with no memory;
* a session that stopped saving, resuming another conversation, unlinks it although it is
  whole; so does a write that fails after `/clear`;
* two processes may judge the same dead split lock; the second then removes the first
  one's fresh lock and both split (`historyMigrations.ts:383-388`). No row is lost, but the
  slower one's `ATTACH` makes an empty `.pre-split` out of the file the faster one has
  discarded, and every open after that finds the store unavailable (`contested` marks these
  histories in the model).

*In the front ends:*

* in the ACP server a command ignores cancel and close and reports `end_turn`, and a new
  prompt is accepted before the previous turn's idle state is sent;
* in the terminal, two keys of one chunk both answer the prompt of the last rendering
  (`App.tsx:1152`): the first settles the call, and the second rewrites its row, which may
  then say "rejected by you" of a command that ran; the banner's own input keeps a ref
  against this (`App.tsx:305-307`);
* a prompt asked after the teardown's `abortPending` is never answered
  (`approvalBridges.ts:111-119`, `tuiSessionModule.tsx:931-941`); the process exits at its
  deadline; `applyResume` does not renew `recapEpochRef`, so a late recap may land under
  the conversation that was resumed (`App.tsx:1051-1085`); and the notice of what a banner
  grants comes before the turn it belongs to (`App.tsx:1101`);
* the AG-UI server never resets the agent's termination reason, which is
  first-write-wins (`GthAbstractAgent.ts:883`; only the runner and the fold reset it), so
  after one run that was cancelled or truncated every later run on that agent reports that
  first reason in `RUN_FINISHED`, whose `result.termination` is meant to say "why the run
  ended" (`apiAgUiModule.ts:1016`);
* it listens for a disconnect only after it has awaited the agent of the request's tools
  (`apiAgUiModule.ts:645`, `:674`): a client that leaves during a toolset's first use is
  never noticed, the run goes on for nobody, and by moving the conversation to its own
  thread, or by answering what the client's next run is suspended on, it takes that run's
  answer away. `AnswersReachTheirCalls` excepts these conversations (`unheard`);
* the answer of a client tool goes to whatever call its thread is suspended on; the
  handler does not compare the two (`apiAgUiModule.ts:699`). The modelled clients answer only
  what is pending; one that repeats an answer after its connection dropped could answer the
  next call with it.

## 6. The proofs

`tlapm` checks all eight proof modules to the last leaf. They rest on the named ASSUMEs
about the constants and nothing else.

* **ApprovalGrantsProofs.** For every set of processes and entries. `TypeOK` and
  `UnreadableStoreIsEmpty` need nothing, nor does `StaysInForce`, which follows step by
  step from the store's invariants. `PromiseKept`, `SyncedMeansSaved`,
  `UnusableFileIsKept` and `NothingSavedUnasked` assume
  `Exclusive` and no edits under a live process: of two processes one writes back what the
  other has lifted since it read (the same stale list as in `lost_approval`).
  The half of `UnusableFileIsKept` about refusals in the old format (`Migrates` FALSE) is
  proved only: the run is about approvals. `PromiseKept` is not inductive, because a later
  write could drop a promised entry: the invariant adds that at most one process lives,
  that the store of a stopped process is not loaded, that a synchronised store is what the
  file holds, and that a readable store knows every promise.
* **ApprovalGateProofs.** For every call set, rule relation and bound, with or without a
  person. `RejectionsReachAPerson` speaks of a history variable; `Heard` relates it to the
  counters (every rejection no person has heard of is counted), and the guard of `Reject`
  does the rest. `Fits` says what is known of a waiting decision at each stage (that a
  rated call is not on the hard floor, that an offer is the call's own entry), `Sound` of
  a settled one; the safety properties follow from `Sound`.
* **TurnProofs.** For every bound on cooldowns, drain rounds, turns and calls, of each
  driver and of a session of either (`Turns`). `SeamsInv` is preserved by every step the drivers share:
  `Counted` (a fold happens at attempt 0 and is counted when done; the turns in flight
  are bounded by the retries), `Dated` (a recorded reason carries the current attempt),
  `Threaded` (what the thread ends with at each phase: why a retry never sends the
  model's own message), `SummariesAreCurrent`, and `ResultsFollowTheirCalls` (a cut falls
  where no result follows). The event driver adds `Unsaid` (no reason is recorded before
  the drain has given up, so a stop can still be told) and `Rows` (a waiting call has a
  row). `TextTurnIsATurn` and `EventTurnIsATurn` are the refinements: the initial states
  are `Turn`'s, and every step is one of `Turn`'s or a stutter; `Counted` and `Dated` are
  what the mapping of retries and endings needs. A session keeps its driver
  (`SessionInv`), so that everything proved of both drivers holds of the session, and
  `SessionsAreTurns` is the refinement of the whole. `JudgedAfterTheDrain` is a property of
  the string driver; the event driver never gets to where it speaks (`EventQuiet`).
  `TurnsCannotGoOnForEver` is the variant behind `TurnsEnd`: the retries, calls, drain
  rounds, fallback and phases left, and what may happen once in a phase, fall in
  lexicographic order with every step (`Lowers`, one lemma per group of steps), and that
  order is well-founded (`FewerIsWellFounded`). The calls are bounded because the model
  of a turn bounds them; that a turn is never stuck needs fairness, and is TLC's.
* **ConversationStoreProofs.** For every number of processes, conversations and threads,
  in two layers. `SharedInv` holds however living processes share conversations: the mirror
  holds what was really seen (`Mirrored`), the index agrees with the record files
  (`Linked`), a session on a thread that a row names is bound to that row (`OwnRow`),
  nobody else is on the thread of a single run (`Solitary`), and a session that stopped
  saving is linked nowhere (`Degraded`). It gives `TypeOK` and
  `DegradedSessionsAreUnlinked` without an assumption. `StoreInv` adds what needs
  `Sharing = "never"`, that no two living processes are on one conversation: its core is
  `Apart` (living processes touched disjoint threads), from which `Whole` (a linked thread's
  file is empty or complete), `Saving` and `Remembered` (the mirror has all) hold each other
  up. `resume_in_turns` shows that `ResumeIsWhole` needs it, TLC finds the same of
  `RunningConversationIsRemembered`, and with three processes that take turns also of
  `SweepsTakeOnlyTheUnreachable`: one starts a conversation, moves on and later cuts its row
  for a failed write elsewhere, another has resumed it by then, and the third one's sweep
  finds its thread unnamed and old. `SweepsAreSafe` assumes besides `Attended`, that no
  session idles for a day, and uses `Swept`: what was selected stays out of reach until
  it is removed.
* **AcpServerProofs.** For every number of sessions, prompts and workspaces. `Owned` ties
  the session's controller, its turn and its callbacks to the one live turn, `Marked` the
  session's cancelled flag to that turn's signal; with them each property is inductive.

* **HistorySplitProofs.** For every number of processes, files and crashes. `SplitInv` says
  where rows are at each step of a split (`Kept`: the old file is discarded only when
  every thread is copied, `Copied`, and the index is built from the copies, `Indexed`;
  `Trying` bounds the attempts on the lock), and holds also when two splits overlap; that is
  what `NothingIsLost` and `IndexGoesLast` rest on. `ReadyMeansWhole` needs one split at a
  time: `Orderly` is preserved as long as no two processes were inside at once.

* **TuiSessionProofs.** For every number of turns, outputs, questions, clears and keys in a
  chunk. `Reading` says where the consumer of the merged stream may be while the stream is
  open or over; that it never waits on a stream that has ended
  (`NobodySleepsThroughTheEnd`) is the safety half of `EndedTurnsAreCommitted`.
  `PromptsStayAnswerable` follows from `OneQuestion`: until the session quits, the queue of
  the open question's kind holds that question, the other queue nothing; and from
  `Awaited`: only the open question's outcome is awaited. `OutputIsWhole`
  follows from `Numbered`: what was folded and what is queued are, in this order, all that
  was produced. `TranscriptReadsInOrder` needs `Told`: what is deferred belongs to the
  running turn, a recap that may still be shown to the last one, and nothing told to a
  later one; and `RecapsInv`: a recap that may still be shown has its turn on screen, or a
  conversation resumed since.
* **AgUiServerProofs.** For every number of conversations, requests, calls and restarts,
  when no client's id is one of those the server mints (UUIDs). `ResultsAreUnique` is about where
  a result may come from: `Fresh` (nothing is known of a call before it is made), `Blanks`
  (a thread nothing was replayed into is empty), `Listening` (a request that is heard was
  sent with the history its client still holds), `Unanswered` (what is waited for has no
  result). `AnswersReachTheirCalls` is about who else is on a thread: `Apart` (no two
  conversations share one), `Alone`, `OnItsThread`, `Awaited` and `Addressed` say that while
  a client waits nobody works on its thread, and that the thread asks for what the
  client will answer.

**Only model-checked**: liveness (`TurnsEnd`, `ClosesAreAnswered`, `PromptsEnd`,
`SplitsEnd`, `EndedTurnsAreCommitted`), which is out of the prover's reach, although
`TurnsCannotGoOnForEver` proves the half of `TurnsEnd` that needs no fairness. Every safety
property that a passing run checks is stated by a theorem.

## 7. What is left out, and why

Texts: prompts, notices, rendering, titles, the content of messages; what a shell command
means (its verdicts are inputs). Inside a modelled component: the repair of unreadable
tool calls and the cut-stream retry (one agent call), the proposal of several gated calls
in one message (they are decided one after the other), pending writes and budgets of the
store, schema steps of a migration (one transaction each), the v1 dialect and the replay
log of the ACP server, the framing of events in one AG-UI response (sequential, per
response) and the conversion of its messages, the terminal's draft, debug panel and the
decisions written on rows. The runtime calls race one promise with a timer and a signal
inside one function and keep no state; the batch runner's cells share nothing but an
index that grows. The components marked "no" in section 1 are sequential, pure or wrap an
external service: configuration, providers, evaluation, review, reporters, statistics,
and the analysis of shell commands are by far the larger part of the source by lines, and
none of them has an interleaving, a fault or an order to get wrong.

## 8. Plan

Modelled first was what the user is promised (grants, gate), then the drivers, the stores
and the servers, then the terminal. What is left, in order of worth:

1. A session store "whole or refused" as an abstract specification that
   `ConversationStore` implements under its assumption.
2. The v1 dialect of ACP on the sessions of `AcpServer`; several client tools in one AG-UI
   step, and clients that repeat an answer.
3. The composition of `AcpServer` with `EventTurn`, whose cancel is the driver's signal.
4. Variants like that of `TurnsCannotGoOnForEver` for the other liveness properties.
