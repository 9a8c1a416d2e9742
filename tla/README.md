# A TLA+ model of the mlens agent

mlens-cli is a coding agent (a fork of *pi*) with a product, *Molian*, that writes reports about
on-chain addresses.  This directory holds its specification: what the parts that keep state promise,
which of these promises TLC has checked on small instances, and which TLAPS has proved for all.

Paths below are relative to `src/packages/`.

## The system

| component | state | operations | talks to |
|---|---|---|---|
| **Agent run loop** `agent/src/agent.ts`, `agent-loop.ts` | transcript, streaming message, pending tool calls, steering and follow-up queue, active run and its abort signal; the loop's own context and pending messages | prompt, continue, steer, followUp, clear, reset, abort; stream an answer, prepare and execute tool calls, poll the queues | provider, tools and hooks (awaited); listeners (awaited, one after another) |
| **AgentSession** `coding-agent/src/core/agent-session.ts` | retry counter, last answer, mirrors of the queues, bash results held back, abort controllers | prompt, steer, compact, retry, bash, navigate the tree | listens to the Agent and writes its messages to the SessionManager |
| **SessionManager** `coding-agent/src/core/session-manager.ts` | tree of entries, leaf, labels, `flushed`, a JSONL file | append, branch, label, branch off, open, fork | synchronous, called by AgentSession and the modes |
| **AgentHarness** `agent/src/harness/agent-harness.ts` | phase, queues, writes waiting for a save point | prompt, steer, compact, navigate, abort | the agent loop, a Session over an asynchronous storage |
| **Harness session storage** `agent/src/harness/session/` | entries, leaf, labels, a file | append, move the leaf, path to root | called concurrently |
| **Compaction** `coding-agent/src/core/compaction/` | none | where to cut a path, what to summarise | AgentSession, AgentHarness |
| **Auth storage** `core/auth-storage.ts`, **settings** `core/settings-manager.ts` | a file shared by several processes, a copy in memory | locked read-modify-write, OAuth refresh, merge of modified fields | a file lock, token servers |
| **File mutation queue** `core/tools/file-mutation-queue.ts` | a promise per file | run an edit after the earlier ones of the file | the editing tools |
| **Command output** `core/tools/bash.ts`, `output-accumulator.ts`, `truncate.ts`, `core/bash-executor.ts` | tail, counts, temporary file, an update held back | take a chunk, show an update, finish | the process, a timer |
| **Terminal input** `tui/src/stdin-buffer.ts` | an unfinished sequence, a paste | cut what is read into keys and pastes | the terminal, a timer |
| **Session runtime** `coding-agent/src/core/agent-session-runtime.ts` | the current session and its services | new, switch, fork, import, dispose | extensions, the mode it runs in, AgentSession |
| **RPC mode and client** `coding-agent/src/modes/rpc/` | the session commands are given to; pending requests, event listeners | commands, answers, events; wait, collect, time out | each other over two pipes; the session runtime |
| **Molian workflow** `coding-agent/src/molian/` | a report run per session | collect, build, summarise, write | block explorers, a model as narrator |
| extensions, other tools, print and interactive modes, TUI, providers, OAuth | mostly I/O and presentation | | |

What makes each correct, and what is hard about it:

* **Agent run loop.** Everything around the loop may happen while it awaits something: messages are
  queued, queues are cleared, the run is aborted, tools finish in any order, a listener throws.
  Correct means: no message is lost, duplicated or reordered; every tool call is answered in order;
  the model is asked about exactly the transcript; every run settles and leaves nothing behind.
* **SessionManager.** It writes nothing until the first answer, then everything, and the process can
  die at any line.  Correct means: what it said is saved can be resumed, a file's history never
  changes, and taking a branch out keeps the conversation and its labels.
* **AgentSession.** Retry and compaction wait between two runs while the user may prompt, steer or
  abort.  Correct means: one run at a time, every transcript message persisted once, queued messages
  delivered, bounded retries.
* **AgentHarness and its storage.** Every operation awaits a storage and hooks.  Correct means: a
  phase is exclusive, pending writes are applied once and in order, the tree has one branch per turn.
* **Auth, settings, file queue.** Several processes or tools share one file.  Correct means: a
  refresh token is used once, no modified field is lost, edits of one file are exclusive and ordered.
* **Command output, terminal input.** A stream is cut into chunks anywhere, and a timer races the next
  chunk.  Correct means: what is kept, counted and shown is that of the uncut stream, what is left out
  of the result is in the file, keys arrive whole, nothing waits for a chunk that does not come.
* **Session runtime, RPC.** Commands are handled beside one another, the session is replaced under
  them, the process may exit.  Correct means: each command is answered once, the client hears the
  session it talks to, every session is ended once, a wait returns the events of its own run.
* **Molian.** Partial failures of the sources, arithmetic on balances, a model editing the summary.

`PROJECT.json` lists every component, and under "hazards" each of these difficulties at its line.

## Modules

| module | what it is |
|---|---|
| `AgentRun` | the Agent and its loop; properties; the inductive invariant |
| `PromptDelivery` | abstract: messages wait in lanes, are taken oldest first, delivered once |
| `AgentRunDelivery` | `AgentRun` implements `PromptDelivery`; the agent's runs check it, `MCAgentRun` adding bounds |
| `AgentRunProofs` | proofs: type correctness, idle means settled, what the agent limits; what a request to the model contains, and what becomes of the calls of an answer |
| `AgentDeliveryProofs` | proofs: each message in one place, the refinement of `PromptDelivery` |
| `Selection`, `SelectionProofs` | elements picked out of a sequence; induction over numbers, and what recursive functions of positions and ids compute |
| `SessionManager` | the session tree, its file, crashes and resumption; properties |
| `SessionManagerProofs` | proofs: what is saved, what a cut line costs, labels, history, branching off |
| `AgentSession` | what goes on between and around the runs of an agent: retries, compactions, prompts, queues, shell results |
| `HarnessSession` | the session of a harness: a tree behind an asynchronous file |
| `AgentHarness` | the harness over that session: phases, turns, queues, pending writes, compaction, navigation |
| `AgentHarnessProofs` | proofs: writes once and in order, the harness settles, requests see the branch, the file reopens at the leaf, messages are accounted for |
| `FileMutationQueue` | mutations of files in turn |
| `AuthStorage` | credentials of several instances in one file, under a lock that can be lost |
| `SettingsManager` | settings of several processes in one file, with queued writes |
| `GuardedFiles` | the three before as one specification, of which a behaviour exercises one |
| `GuardedFilesProofs` | proofs: mutations take turns, credentials are kept, settings are kept |
| `Truncate`, `ProcessOutput` | how a long text is cut; the chunks of a process |
| `OutputAccumulator`, `BashTool` | the output of the bash tool |
| `BashExecutor` | the output of a shell command of the user |
| `StdinBuffer` | the keys read from a terminal |
| `ChunkedStreams` | the three readers before as one specification, of which a behaviour exercises one |
| `SessionRuntime` | the replacement of the session of a running program |
| `RpcMode` | EXTENDS it: commands, answers, events and runs of the process |
| `RpcClient` | EXTENDS that: the client at the other end of the pipes; properties |
| `RpcClientProofs` | proofs: sessions are handed over, every command is answered, a wait collects its own run |
| `MCAgentRun`, `MCSessionManager`, `MCAgentSession`, `MCAgentHarness`, `MCGuardedFiles`, `MCChunkedStreams`, `MCRpcClient` | small instances |

Definitions named `...Backwards`, `...KeepsCalls` and the like, announced by "Mutant" in the comment
above, are faulty variants of the definition that follows.  No specification uses them: each shows
that a property notices the fault.

### AgentRun

A step runs from one `await` of the code to the next, because only there can anything else happen.
`pc` names what the loop is awaiting: `prompts`/`promptShown` the prompts' two events,
`inner`/`innerShown` the pending messages', `streaming` the provider, `prepare`/`preflight` the start
of a call and its validation and hooks, `execute` the tools, `resultShown` a result's events, `poll`
and `followUp` the two polls, `agentEnd` the listeners of `agent_end`, `fail...` those of a failure.
`context` and `hand` are the loop's `currentContext.messages` and its prompts or `pendingMessages`;
`callState` follows each call of a batch through `executeToolCallsSequential` or `-Parallel`.
Variables after `lastEvent` record the past for the properties and no guard of the code reads them,
with two exceptions that only bound the model: `nextId` (`MaxIds`) and `afterAbort` (below).

Abstracted: contents of messages; `agent_start` and `turn_start` are one event with what follows, as
are the `turn_end` and `agent_end` of a failed answer; a context push is one step with the
`message_end` before it; `message_update` and `tool_execution_update`; `errorMessage`.  Left out:
`shouldStopAfterTurn` and `prepareNextTurn`, which only AgentHarness uses, and `reset()` while a run
is active, which no caller does.  The queues' modes may be changed at any time, so a drain follows any
mode of the configured set.  External: a provider fails a request made with an aborted signal (as
`ai/src/providers/anthropic.ts:682-698` does) and otherwise ends with `ok`, `error` or, if aborted
meanwhile, `aborted`; a model stops asking for tools after `MaxToolTurns`.

### SessionManager

Every operation is synchronous, so an operation is one step up to its first write; `pending` holds
the lines it has still to append, and until they are written only `WriteLine` and `Die` are possible.
`disk` is the lines of each file, `unended` the files whose last line has no newline.  A write that is
cut (`WriteCut`) leaves a part of a line, which does not parse (`Malformed`), or the whole of it
without its newline, which does: it is read as an entry by whoever opens the file next, until the next
append is put on the same line and both are gone (`Glued`).  `byId` is not a variable: it is the ids of `fileEntries`.  Entry kinds are merged where the code treats them alike
(`user` is any message that is not an assistant's, `setting` any entry outside the context), session
ids and timestamps are left out, entry ids are numbers in order of creation (the code draws them at
random and tests for collisions).  Not modelled: migration of older formats, in-memory sessions, the
listing of sessions.  `RefusedAppend` is an append whose write throws (a full disk) while the process
goes on, after any number of the lines it had to write and any part of the next; the refusal of the
other writes is left out.

### AgentSession

The agent is seen through its events: a run (`run`) shows the messages in hand one by one, each first
complete in the transcript (`ShowMessage`) and then, after the extensions have heard of it, saved
(`SaveMessage`); it asks for an answer, polls the queues, ends.  Tool calls of an answer and their
aborts are in `AgentRun`; here an answer asks for at most one tool, whose result follows.  A *call* is
one invocation of `prompt()` or `compact()`; its `pc` is what it awaits: `input` the input handlers,
`before` the hook `before_agent_start`, `running` the agent, `ended` (only promises settle, so nothing
else may come in), `backoff`, `preparing` and `summarising` a compaction, `compacted` the listeners of
it.  `pre` says whether `prompt()` is still before its own run, checking the last answer or continuing
after it.  `Continue` is `Agent.continue()` with its three ways and its errors.  The session is the
branch a `SessionManager` would keep, without its file.  Abstracted: a message is its role and a
number; an answer has a stop reason and is large or not; `silent` is an answer that ended well although
its request overflowed, `fatal` an error that no retry mends; where a compaction cuts is any allowed
place, as it depends on sizes; summaries are the messages they tell of.  A `compact()` called while a
run streams aborts it and waits (`aborting`); `FinishRun` lets it go on beside the prompt that owned
the run, which may retry or compact at the same time.

### HarnessSession and AgentHarness

An append of the session begins (id and parent are read), has its line written, and changes memory:
three steps, because the code awaits between them, so that two appends can overlap.  A *call* of the
harness is a `prompt()`, `compact()`, `navigateTree()` or a setter that appends while idle; the
loop below a prompt is the part the harness hears of (`pc` names the await, `hand` the messages still
to be shown).  `Throws` actions are listeners, hooks or appends that fail; `LoopThrows` is the way
into `emitRunFailure` and, when that fails too, out of it.  `Steer`, `FollowUp`, `NextTurn`,
`AcceptWrite` and `Abort` may come at any await.  *Patient* callers start a call when the others have
returned (a listener of `agent_end` may still append, which is when the phase is idle already);
impatient ones need not.  Abstracted: contents, models and levels as one kind of entry, what the
hooks put into a request, the summary of a branch.

### FileMutationQueue, AuthStorage, SettingsManager

A mutation registers (`Register` is the body chained to `registrationQueue`), waits for the last call
of its key, runs and finishes; `before` and `last` are `currentQueue` and the map, which hold promises
in the code and the call that settles them here.  `Target` is where a path leads through links.

`AuthStorage` has one OAuth token and one API key in the file.  A synchronous locked section
(`withLock`) is one step, with the waiting of at most 200 ms left to the choice of success or failure;
the refresh holds the lock over `sent` and `rotated` (the provider rotated the token) until its answer.
`aged` is a lock not renewed for ten seconds, after which a synchronous locker takes it over.
proper-lockfile and the provider are external, modelled from how `auth-storage.ts` calls them.

`SettingsManager` models one of the two equal scopes.  A write is a task of the queue; with the file
in place it is one locked step, without it the reading and the writing are two (`ReadMissing`,
`WriteMissing`), as `withLock` then takes its lock late.

The three share nothing, so `GuardedFiles` composes them as a choice: a behaviour exercises one.

### Truncate, ProcessOutput, OutputAccumulator, BashTool, BashExecutor

A text is a sequence of bytes, of which four kinds matter: a character of one byte, a line feed, the
two parts of a character of two.  `ProcessOutput` lets a process write whole characters (it may be
killed inside one) and deliver them in chunks cut anywhere.  An accumulator is a record and its methods
are operators on it; `BashTool` has one action for a chunk (with the update shown at once or held
back), the timer, and the end.  `BashExecutor` keeps its list of chunks.  The limits, 2000 lines and
50 KB, are the constants `MaxLines` and `MaxBytes`; what the code derives from them (twice and four
times as much in memory) is derived here too.  `truncateTail` is stated by what it selects, with sets
of line starts instead of the loop.  Both commands' processes, and the sanitising of output, are
external or left out.

### StdinBuffer

A character is a string, and only the characters that `isCompleteSequence` tells apart are there.
`Press` sends a key, `Read` reads a chunk of any length of what was sent, `Timeout` is the flush timer.
The buffer is a record, and `process` an operator on it, recursive as in the code for what follows a
paste.  Four things can go wrong on the way of a key, and each is recorded: the set `mishaps` holds
`"pause"` once the timer has fired inside a key, `"hurry"` once a key has followed a bare Escape so
closely that the two are the text of another key (`ESC A` is also `A` with the meta key), `"border"`
once a chunk has ended between two escape characters and what the second of them opens; and an escape
character that is dropped before a paste is `Lost` among what was emitted.

### SessionRuntime, RpcMode, RpcClient

`SessionRuntime` follows each replacement from await to await: `beforeSwitch` the extensions that may
cancel it, `shutdown` those that are told of the end, `creating` the making of the next session,
`binding` and `rebinding` the extensions that are told of its start (twice: `apply` calls the rebinding
the mode has set, and the command calls it again).  `hosted` and `subscribed` are the mode's own
references, which lag behind `session`.  `this.session` is read anew at each step, as in the code.

`RpcMode` has `HandleLine` for a command up to its first await and an action for each later step;
lines are not awaited, so commands overlap.  A prompt passes its hooks (`preflight`, `starting`),
may be refused or handled there, may first continue an earlier run (`recovering`), runs, and may be
continued by a retry or a compaction (`between`); `EmitAgentEnd` and `FinishRun` are apart because the
agent is busy until the listeners of `agent_end` are done.  A disposed session goes on running, unheard.
`get_state` stands for the commands answered at once, `new_session` for all that replace the session.

`RpcClient` calls the methods of a *program* (a constant) in order, at any time: a method subscribes
its listener, then writes its command.  The pipes are queues of lines.  A timer may fire while the
request or the wait is open, `MaxTimeouts` times; `Exit` loses what was not read by the process, not
what it wrote.  `Notified` keeps the way the list of listeners is walked while listeners leave it.

## What TLC checks

Every run is exhaustive within its bounds.  `CHECK_DEADLOCK FALSE` is set in all of them: the agent
really stops when it is idle and its callers have used up the bounds, and so do the others.  The type
invariants are `TypeOK` of `agent_run` and a conjunct of one property of each other run.

| run | shows | bounds, and why they are enough |
|---|---|---|
| `agent_run` | `RequestSeesTranscript`, `RequestEndsWithInput`, `ResultsFollowCalls`, `UnansweredOnlyIfInterrupted`, `OneRequestAfterAbort`, `IdleIsSettled`, `EachMessageOnce`, `DeliverySpec` (refinement), `TypeOK` | two runs, so that one inherits from a failed one; and (`Bounds` of `MCAgentRun`) three messages, two in a lane and one in the hand, or two of them and up to three calls in each answer: a first, a middle and a last one, in any completion order, some of them never started (three messages with a call are in `agent_live`) |
| `agent_live` | `RunSettles`, `SteeringReachesRun`, `OneSteeringPerRequest`, `DeliveryFairSpec` | three messages, two runs, a tool call to interleave with; nothing throws, and one steering message at a time |
| `session` | `SavedSinceFirstAnswer`, `CutLineCostsTwoEntries`, `LabelsAreReplayed`, `HistoryKept`, `BranchedKeepsLabels`, `BranchedKeepsConversation` | two files; and (`SmallLimits` of `MCSessionManager`) three entries of every kind in up to three sessions, so that a line can be cut, the file resumed, and a line cut again; four answers, or three entries of any kind, with a refused write, and a resumption; or four entries of one session, for a compaction with something before it, after it and beside it, or two labels |
| `agent_session` | `TranscriptIsBranch`, `ResultFollowsCall`, `NothingForgotten`, `RecoveryEnds`, `PromptsDoNotThrow`, `QueuedIsShownAndDelivered` | eight kinds of behaviour (`SmallLimits`): a compaction by hand before, during and after a prompt of two answers, with a message queued or a shell result, and with a prompt after it; one prompt with four answers, so that a retry, an overflow, a compaction and another failure follow one another; two prompts with an abort; two prompts that do not wait for one another, with two answers or with one and a shell result; two compactions by hand with shell results around them, so that the second finds a summary.  One retry; every stop reason |
| `harness` | `WritesAreOrderly`, `HarnessSettles`, `RequestSeesBranch`, `MessagesAccountedFor`, `ReopensAtLeaf` | (`SmallLimits` of `MCAgentHarness`) three calls one after another, of any kind, with a write and a failure or with a message; two calls with any two or three of a message, a write, a failure and a round of tools, one call with all four, or with two writes; one with two messages, a round of tools and a failure, in both queue modes; two calls that overlap, with a round of tools and a message or a write |
| `guarded_files` | `MutationsTakeTurns`, `CredentialsKept`, `SettingsKept` | three mutations of three paths, two of them one file; two instances, three tokens (one to find, one refreshed, one more), two changes, one crash; two processes, two fields, three setter calls, a reload, a failure, an exit |
| `chunked_streams` | `SnapshotIsOfTheWhole`, `CutOutputIsInTheFile`, `KeysArrive`, `NothingWaitsForMore` | limits of two lines and two bytes, so that ten bytes pass the trimming of the tail (eight) and eight the dropping of chunks (four); chunks of one to three bytes, so that a chunk can hold a whole character and half of another; three keys of eleven kinds, pressed one after another or in haste, cut anywhere |
| `rpc` | `SessionsAreHandedOver`, `EveryCommandIsAnswered`, `CollectedIsTheRun` | programs of two or three calls (`SmallPrograms`): waits one after another and beside one another, a prompt met by an abort, another prompt or a new session, two replacements at once; with those that extensions make, up to four sessions.  One timer that fires, one run that is continued |

Four runs find a statement of the repository violated:

* `agent_end_after_failure` - "`agent_end` is the final emitted event for a run" (`agent/src/agent.ts:228`)
  does not hold when a listener throws: a failure is reported with a second `agent_end`, and tools
  left over from a parallel batch still emit their end.
* `session_clone` - "Duplicate the current active branch" (`coding-agent/docs/sessions.md:31`): a
  label is an entry of the tree; `createBranchedSession` takes labels out of the path and leaves the
  entry after one without its parent, so the clone forgets the conversation before it.
  `BranchedKeepsConversation` states when it does not: no entry hangs from a label.
* `agent_session_summary` - "passing the previous summary as iterative context when present"
  (`coding-agent/docs/compaction.md:43`): a compaction that cuts the first turn it has before it makes
  its history summary of nothing, "No prior history." (`compaction.ts:787`), and what the last
  compaction had summarised is forgotten.  `NothingForgotten` states that nothing else ever is.
* `stdin_border` - "The buffer must not treat \x1b\x1b as a complete meta-key when the following byte
  starts a new escape sequence" (`tui/test/stdin-buffer.test.ts:204`): the buffer looks at that byte
  only if it came with the same chunk (`stdin-buffer.ts:217`).  When the chunk ends before it, WezTerm's
  Escape becomes one key of two escape characters, and the rest of its release report is typed.

Four more statements are contradicted by behaviours the models have, without a run of their own:

* "Resolve when the current run and all awaited event listeners have finished" (`waitForIdle()`,
  `agent/src/agent.ts:305`): `Promise.all` rejects with the first call of a parallel batch
  (`agent-loop.ts:502`), so the run ends while the others (`orphans`) execute.
* "[...] exactly one header and no duplicate IDs" (`coding-agent/test/session-manager/tree-traversal.test.ts:490`):
  the "duplicate-header bug" that `session-manager.ts:1269-1273` avoids for branched sessions happens
  to a session resumed from a file without an answer (`:849`); the properties read a file without its
  repeated entries (`Distinct`).
* "[...] truncate and start fresh to avoid appending messages without a session header (which breaks the
  session)" (`session-manager.ts:745`): a file that lost only the newline of its header opens, the next
  append is put on the header's line, and the session is gone; the properties speak of files that can
  be opened.
* "Failures after acceptance are reported through the normal event and message stream"
  (`coding-agent/docs/rpc.md:77`): of two prompts whose hooks overlap the second to start has been
  accepted when the agent refuses it (the last branch of `StartRun`), and that is reported to nobody
  (`rpc-mode.ts:405`).

### What the properties leave out, and why

Properties of the newer modules hold under conditions, written into them.  Each condition names a
behaviour of the code that was met while modelling; where a statement of the repository that we know
of says otherwise, it is among those above:

* *AgentSession, `PromptsDoNotThrow`.*  An answer that ended well although its request overflowed is
  taken out of the transcript, is brought back by the compaction (it is not an error, so
  `_runAutoCompaction` leaves it), and `continue()` throws "Cannot continue from message role:
  assistant".  A request that overflows after a retried error leaves two failures in the branch;
  compaction brings both back and takes out one.
* *`raced`.*  `compact()` during a backoff or an automatic compaction cancels the former and runs
  beside the latter; a retry that continues while AgentSession is disconnected is not heard, and
  `_retryAttempt` stays above zero.
* *`missed`.*  `compact()` disconnects before it aborts, so what the aborted run still emits (a
  tool's result, a steered message) reaches the transcript and not the session, and a steered message
  stays in the list of those pending.  A failed compaction leaves it so; a successful one rebuilds the
  transcript without them.  `TranscriptIsBranch`, `ResultFollowsCall` and `PendingShownIsPending` name
  these messages and speak of all the others; what waits in the queues is not delivered by `compact()`.
* *Overlapping prompts.*  Two prompts may both find the agent idle; the one that is refused flushes
  held-back shell results in its `finally`, into the run of the other.
* *Recovery of an overflow that fails* leaves the answer out of the transcript and in the branch; this
  is why `TranscriptIsBranch` sets failures aside.
* *AgentHarness.*  When `before_agent_start` throws, the messages kept for the turn are lost
  (`dropped`); writes asked for during a compaction, a navigation or a prompt that fails before its
  loop wait for the next prompt (`LoopsLeaveNoWrites` says that only these do); a drained queue is given back
  to an array that `abort()` may have replaced; callers that overlap can clear the controller of, and
  flush into, another's run.  Two loops at once are possible: a listener of `agent_end` that throws
  sends a finished run through `agent_end` again, which sets the phase to idle under the prompt begun
  meanwhile, and a third may begin.  Of the two that poll, the one that took the later message may
  fail last and put it back in front of the earlier (`agent-harness.ts:399`), so that
  `MessagesAccountedFor` asks for the order of the queues of patient callers only; `harness` is too
  small to show this, an instance of three prompts, two messages and three failures does.  A
  torn last line makes a harness session unopenable, as `parseEntryLine` throws; the model has no crash
  inside a line, and a refused append is taken to have written nothing of it (`ReopensAtLeaf`).
* *AuthStorage, `mishap`.*  A lock renewed every 15 seconds can be taken over after 10 by a
  synchronous locker; then one token may be sent twice.  Also: a load that fails at the start makes
  every later `set()` stay in memory unsaid, and a login while another instance refreshes is
  recorded as an error and not saved.
* *SettingsManager, `clobbered` and `forgotten`.*  Two processes that create the file overwrite one
  another; the end of a write unmarks fields set since, which are lost to the file if their own write
  fails; a reload behind a queued setter unmarks its field.
* *FileMutationQueue, `sawFile`.*  A file created behind a link changes its key.
* *SessionManager, `unsaved`.*  An entry whose write was refused stays in memory and, once the first
  answer has been saved, never reaches the file: what is appended after it has no parent there, so a
  resumed session forgets the conversation before it.  A label that was refused is an entry and not in
  the map of labels.
* *Bash tool.*  `ShowsTheLastLines` speaks of outputs whose last line fits the limit.  When that line is
  longer than four limits, its beginning trimmed away, and a line feed ends it, `getSnapshotText`
  leaves out all of it and the result is "(no output)" under a note of lines N+1 to N; the length noted
  with a partial line is that of the open line, 0 once it is ended (`bash.ts:359`).  stdout and stderr
  share one decoder (`bash.ts:102`), so a character cut by a chunk of the other stream is garbled.
* *Bash executor.*  Dropping a large chunk can leave less than the limit: the result then has
  `truncated` false although most of the output is only in the file.
* *StdinBuffer, `mishaps`.*  A pause inside a key that outlasts the timer makes two events of it; an
  Escape and a key that follow one another at once may read like one key, which no program could tell;
  a chunk that ends after two escape characters is the case of `stdin_border`.  `KeysArriveWhole` speaks
  of behaviours without these, `NothingIsLost` of all: only an Escape that waits when a paste begins is
  dropped (`stdin-buffer.ts:341`), and only that is missing then.  A paste whose end marker never comes
  (`:315`) keeps all that follows; every paste of the run has one.
* *SessionRuntime, `overlapped` and `creationFailed`.*  Of two replacements that overlap, the later one
  disposes of the session that is current when its extensions have heard of the end of another
  (`agent-session-runtime.ts:168`): a session is disposed untold, or told and left.  A `createRuntime`
  that throws leaves the disposed session current.  `dispose()` does not abort a run, whose
  `agent_end` then reaches nobody.  Each replacement by a command emits `session_start` twice.
* *RPC mode.*  A prompt accepted while another got in between fails in the agent, unreported.  An
  unknown command is answered without its id (`rpc-mode.ts:667`), so `send()` would wait for its timer;
  the client sends none, and the commands of the model are known ones.
* *RPC client, `alone` and `continued`.*  `prompt()` resolves although the answer is an error, so a
  refused `promptAndWait()`, or one an extension handles, waits for its timeout or takes the end of
  another run for its own.  A wait ends with the first `agent_end`, though a retry or a compaction
  continues the run; the events of that go to the next wait.  A listener that leaves the list while it
  is walked makes the next one miss the event (`rpc-client.ts:495`): of two waits one goes on waiting.
  `promptAndWait()` leaves its collector behind when its request is rejected.

### Fairness

`FairSpec` of `AgentRun` is weakly fair to `LoopStep` and to `ToolStep`: Node's event loop goes on
with whatever awaited promise has settled, and listeners, hooks, the provider and the tools are
assumed to settle.  A tool that never returns does block its run; that is the tool's contract.
Nothing is fair to `Caller` (the user need not act) or to `Failure`.  `SteeringReachesRun` speaks of a
message queued before the last poll of a run: one queued later waits for the next run.
`ChunkedStreams` is weakly fair to `TimerFires`: a Node timer that is set and not cleared fires;
nothing is fair to the process or the terminal, which may send nothing more.  The other modules state
no fairness; what they say of endings (`RecoveryEnds`, `HarnessSettles`,
`QueuedIsShownAndDelivered`, `SettingsKept`) is about states in which nothing is under way.

## What TLAPS proves

For every value of the constants, from `BoundsAssumption` and `ConfigAssumption` alone:

* `AgentRunProofs!TypeCorrect` - `TypeOK`;
* `AgentRunProofs!SettledWhenIdle` - `IdleIsSettled`;
* `AgentRunProofs!ContextIsTranscript` - `RequestSeesTranscript`;
* `AgentRunProofs!RequestsAnswerInput` - `RequestEndsWithInput`;
* `AgentDeliveryProofs!MessagesInOnePlace` - `EachMessageOnce`;
* `AgentDeliveryProofs!AgentDelivers` - `DeliverySpec`, the refinement of `PromptDelivery`;
* `AgentRunProofs!ResultsInCallOrder` - `ResultsFollowCalls`;
* `AgentRunProofs!NoCallForgotten` - `UnansweredOnlyIfInterrupted`;
* `AgentRunProofs!AbortStopsRequests` - `OneRequestAfterAbort`;
* `AgentRunProofs!OneSteeringAtATime` - `OneSteeringPerRequest`, assuming also that nothing throws
  (`~MayThrow`, as in `agent_live`): a run that fails between injecting a message and asking the model
  leaves it unanswered in the transcript, and the next run may inject another before it asks;

and, from `TargetAssumption` (a path leads to a path) and `NoCallAssumption` alone:

* `GuardedFilesProofs!MutationsTakeTurnsAlways` - `MutationsTakeTurns`;
* `GuardedFilesProofs!QueueTypeAlways` - `QueueTypeOK`;

from `AuthBounds`, `AuthNames`, `SettingsBounds` and `SettingsNames` (bounds are numbers, and the
values that stand for "no one", "torn", "missing" and "broken" are not contents), of each component by
itself, `AuthInit /\ [][AuthNext]_authVars` and `SettingsInit /\ [][SettingsNext]_settingsVars`:

* `GuardedFilesProofs!CredentialsAreKept` - `CredentialsKept`;
* `GuardedFilesProofs!SettingsAreKept` - `SettingsKept`;
* `GuardedFilesProofs!FilesAreGuarded` - all three, of the composition `GuardedFiles` that TLC runs;

from `ManagerAssumption` (a process is limited in entries, in what it may open, and in what may go wrong):

* `SessionManagerProofs!SavedSinceFirstAnswerAlways` - `SavedSinceFirstAnswer`;
* `SessionManagerProofs!CutLineCostsTwoEntriesAlways` - `CutLineCostsTwoEntries`;
* `SessionManagerProofs!LabelsAreReplayedAlways` - `LabelsAreReplayed`;
* `SessionManagerProofs!HistoryKeptAlways` - `HistoryKept`, an action property;
* `SessionManagerProofs!BranchedKeepsLabelsAlways` - `BranchedKeepsLabels`, an action property;

from `HarnessAssumption` (calls are numbers, finitely many; the kinds of calls and of writes and the
queue modes are those of the code):

* `AgentHarnessProofs!WritesOrderly` - `WritesAreOrderly`;
* `AgentHarnessProofs!HarnessSettled` - `HarnessSettles`;
* `AgentHarnessProofs!RequestsSeeBranch` - `RequestSeesBranch`;
* `AgentHarnessProofs!StorageReopensAtLeaf` - `ReopensAtLeaf`;
* `AgentHarnessProofs!MessagesAccounted` - `MessagesAccountedFor`;

and from `MaxIdsAssumption` and `ProgramsAssumption` (a program is a list of methods of the client, no
longer than the ids):

* `RpcClientProofs!SessionsHandedOver` - `SessionsAreHandedOver`;
* `RpcClientProofs!CommandsAnswered` - `EveryCommandIsAnswered`;
* `RpcClientProofs!RunsAreCollected` - `CollectedIsTheRun`.

`TypeOK` is not inductive: `InjectEnd` takes the head of `hand` and `ResultEnd` appends what is being
shown, so `AgentRunProofs` first proves `TypeInv == TypeOK /\ ShownInv /\ RunInv`, where `ShownInv` says
what the loop is in the middle of showing and `RunInv` that a run owns the state exactly while it is
active.  It then adds what holds at each point of the loop: `BatchInv` (which states the calls of a
batch can be in; started calls are a beginning of the batch), `ContextInv` (how context and
transcript relate: prompts are in the context first, results in the transcript first, and in a batch
the transcript is the context followed by the results `1 .. k` sent so far) and `InputInv` (the last
message can be answered wherever the loop is bound to ask).  The interesting case is `FinishBatch`:
its results are exactly the calls sent, these are `1 .. k`, and at least one is there because the
first call of a batch is always started.  `RunIInv` is their conjunction, checked by TLC first.  Facts
about `Append`, `\o`, `Head`, `Tail` and `ReplaceAt` are lemmas at the head of the modules.

`EachMessageOnce` compares places two by two; what a step preserves is `DeliveryInv`: the six places
are apart and make up all numbers given out (`Places`), no number is twice in the transcript, and the
queues and the hand are `InOrder`, oldest first.  A drain splits a queue in two (`DrainIds`), an
injection moves one number, a failed run moves the hand to `lost`.  The refinement follows step by
step: the order of the queues is what makes a drain take the oldest waiting message.

`ResultsFollowCalls` needs to know where the answer being executed is.  `AnswerInv` says that answers
are numbered by their turns and that the loop's is the last message of its context; with `ContextInv`
the next result is then call `k + 1` of an answer `k + 1` places before it.  `NoCallForgotten` adds
`InterruptInv` (an abort during an answer is recorded for its turn) and `LaunchInv` (a call is left
out of a launched batch only after an abort): when `FinishBatch` is reached without an abort all calls
were sent, so `k = calls`.  `FailInv` says that the message reporting a failure is no answer.

`AbortInv` says that a request made with an aborted signal is the last of its run, since it can only
fail.  `SteeredInv` counts the steering messages injected since the last request against those in the
hand, at each point of the loop; `skipPoll` is what keeps the count at one when `continue()` took the
first message from the queue itself.

For the session manager, a process is at every step between what its file says (`Read`), what it has
still to append (`pending`) and what it remembers (`fileEntries`).  `Ahead` says that the file, once
the rest is appended, says what memory holds, or all of it but an entry whose write was refused; and
that before the first answer it adds nothing to memory.  "Says" is up to the entries that a file with
two headers has twice (`Distinct`), so the proof needs what `Distinct` and `Saved` do to a sequence that
grows at its end.  `Files` ties an empty file to `flushed`, and a file with anything in it to a header
that can be read; `NothingHeldBack` is the other half of `_persist`.  `Sound` says that all the entries
anywhere, of the files, of memory, and on the way, are numbered below `nextId`, hang from older ones,
and are equal when their ids are: that gives `Distinct` its meaning, and it makes the path from a leaf a
recursion on smaller ids.  `Losses` is about damaged
files: the entries of memory that are neither in the file nor on the way to it (`Missed`), and the one
that the next append will lose on a cut line that cannot be read (`Owed`), are no more than the damage of
the file, in which a line that does not parse counts one and a line with two entries on it (`Glued`) two.
What an append does to that sum is the lemma `LossesCounted`: on a line of its own it changes nothing;
on a line that could be read it loses two and adds two; on one that could not, it loses the entry that
was owed.  `LabelsMatch` is
`LabelsAreReplayed` up to a label that was refused.  `HistoryKept` follows from the same cases: each
writing appends to one file, after its last newline; an entry whose newline was cut off is the exception
that `Ended` names.  `BranchedKeepsLabels` rests on the order in which the
labels of the path are put back, that of the entries they name and one entry each (`Ascending`,
`Relabelled`): replaying them gives the labels collected.  TLC checked
`IInv` on all states of `session` first.

For the mutation queue, that earlier mutations of a key have finished when one starts is not
inductive: a call waits only for the one before it.  `WaitInv` says that whoever is ahead of a waiting
call is that call or ahead of it, so its end implies, by `KeysInTurn`, theirs; `LastInv` that the map's
call is the last of its key while it is not finished, and that a key is forgotten only when all its
calls have finished (the test `fileMutationQueues.get(key) === chainedQueue` is needed here, and
dropping it is the mutant `FinishForgetting`); `TurnsInv` that registrations follow the order of the
calls.  `FilesApart` then follows from `SawInv`: both calls have the real path as their key.  The
instance TLC checks is that of three calls, in `guarded_files`.

For the credentials, that no token is sent twice rests on who is in the locked section.  Unless a
mishap happened (a lock taken from an instance at work, an answer lost, a writer killed), `OneHolder`
says that an instance there owns the lock and knows it, `AskedIsGood` that the token it sent is not
used up, and `HolderHasKey` that what it will write over the file has no older key: it read the file
under the lock, and whoever changes the file meanwhile had to take the lock.

For the settings, `ProcessInv` follows each field of a process from the setter to the file.
`MarkedIsLast`: a marked field has its last value in memory, so the next snapshot has it; `TasksAgree`:
once a queued write has the last value, every later write of that field has it too, so none undoes it;
`UnmarkedIsWritten`: a field that is neither marked nor forgotten has no older value in the queue, and
the file has the last one unless another process wrote it later.  That a process settles is then the
case of an empty queue.

For the harness, none of the first four properties is inductive, and they need each other's strengthenings;
`IInv` is proved as one.  `Mirrored` keeps file and memory in step through the three steps of an
append, as long as `Serial` allows one append at a time.  That patient callers never overlap two
appends follows from `Controlled`: it ties the phase, the promise and the controller to a call at a
place that accounts for them, and lets a second call be active only as an append under the first
one's `agent_end`, a place where no loop appends.  `Writing` says what each append is for: it holds
the first write that waits while a flush is under way, the first message in hand while a loop shows
it, or a number nobody else was given, so that a commit moves one item from the head of what waits to
the end of what is persisted, or none.  `Awaited` says that a write charged to a call that ran its
loop waits only while that call is active; `Return` is enabled by an empty queue or by a refused line.
`Branching` relates the loop's own list to the session: at every await at which the loop will go on to
a request without rebuilding it the list is `Context`, or, while the prompt's messages are shown, `Context`
followed by what is in hand.  When a message is committed both sides grow by it: `PathGrows` says that
an entry newer than the tree extends the path of its parent and leaves all others alone, `SeenGrows`
that it is seen last wherever the last compaction cut the path (ids are fresh, so no compaction kept
from it, which is why `Rooted` says that targets are older than entries), and `OnlyAppend` that what is
shown grows by it.  TLC checked `IInv` on the instance of `harness` first.

`MessagesAccountedFor` rests on `MessageInv`, inductive beside `IInv` and checked by TLC on every
state of `harness` before its proof.  `Parted(Placing)` says that the messages asked for are divided
between the three queues, the session, those cleared, those dropped and one hand per call, so that a
step is a move from one place to another (`Moved`, or `MovedTwice` and `MovedInto` for the steps that
drop some and persist or give back others).  `Numbered` is what makes the division a fact about
positions too: no queue and no part of the session has a number twice, every number is below the
next, and a prompt's own message was never queued, which tells the hand's last element from those
taken for the turn.  `InTurn`, the order, holds of patient callers: what a call has taken and may
still give back precedes what was queued since.  A step that moves messages is made by a call between
its start and its `agent_end`; with patient callers no other call is there then (`TurnAlone`).  Most
steps move nothing (`SilentKeeps`), and the rest is a lemma for each place of the code that takes,
gives back, shows or drops.

For the runtime, `hosted = session` at every step, though the mode binds to its own reference while
replacements overlap: `Apply` sets both.  `SubscribedFollows` says that the mode hears another session
only while one is being bound, `DisposedIsReplaced` that a disposed session is current only while the
next is made.  `OneTearing` and `OneLeft` say what a replacement has done so far when it is the only
one: an overlap is recorded before the second teardown, so none of the two has to hold after one.  For
the answers, `AnswersMatch` relates the stage of a command to the answers written for it, and
`LinesAreNew` says that a line of stdin is a command nobody has handled, in the order of the ids, so
that each is read once; `RunsArePrompts` that a session runs a prompt that is in a stage of a run
there; a line on the way to the client is an answer that was given or an event (`Line`).  On the
client's side `ListenersWait` is kept by the walk that passes over a listener because what stays in
the list are the even places, and no wait is in the list twice.

What `promptAndWait` collects needs all of that and the order of the pipes.  `Over` is stable, so that
a call that was alone when it was made stays so until it is over itself (`OneAtATime`); then every
event on the way to the client is of an older run, which has nothing more to say, or of its own.
`Collecting` adds what a call has to what is on the way (`Seen`) and compares that with the stage of
its command: nothing before the run, a start while it runs, a start and an end after it.  It also
allows less, because the mode may not have heard it (its session was replaced) or the end passed it
over when a listener before it left the list; then the call goes on waiting and returns nothing.  What
must not happen is that a session unheard is heard again in the middle of a run, start lost and end
received: `HeardNoMore` says that whatever the mode is being bound to is a later session.  `Collected` is the
property, with that nothing of the run is still to come.  `HandledInv` relates the stages of commands
to the methods called and the line of commands to their order.  The property once said that prompts
are alone when no other prompt is under way as they are called; that is not enough, which TLC showed
on an instance of four calls: of three `promptAndWait` that overlap, the third may return with the
end of the first's run and its own be still to come when the fourth is called.  `Over` therefore asks
that an earlier one, too, was alone.

Every invariant of the agent and its refinement, of the session manager, of the shared files, of the
harness and of the RPC mode and client is proved.
Only model-checked: everything about `AgentSession` and the streams,
`BranchedKeepsConversation`, and (out of the prover's reach) liveness under fairness, that of the agent
included.  An induction theorem with an operator as its parameter cannot be instantiated, but
induction as a fact about sets of numbers can (`SetInduction`), and it proves that a recursive
*function* over positions or ids exists, is unique, and what it computes (`RecursionExists`,
`RecursionUnique` and the `Climb...` lemmas of `SelectionProofs`).  `Only`, `Path` and the operators of
`SessionManager` that read a file, walk a branch or replay labels are written that way.  What
`SelectSeq` and the folds of the community modules compute stays opaque to the provers, and a module
with RECURSIVE operators is closed to them: so `Messages` (in `BranchedKeepsConversation`), the
transcripts of `AgentSession` and the buffer of `StdinBuffer` are left to TLC.

## Not modelled

* *Molian.* A sequential pipeline over HTTP sources: its arithmetic and partial failures are the
  matter of ordinary tests, and it shares no state with the agent but the session it runs in.
* *Extensions*: their effect is on the callers of AgentSession and of the session runtime, where a
  hook may throw, cancel, handle a prompt or replace the session; how they are loaded is left out.
* *Interactive mode, TUI, print mode, export*: presentation of the operations modelled here.
* *Providers, OAuth flows, stream proxy, generated model tables*: formats and protocols of outside
  services; only how a request can end is modelled.
* *Other tools, resources, packages*: file and process I/O; a tool is something that settles.
* Within the modelled parts: see the notes of the components in `PROJECT.json`.

## Plan

1. *Agent run loop* with its abstract specification - modelled, checked, theorems proved.
2. *SessionManager* - modelled, checked, proved, crashes and a refused write included.  To add: a
   proof of `BranchedKeepsConversation`, the migration of older formats.
3. *AgentSession* with compaction - modelled and checked.  To add: custom messages and tree
   navigation; a composition with the file of `SessionManager`.
4. *AgentHarness* over an asynchronous session - modelled, checked, invariants proved.
   To add: an abstract specification of pending writes, labels, forks.
5. *Shared files* - modelled, checked, proved.
6. *Chunked streams* - modelled and checked.  To add: `clear()` of the input buffer, a paste without an end.
7. *Session runtime, RPC mode and client* - modelled, checked, proved.  To add: extension UI requests,
   the interactive mode as another host, replacements against the runs of `AgentSession`.
8. Proofs: the invariants of `AgentSession` that do not speak of a path.
