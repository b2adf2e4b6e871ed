# TLA+ models of the ASIC-SOC host agent

ASIC-SOC watches a Linux host with five eBPF tracepoint programs, evaluates what
they report against a rule file, correlates some of it over time, and writes
findings to the console and to a JSONL spool that a separate tool forwards.  This
directory models the parts of it that keep state or take decisions, checks them
with TLC on small instances, and proves with TLAPS, for every instance, all the
safety properties those runs check.  Paths below are relative to the
repository root.

## The system

| Component | State it keeps | Operations | Module |
|---|---|---|---|
| Sensor, `dev/sensors/asic_sensor.bpf.c` | the BPF ring buffer `rb` | `trace_execve`, `trace_mprotect`, `trace_mmap`, `trace_openat`, `trace_connect`: reserve, stamp, submit | `EventPipeline` |
| Dispatch, `handle_event` in `dev/host/asic_main.c` | none of its own | order of enrichment, flow update, evaluation, counting, suppression, emission | `EventPipeline` (up to the finding), `HostAgent` (from there on) |
| `/proc` enrichment, `enrich_process` | none: reads `/proc` at handling time | parent and grandparent, terminal, idle time | `EventPipeline` |
| Flow table | `flow_state[256]`, `flow_state_cursor` | `flow_state_get`, `flow_state_observe_event`, `flow_state_observe_sensitive_read`, `flow_state_lookup` | `FlowTable`, `FlowState` |
| Rule evaluation | `rules`, fixed after start | `evaluate_event`, `evaluate_connect_flow`, rule controls, profile defaults | `Detection`, `RuleEvaluation` |
| Duplicate cache | `dedup_cache[128]`, `dedup_cursor` | `suppress_duplicate`, `emit_dedup_entry`, `flush_dedup_cache` | `DedupCache`, `AlertLedger` |
| JSONL spool | a file others read, rotate and copy | `write_jsonl` | writer actions of `QihseForwarder`; order of records in `HostAgent` |
| Replay contract, `tools/asic_jsonl_replay.py` | none | `validate_line` | `JsonlContract` |
| QIHSE forwarder, `tools/asic_qihse_forwarder.py` | checkpoint and quarantine files | load, validate, quarantine or emit, checkpoint | `QihseForwarder` |
| Destination classification | none | `classify_net_destination` | `NetClassify` |
| Configuration loading | `rules` and its lists, `config_hash` | `init_default_rules`, `apply_profile`, `load_rules_file`, list helpers, `compute_config_hash` | `RuleConfig`, `AgentSession` |
| Lifecycle, `main` | the `stop` flag, links, ring | start-up, poll loop, shutdown, restart by systemd | `AgentSession` |
| Telemetry, `dev/host/asic_telemetry.c` | counters and two rings of `g_telemetry` | `add_alert`, `add_traffic` | `HostAgent` |
| Agent identity, console output, packaging, tests | identity | formatting and I/O | left out, see the end |

**How they interact.**  A traced system call reserves a record in the ring on the
CPU it runs on; the host's single thread takes records in ring order and calls
`handle_event`.  That reads `/proc`, keyed by the pid in the record, refreshes the
flow table entry of the process tree (an exec or a connect before evaluation, a
sensitive read after it), evaluates the event, hands the finding to the duplicate
cache and prints what is not suppressed.  Leaving the poll loop flushes the cache.
The forwarder shares nothing with the agent but the spool, which logrotate
empties in place (`packaging/logrotate/asic-edr`).  The configuration file is read
three times while the daemon starts: for the profile, for the rules, and, opened
anew, for the hash every record carries.  An administrator may rewrite or replace
it at any of those moments; a signal ends the loop, and systemd starts the daemon
again, with whatever the file says by then.

**What makes it hard.**
- Several CPUs fill one ring, and a record is stamped after its place was
  reserved: timestamps come out of order, and both tables compute ages with them.
- `/proc` is read when the record is handled, not when the call was made; by then
  the process may be gone.
- Both tables are small arrays with round-robin replacement: entries disappear
  for reasons that have nothing to do with their key.
- `repeat_count` has 32 bits and ages are unsigned differences.
- Severity comes from a rule's line, the profile, the allowlist and an override,
  over rule lists that overlap and may be disabled one by one.
- Rules are the outcome of a sequence of lines that add, remove, disable and
  override, over fixed-size arrays, on top of a profile named anywhere in the file.
- The daemon's reads of `/proc` are system calls its own sensor reports.
- Agent and forwarder can be killed between any two writes; the forwarder reads a
  file that is being appended to, and its output is buffered.

**What makes each part correct**, in one line each: every finding is shown,
summarised or still counted (duplicate cache); an entry tells the truth about one
process tree and a read is not forgotten early (flow table); controls change
exactly what they say (rule evaluation); every call is accounted for and blamed
on kin only (pipeline); every handled finding worth a record stands in exactly one
(agent); the last line about a value decides, a stricter profile is no milder on any
event but those it says it drops, and a label names the rules in force (configuration); a
stop signal ends the daemon and costs no record the poll could reach (lifecycle); the
checkpoint never runs ahead of what left, and records leave in order (forwarder).  `PROJECT.json` lists the hazards line by line.

## The modules

**`DedupCache`** is `suppress_duplicate` split by outcome: `Suppress` (a repeat in
the window is counted), `Expire` (a repeat after the window closes the run; the
code returns without caching the new finding), `Insert` (the slot under the cursor
is taken over, its count reported first).  `Stop` and `FlushEntry` are the end of
`main` and one iteration of `flush_dedup_cache`; `Kill` may come anywhere.  A key
stands for the twelve fields `same_dedup_key` compares; the destination address,
which it does not compare, is kept apart.  `seen`, `shown`, `summed`, `summaries`,
`lost`, `lastTs`, `raised` and `told` are history.  `Elapsed` and `Bump` wrap as
the unsigned fields do, at `TsModulus` and `RepeatModulus`.

**`AlertLedger`** is what the cache promises its readers, without slots, window or
time: a finding is shown or swallowed into an open run, and a closed run's count is
reported whole.  `DedupCache!ImplementsLedger` maps an active entry to an open run;
**`DedupCacheProofs`** proves it, and everything else the run checks.

**`FlowTable`** holds the table operations as operators: expiry while scanning, the
first match, the first free slot, the slot under the cursor.  A scan clears the
expired entries it passes and stops at a match, which `Swept` keeps.
**`FlowState`** runs them: `Exec`, `SensitiveRead`, `Connect` and `TransferConnect`
are the flow part of one `handle_event` each; `lastAt`, `readAt`, `shells`,
`displaced` and `overtaken` are history.  The workload, chosen in `Init`, says how
many trees send events, how long, and how far a timestamp may lie behind the newest.
**`FlowTableProofs`** has the lemmas about the operations, which **`FlowStateProofs`**
and `HostAgentProofs` both use.

**`NetClassify`** translates `classify_net_destination` byte by byte and states the
same answer from the ranges of the address registries, as intervals on the first
sixteen bits; `ScopeByRange` compares the two on both sides of every boundary.

**`Detection`** translates `evaluate_event` and `evaluate_connect_flow` as
functions of policy, event, process context and flow entry.  Names are abstract: a
rule is the set of values it hits.  Rule lists are scanned from the end past
disabled entries (`LastAllowed`).  `IsPolicy` and `IsEvent` say what a loaded policy
and a traced event are; `RulesOf` names the rules an event can raise.  **`RuleEvaluation`** evaluates one event after
the other under any of a set of policies; its properties compare the finding with
the one the same event would have raised under another policy.  The plain
observation is no rule, so `ControlsAreExact` leaves its id out, which a line of the
file may use.  `AllowlistActsAsOverride` says how much the allowlist is: as much as an
override to info of the two flows of `PresenceFlows`, under the overrides of the file.
`FlowSoftensKnowingly` names the cases in which a flow may stand for a more severe port
rule, as a flow finding of any severity ends the evaluation of a connect.  `WriteNeverSoftens` asks that a path's write rules be as severe as its
read rules.  **`DetectionProofs`** has the lemmas about the operators,
**`RuleEvaluationProofs`** those about pairs of evaluations, and about addresses.

**`EventPipeline`** composes `FlowTable` and `Detection` with the sensor, the ring
and `/proc`: `Enter` reserves or drops, `Submit` stamps and submits, `Exit` makes a
process invisible to `/proc` and hands its children to init, `Poll` is one call of
`handle_event` up to the finding.  Stamping and submitting are one step, since
nobody can read the record in between, and so are the reads of `/proc` for one event.
A finding is `Blamed` on a read if it is the flow's and has a score, since a line of the
file may give a rule of its own the flow's id.  `ReadThenConnectCaught` asks for what
the code needs: records in timestamp order and a table with room for the roots so far.

**`HostAgent`** is the whole agent: `EventPipeline` up to the finding, an instance of
`DedupCache` whose keys are those findings (`FindingKey` is what `same_dedup_key`
compares, with a root only for a finding that has a flow's id and a score; `FindingKeys`
all that the calls can raise), the emission test, the rings and counters of `g_telemetry`, and the
output.  `Handle` is one `handle_event`, `StopLoop` the loop seeing the flag, whatever was
submitted since the poll returned,
`Flush` one iteration of `flush_dedup_cache`; `Traced` is what the sensor and the
processes do meanwhile.  `printed` and `handled` are the two ends the properties
compare: `Told` is what the records stand for, one by one, against the findings handled
that are `Worth` a record; `Holds` says of a telemetry ring that the records nearest the
end are at the places before its head.  **`HostAgentProofs`** proves of the composition
what it adds and what it inherits.  What other processes do after the loop was left reaches no output and is
left out; kills are `DedupCache`'s.

**`RuleConfig`** turns a text into rules: defaults, profile, then line by line the
list helpers and controls, and at the end the check of the rule ids.  A text is its
lines without blanks and comments, a line its key and the parts between commas; what
a value matches, what a list keeps of a value too long for it, and which parts are
numbers are constants.  `Those` and `AfterLines` are the loops, written as recursive
functions: one walks a list and keeps some of its entries, the other walks the text.
`Policy` is the view `Detection` takes of the result, so the evaluation in
`AgentSession` runs on rules that were loaded.

**`AgentSession`** is `main`.  `ReadProfile` and `ReadRules` are the two passes over
one stream, `HashConfig` opens the path again; `EditInPlace` changes what an open
stream yields, `Replace` does not.  `Attach` stands for loading and attaching the
sensor and the policy summary, `AttachFails` for a failure of any of these steps.
`TestStop`, `Wake`, `Handle`, `PollReturns` and `TimeOut` are the loop, with the
wait apart from the test of the flag.  `Signal` ends the process before the handlers
are installed and sets `stop` afterwards; `Kill` comes any time, `Start` whenever
the daemon is down.  `Reserve` and `Submit` are a traced call on another CPU, so that records may be
submitted behind one that is not (`HeadBusy`), where a poll ends; a record is `ready` once
it is submitted and the poll told of it.  `read`, `changes` and the `due` mark of a record
(the poll could reach it when a signal came) are history.  `ProfilesRank` runs the second
pass over the text read from where each profile starts it and compares, profile against
profile, what every event of `Situations` is reported as.
`Means` is the value a line is about, as the list stores it; a line that removes is
about the value it spells out, however long.  **`AgentSessionProofs`** has the laws of
the loops, what each line does to each list, and the proofs of everything the run checks
but `StopHonoured`.

**`JsonlContract`** says which lines the validator accepts: how far a line parses,
the type its `record` field names, and which faults count for that type.  A line whose
`record` field is a list or an object raises instead (`asic_jsonl_replay.py:168`), as does
one that nests too deeply or holds too long a number.
**`QihseForwarder`** has the writer (`WriteRecord`; `BeginRecord` and `FinishRecord`
when a record does not fit the stdio buffer; `WriterKilled`; `Rotate`) and every
step of a forwarder run: `Start` is `load_checkpoint`, `ReadSpool` one
`validate_file` to the end of the file, `SpoolMissing` and `ReadFails` one that an
`OSError` ends before the first line or after some (`FileError`), `LineRaises` one that
raises something else, which ends the run; then `Quarantine`, or `EmitBatch` until all is printed,
`TruncateCheckpoint` and `DumpCheckpoint` (the two halves of `write_checkpoint`),
`Exit`, which writes out the buffer of stdout.  `CheckpointFails` is an `OSError` in
either half, `ForwarderKilled` a kill anywhere.  `InOrder` picks the listing of a set
of lines in the order of the file.  `LeavesInOrder` binds every run without `--resume`,
and a resumed one where `CheckpointCovers` applies, whose checkpoint it trusts.
**`ForwarderProofs`** proves the four safety properties.  The setting, chosen in `Init`, is the
command line (`resume`, `strict`, batch size, spools named that cannot be read), the
buffering of stdout, and the bounds.

**`MC*`** give the constants values for TLC.  Each component module has, under
"Slips", variants of its helpers with a plausible mistake; `PROJECT.json` pairs each
property with a slip that breaks it.

## What the runs show

| Run | Question | Bounds |
|---|---|---|
| `Dedup` | is every finding accounted for, is a suppression justified, does the cache implement `AlertLedger`? | 3 keys for 2 slots, 3 findings per key, window 2 over timestamps 0..2, lateness 1, counter modulus 2 |
| `FlowTakeover` | does an entry stay unique and truthful, is a read remembered, does the lookup find its own entry, does silence forget? | window 1, 2 entries; 3 trees over timestamps 0..2 in order, or 2 trees over 0..3 with lateness 1 |
| `DetectFindings` | what may disabling, overriding and allowlisting change, when may a flow soften a port rule; are address ranges right? | each pair of 768 policies and the situations, with addresses at every range boundary |
| `Pipeline` | is every call handled once, in order, or counted out; are correlations between kin; does every finding reach the output once; does the telemetry agree; does the ring drain? | 5 processes of one login, 2 of them mortal, 4 calls, a ring of 2, 2 flow entries, 2 cache entries, rings of 2 alerts and 3 records, with and without `--all-events`, stopped at any time |
| `AgentSession` | does the last line decide, does the place of the profile matter, do the profiles rank, what does disabling twice do; does a replaced file mix; is the label true; what does a stop cost, and is it honoured? | all texts of one or two out of 44 lines and all of three out of 11, loaded, under each profile, and asked about 36 situations; 3 texts rewritten up to twice over two starts; 4 texts, with and without `--all-events`, stopped under up to 3 calls and a ring of 2 |
| `ForwardResume` | does the checkpoint run ahead, do records leave in order, are duplicates bounded, do records leave? | resumed runs, with 2 faults on 1 spool of 3 lines from 2 kinds or of 2 lines from 4 kinds, with 1 fault beside a spool that cannot be read; or 2 runs from the start on 2 spools with 3 lines in all, 1 fault, 1 rotation, buffered output |
| `DedupRepeatInWindow`, `DedupDestinations`, `DetectShellPriority`, `PipelineExitRace`, `ForwardTornCheckpoint`, `SessionLabels` | does the code do what the repository says? Each run ends in a counterexample | as small as the counterexample allows |

**Why the bounds are enough.**  The arrays are treated uniformly by the code, so two
slots with three competing keys show takeover, re-insertion into another slot and
a cursor that wraps; a counter with modulus 2 wraps at the third finding.  A window
of one or two time units over a range one unit longer has events inside, at and
beyond the boundary.  The ring of two fills with three callers.  Three lines with
batches of two make a run of more than one batch, and two faults let a kill hit the
retry of a kill.  The policies are those whose controls touch the rules the
situations can hit; the evaluation is a function, so nothing accumulates over steps.
The texts of `AgentSession` hold every key in both directions, every kind of bad
line, and, for the lines that work on one value, every order of three; `MAX_RULES` is
12, one above the longest default list, so that the second line that adds to it is
one too many.  Two edits over two starts rewrite the file between any two of its
three reads and still leave a session with the other text to compare with.  With four
findings for two cache entries and records submitted out of order, a finding of the
login is suppressed, evicted, summarised and flushed.

**Deadlock.**  All runs but the two of `RuleEvaluation` switch the deadlock check
off: the host stops when told to, and findings, timestamps, calls, lines, starts and
edits are bounded.

### Fairness

- `HostAgent`: a tracepoint program runs to its end once it has reserved (weak
  fairness on `Submit` of each process), and the poll loop keeps taking records while
  it runs (weak fairness on taking the oldest one; `handle_event` always returns).
  Nothing forces a process to call or to exit, or the agent to stop.
- `AgentSession`: once the handlers are installed `main` runs on, so each of its steps
  is weakly fair from `Attach` to `Leave`: the poll of 250 ms times out (`TimeOut`),
  and a poll that finds records ends when it finds none to hand out (`PollReturns`).  Other
  processes make only finitely many calls while the daemon stops; without that
  the poll need not return.  Starts, signals, kills, edits and calls are not fair, nor is
the submission of what a call has reserved: the loop does not depend on it.
- `QihseForwarder`: each step of a running forwarder (`Reading` is the pass over a spool,
  however it ends), `FinishRecord`, and `Start`, because the tool is meant to be run again and again.  Writer, rotation, kills and
  failures are not fair.  No fairness is assumed of anything that needs luck; an
  unreadable checkpoint disables `Start` for good.

### Where the code and the repository's words differ

Each has a run that ends in a counterexample.
1. `config/rules.conf:13`: "Suppress identical repeated findings within this many
   seconds."  After an expiry (`asic_main.c:2403`) the finding is emitted and not
   cached, so its next repeat, however soon, is emitted too.
2. The same line: `same_dedup_key` leaves out the address, so a connect to another
   address within the window appears in no record, at exit included.
3. `README.md:247`: the allowlist leaves shell-downloader flows their priority.  An
   idle user's allowlisted tool returns as the idle flow first (`asic_main.c:2030`).
4. `plan/architecture/BEHAVIORAL_FLOWS.md:35`: "sensitive file read in the same
   process tree".  A reader that exits before its record is handled is filed under
   its own pid (`asic_main.c:1820`), where its sibling's transfer does not find it.
5. `plan/architecture/QIHSE_INTEGRATION.md:102`: "checkpoint offsets durably".
   `write_checkpoint` empties the file before it writes it
   (`asic_qihse_forwarder.py:119`); a kill in between leaves one that
   `load_checkpoint` refuses in every later run.
6. `README.md:150`: "deterministic hash of the active config file".  The rules come
   from one open of the file and the hash from a later one (`asic_main.c:2563`); a
   rewrite in between labels records with the hash of a text their rules do not come
   from, and a later session carries the same hash with other rules.

Others were met while modelling, follow from the modelled code, and have no run of
their own:
- `README.md:247` and `BEHAVIORAL_FLOWS.md:71` say that the allowlist lowers only the
  no-TTY flow; the code lowers the idle flow as well (`asic_main.c:2032`).
  `AllowlistActsAsOverride` states what it does, for both;
- a flow finding of any severity ends the evaluation of a connect, so a port rule gives
  way to a flow that is less severe (`asic_main.c:2181`); `FlowSoftensKnowingly` says when;
- a late timestamp expires a live flow entry (`asic_main.c:1893`), so a transfer
  within the window of a read may go uncorrelated; `ReadRemembered` excepts it;
- every event refreshes the window (`asic_main.c:1931`) while the read has no time of
  its own, so a correlated read may be older than the window;
- parent and child have different flow roots, the root being the grandparent;
- a tool whose process is gone counts as having no terminal;
- an `O_RDWR` open on both lists is reported by its write rule and does not mark the
  tree as having read;
- with buffered output a kill after `write_checkpoint` loses records the checkpoint
  covers, and after a rotation the line count covers lines of a file that is gone:
  this is why `CheckpointCovers` is checked with unbuffered output and no rotation,
  and not claimed otherwise;
- `min_severity=info` emits no info finding, the emission test asking for more than
  info besides (`asic_main.c:2484`);
- a value too long for its list is cut when it is added and compared whole when it is
  to be removed, so it cannot be disabled (`asic_main.c:314`); `LastLineDecides` states
  it, a disable line being about the value it spells out;
- disabling a port that is not listed, or disabling it twice, rejects the configuration
  (`asic_main.c:358`), which no other disable key does; `DisablingTwice` states it;
- under `--all-events`, or with a rule that matches its own reads of `/proc`, the daemon
  feeds itself and a poll need not return, so a stop signal may never be seen;
  `StopHonoured` excepts this by `SelfFeeding`;
- a record submitted behind one that is still being filled is lost when the daemon stops,
  and so is one that comes between the end of the poll and the test of the flag
  (`asic_main.c:2636`); `StopDrainsTheRing` is about the others;
- a spool that is missing or cannot be read refuses every run, the records of the others
  with it (`asic_qihse_forwarder.py:215`), and a line whose `record` field is a list or an
  object ends every run with an exception nobody catches and no report
  (`asic_jsonl_replay.py:168`); `EventuallyForwarded` excepts both by `Stuck`;
- one refused line that stays in the spool stops all forwarding, where
  `QIHSE_INTEGRATION.md:115` says "quarantine rejected batch and continue";
  `EventuallyForwarded` excepts that case by `Stuck`.

## What is proved

Every theorem holds for all values of the constants that satisfy the named
assumptions of its component; TLC evaluates those on every run.  Sizes, windows,
moduli and numbers of processes, trees, keys, lines, faults and so on are arbitrary
there, and so are the bounds `MaxTs`, `MaxSeen`, `Skew`, `MaxCalls`, `MaxLines`, which
only keep TLC's instances finite.

| Component | Theorems | Properties |
|---|---|---|
| `DedupCacheProofs` | `TypeCorrect`, `UniqueEntries`, `NothingVanishes`, `SummariesBounded`, `WindowFromLatest`, `FlushReportsAll` | `TypeOK`, `OneEntryPerKey`, `Conservation`, `SummaryPerAlert`, `EntryIsLatest`, `NothingPendingAtExit` |
| | `SuppressionJustified`, `CacheKeepsLedger` | `SuppressedOnlyInWindow`; the refinement `ImplementsLedger` |
| `FlowStateProofs` | `TypeCorrect`, `UniqueFlows`, `EntriesTrue`, `ReadsRemembered`, `SilenceBreaksFlow` | `TypeOK`, `OneEntryPerRoot`, `EntryIsTrue`, `ReadRemembered`; the action property `SilenceForgets` |
| `RuleEvaluationProofs` | `TypeCorrect`, `ControlsExact`, `AllowlistIsOverride`, `PortsSoftenedByChoice`, `ReadContextFirst`, `WriteAsSevere`, `ScopeCorrect` | `TypeOK`, `ControlsAreExact`, `AllowlistActsAsOverride`, `FlowSoftensKnowingly`, `ReadContextWins`, `WriteNeverSoftens`, `ScopeByRange` |
| `HostAgentProofs` | `TypeCorrect`, `CallsAccounted`, `BlameIsOfKin`, `TransferIsCaught`, `NothingGoesUntold`, `TelemetryTrue` | `AgentTypeOK`, `EveryCallAccounted`, `CorrelatedAreKin`, `ReadThenConnectCaught`, `NothingUntold`, `TelemetryAgrees` |
| | `AgentIsPipeline`, `AgentUsesCache` | `AgentSpec => Spec` of `EventPipeline`; its cache takes only steps of `DedupCache` |
| `ForwarderProofs` | `TypeCorrect`, `CheckpointTrue`, `OrderKept`, `RetriesCounted` | `TypeOK`, `CheckpointCovers`, `LeavesInOrder`, `RetriesBounded` |
| `AgentSessionProofs` | `TypeCorrect`, `LastLineWins`, `ProfileFirst`, `DisabledTwice` | `TypeOK`, `LastLineDecides`, `ProfileBeforeLines`, `DisablingTwice` |
| | `ProfilesInOrder`, `ReplacedIsReadWhole`, `StopCostsNothing` | `ProfilesRank`, `RenameNeverMixes`, `StopDrainsTheRing` |
| | `LoadedIsPolicy` | whatever was read, `IsPolicy(Policy(rules))` |

Each of these modules has a theorem `Invariant` (and `HostAgentProofs` a second one,
`AgentInvariant`) for the inductive invariant the others follow from; hardly any
property on the right is inductive by itself.

**The duplicate cache** (`DedupAssumption`: the array has a slot, the counter counts to
at least two, window and timestamps fit the unsigned type, a cleared entry's values
are no key and no address).  `Conservation` needs `OneEntryPerKey`: with two entries of
a key, clearing one would leave the other's count out of the sum.  It needs
`ActiveHasKey`, because a summary is booked under the key of its entry.
`NothingPendingAtExit` needs to know that the flush has been where its index says
(`FlushProgress`) and that a wrap forgets a whole modulus of repeats which an alert
preceded (`WrapAfterAlert`).  The step lemma has one lemma per action; `EmitAccounts`
is shared by the three that print a summary: whatever was pending in the slot moves to
`summed`.  The refinement `CacheKeepsLedger` maps an active entry to an open run of its
key; under the invariant, where that run is unique, `Suppress` maps to a swallowed
finding, `Expire` and `Insert` to closing runs and showing, `FlushEntry` to closing one,
everything else to a stutter.

**The flow table** (`FlowAssumption`, `WorkloadAssumption`: the table has an entry,
`NoRoot` is no root, bounds are naturals).  The invariant is the conjunction of the four
state properties.  `FlowTableProofs` says what a caller of `flow_state_get` finds
(`ObserveLeaves`: the entry handed out is the tree's own, or was free, expired or, in a
full table, the one under the cursor; all others stay or were cleared as expired) and
what a lookup answers just after (`LookupFinds`).  Uniqueness carries the rest: with two
entries of a tree the scan could refresh one and answer from the other.
`SilenceForgets` follows since an entry says when it was touched last.

**The evaluation** (`EvaluationAssumption`: policies and events have the form the loader
and the sensor give them; a process with a terminal is the interactive one).  The
invariant says that the finding at hand is that of the event under the policy, so the
theorems are facts about two evaluations of one event, got by following each path of
`evaluate_event` under both policies.  `LastPosition` and `ScanStops` give the scan of a
list without recursion: what disabling a rule that did not fire leaves of it.
`ScopeCorrect` turns the code's tests of bytes and masks into intervals of the 16-bit
prefix (`PrefixIsNumber`, `V4Ranges`, `V6Ranges`).  The proof attempt found two guards of
an earlier `MemFinding` overlapping, which TLC resolves silently by order; they are
disjoint now.

**The agent** (`PipelineAssumption`, `FlowAssumption`, `AgentAssumption`: init is pid 1,
has no parent and does not exit; a call carries its caller's pid; policy and calls have
their form; the values of a cleared cache entry are no key and no address).
The invariant of the first half, `IInv`, adds to what the run checks:
- each record in the ring is of a call and stamped with a time that is past; each one
  handled was filed under init or a pid at most two generations up, with a finding of a
  rule for its kind of event (`RingInv`, `HistoryInv`, `EvaluationRaises`);
- `Accounted` speaks of history and ring as one sequence, so that taking a record out
  of the ring and appending it to the history changes nothing (`PollKeeps`);
- each flag of the flow table stands for a read in the history (`FlagsAreTrue`), which
  makes `BlameIsTrue` inductive;
- as long as records came in order and the roots fit the table, each read inside the
  window has a live entry with its flag (`Remembered`), which makes `Caught` inductive.
  Room is a fact about sets: a full table holds as many roots as it has entries, so a
  new root would be one more than fit (`TableHasRoom`).

The second half is the invariant of `DedupCacheProofs`, instantiated (`Proved`), and
`Agreed`.  `SameSteps` and `CacheSteps` show that the agent's steps are steps of the
cache, so that its invariant need not be proved again.  `Agreed` has a balance for each
key (`Balanced`): what the records stand for is what the cache has shown and summed up,
and the findings due are those the cache has seen; with `--all-events` the cache is
empty and both are the same.  With `NothingPends` the balance closes at exit, which is
`NothingUntold`.  Findings and records are compared as finite sets, `Told` being a set of
pairs, so no sum over a sequence is needed.  The rings are covered by `InRing`: the record
with `d` written after it is `d + 1` places before the head, which one more write
turns by one place (`RingTurns`), whatever the size.  That alerts do not outnumber
suspicious events needs the summaries still owed by the cache (`Summaries`): each is of
a suspicious event counted earlier.

**The forwarder** (`ForwarderAssumption`: at least one spool, no spool listed twice, a
setting within its bounds).  A run's state speaks of the spools as they were when it read
them, and the daemon and logrotate go on meanwhile.  The invariant therefore ties the
accepted records to the lines they came from unless the spool was rotated since
(`AcceptedInv`), says that nothing was left out between the checkpoint and the count
(`CompleteInv`), that no count runs ahead (`CountInv`), and that what was printed without
a buffer has left (`LeftInv`).  `CoverInv` states `CheckpointCovers` also of the counts
about to be written.  `RetryInv` has the bound for each stage of a run: a record not yet
covered has left at most as often as there were faults, and only leaving again in this
run spends the one that is left.  `InOrderLists` shows that `InOrder` finds a listing
of any set of lines, by a minimal counterexample (`AllListed`).

**The session** (`SessionAssumption`, `RuleConfigAssumption`: edits lead from texts to
texts, a text is missing or a sequence of lines of strings, the events profiles are
compared on have the form of events, the ring has a slot, the rule of no finding has a character no rule id may have; the compiled lists fit
`MAX_RULES`, their values are not cut and their ports are ports).  The invariant has five parts.  `ReadInv` follows the file through the three
opens: only an edit in place parts what was read from what the open stream yields.
`DueInv` says that a record within the poll's reach when a signal came is in the ring only
while the daemon polls, and stays within reach, every record before it being submitted,
`PhaseInv` that ring and signal are there only while the sensor is or is being attached.
`FileInv` keeps every text one of those the administrator can write, and `LoadInv` ties
the rules in force to the texts they were read from: `LoadFrom` of the two, or the
compiled ones.  That is what the properties of the configuration need; the rest is about
`LoadFrom`, for texts and lists of every length:

- *Induction.*  A set of sequences that has the empty one and with a sequence its
  extensions by one element has them all (`SeqInduct`), from the well-founded order of
  lengths; the statement to be proved is a set, so no theorem with an operator
  parameter is needed.  It gives the laws of the two loops, `ThoseLaw` and `LastLine`:
  what one element more makes of the result.
- *One line.*  `LineDoes` says of each kind of line what it does to each list and to the
  overrides, or that it spoils the configuration (`LineEffect`); a line about one list
  leaves the others alone (`OneList`), and rules keep their type (`RulesType`), the bound
  of the lists included.
- *The last line.*  `Decided` says that the last line about a value decides, in the form
  an induction can carry: the entry of that line is the last with its value, or there is
  none with it.  One more line either is about the value and decides, or leaves what was
  decided (`DecidedStep`): a removal of another value shifts the entries behind it down
  and must keep their order (`LastRemoved`).  `TextLeaves` is the same induction for the
  values no line is about.
- *The profile.*  The first pass depends on the profile lines of a text only and the
  second on the others only (`FirstPassReads`, `SecondPassReads`), so texts that agree in
  both are loaded alike (`LoadedAlike`).
- *The ranks.*  `ProfileIs` says what each profile makes of the compiled rules.  Two
  profiles next to each other differ in the programs exempt from the memory rules, in the
  two shells, in a default severity and in the defaults of the flows (`StartsRank`), and a
  line applied to both keeps that relation, `Ranked` (`RankedStep`): it does the same to
  both lists, and removing the line's value and removing the shells can be done in either
  order (`RemovedEither`).  So the two loaded policies are related by `Stricter`
  (`RankedIsStricter`), the scan passing over entries that do not hit (`ScanRemoved`), and
  `StricterReports` of `DetectionProofs` compares what they make of one event, path by
  path.
- *Twice.*  A removal done again right away changes nothing (`DisabledOnce`,
  `IdDisabledOnce`), or fails, for a port (`PortDisabledTwice`); a text is what stands
  before the line, the line, and what stands behind (`LineTwice`), so both texts leave
  the second part the same rules to work on.

`LoadedIsPolicy` joins the two halves of the configuration, as `ProfilesInOrder` does: the theorems about
`evaluate_event` assume a policy of a certain form, and every text, sound or not, leaves
rules of that form.

Two properties changed when they were to be proved.  `LastLineDecides` compared values as
a line spells them and excepted long ones; but a long value can be cut to one that
another line is about, and then that exception does not cover the second line.  It now
compares values as they are stored, excepts nothing and says in addition that the entries
no line is about keep their number and order.  `DisablingTwice` had two overlapping cases
which TLC resolves by their order; they are disjoint now.

**Only model-checked**, and why:
- liveness: `RingDrains`, `StopHonoured`, `EventuallyForwarded`; the
  proof system has no rules for fairness (`ENABLED`);
- the six runs that end in a counterexample.

## What is not modelled

- The process context of printed records, and with it the second read of `/proc` for
  a summary (`asic_main.c:2388`), which is a listed hazard without a model.
- Pattern matching of rules, the path and name parsing, JSON escaping, layout.
- The idle sources and executable metadata of `enrich_process`; they are inputs of
  `Detection` and constants in the models above it.
- In loading: lines longer than the 512 bytes of `fgets`, files longer than the buffer
  of the stream (a pass is one step), different texts with one hash.
- In `main`: argument parsing, `--check-config`, opening the output.  Loading and
  attaching the sensor are one step, and the opens of one `enrich_process` are one
  record there.  systemd's limit on restarts in a short time.
- Reuse of pids.
- Two forwarders at once, and a spool list that changes between runs.
- `update_telemetry_stats` is I/O.  Agent identity and the policy summary do not
  change after start.  Build, installation and packaging are scripts.

## Plan

Done, in the order of importance: the duplicate cache with its ledger; the flow table;
the evaluation; the pipeline that composes the two; the forwarder; the address classes;
the configuration and the session around it; the whole agent; and the proofs above.

Next:
1. `SameHashSameRules`, which `SessionLabels` refutes, for a file nobody touches while
   the daemon starts.
2. The process context of printed records, with pids that are reused.
3. Runs for the differences above that have none.
