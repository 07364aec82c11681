# agent-term in TLA+

A verification project for `agent-term`, a command line tool that keeps child
processes running in the background under one small daemon each. Source paths
are relative to the crate (`src/daemon.rs` and so on); documents are
`skill-data/core/SKILL.md` and those in `references/` beside it.

## The system

Every `spawn` starts a daemon process for an *id*. The daemon runs the child on
a PTY, appends its output to a rotating log and serves a Unix socket. All other
commands are short-lived processes. They share nothing with the daemon but the
socket and the files of the state directory: `<id>.sock`, `.pid`, `.version`,
`.cmd`, `.meta` (the sidecars), `<id>.log`, `<id>.log.1`, ... and
`recent.jsonl`. Nothing locks the directory.

| Component | Source | State | Operations | Modules |
|---|---|---|---|---|
| rotating log | `pty.rs` 46-276 | open handle, `written`, the numbered files | open, append, rotate | `LogWriter`, `RollingLog`, `LogRefinement`, `LogWriterProofs` |
| daemon | `daemon.rs`, `main.rs` | shared child state, linger deadline, close permit, idle timer, cleanup guard | startup, select loop, requests `status`, `signal`, `close`, signals, guard | `Daemon`, `DaemonProofs` |
| spawn and upgrade | `client.rs` | progress of one CLI process | `ensure_daemon`, `kill_stale_daemon`, `send_request` | `StateDir`, `StateDirProofs`; `Daemon` (requests) |
| sweepers | `state.rs`, `cli.rs` 620-765, `doctor.rs` | sidecars and log of an id, rows of `list` | `list` with its status requests, `doctor --fix` with orphans and old logs | `StateDir`, `StateDirProofs` |
| names | `cli.rs` 499-517, `meta.rs` | `.pid` and `.meta` of all ids | uniqueness check of `spawn --name`, `kill` | `Names`, `NamesProofs` |
| log readers | `tail.rs`, `wait.rs`, `summary.rs` | open file, offset, cursor | `tail --json --cursor`, `tail --follow`, `wait`, `summary` | `LogReaders`, `LogReadersProofs` |
| bounded reads, grep, slice | `tail.rs` 211-898, `grep.rs`, `slice.rs`, `wait.rs` 167-272, `summary.rs` 292-325 | none, functions of the file | seeks, head, reverse, envelopes, windows, hits, blocks, matching, recent window | `LogText`, `LogTextLemmas`, `LogTextProofs` |
| timestamps, escapes | `pty.rs` 8-46, 126-158, 279-348 | line start, chunk, stripper state | stamp, parse, strip | `TimedLog`, `TimedLogProofs`, `LogText` |
| command line, ids, wire format, skills | `cli.rs`, `ids.rs`, `ipc.rs`, `skills.rs` | none | parsing and printing | not modelled: no state of their own |

What is hard about it:

* threads and tasks inside the daemon: the PTY reader thread, the thread that
  waits for the child, one task per connection, and a `select!` whose ready arms
  are served in any order;
* processes that meet on files: a file operation of one comes between any two of
  another;
* failure: system calls of the rotation and of the startup fail, daemons die of
  SIGKILL between two steps, signals get lost, clients hang up;
* identity: a file renamed under a reader, a pid that belongs to somebody else
  by now, an offset into a file that has been replaced.

`PROJECT.json` lists under `hazards` where each of these bites.

## Modules

### LogWriter, RollingLog, LogRefinement, LogWriterProofs

`LogWriter` is the writer of `pty.rs` at the level of its system calls. A file
is the interval of stream bytes it holds (`lo`, `hi`), slot 0 is `.log` and slot
k is `.log.k`. `BeginWrite` is a call of `write_raw`; `WritePiece`, `NoRoom` and
`AfterPiece` are its loop; `DropOldest`, `Rename` (once per name), `Reopen` are
`rotate`. Each call that can fail has an action of its own (`WriteFails`,
`DropFails`, `ShiftFails`, `MoveFails`, `ReopenFails`) that follows the code's
`?` or its `let _ =`. `Crash` is the death of the daemon, `OpenWith` the next
one. `silent`, `torn`, `gap`, `evicted` are history variables: bytes skipped by
a call that returned Ok, bytes of a failed write, failed renames, the last byte
given up. `RollingLog` is what a log reader is promised without failures: a
stream of which one suffix is kept, never shorter than the capacity; after a
failure it promises only that the stream moves forward. `LogRefinement` maps the
files to it.

### Daemon, DaemonProofs

One daemon process. `pc` is the main task: the startup steps of `run_daemon` and
`run_main_loop`, `select`, `grace` (the 200 ms between SIGTERM and SIGKILL),
`drop` (the guard). The runtime has one thread, so tasks run between the main
task's awaits; the waiter thread, the child, the clients and signals interleave
freely. Channels and `Notify` keep what they hold while another arm is served;
the signal receivers are created in every iteration and lose it (`sig`). Time is
abstract: an armed timer may fire. A write to a client that is gone fails, or
raises SIGPIPE, which `main.rs` sets to its default: both are possible. Where
`wait()` fails although the child is gone, `SendExit` sends no code, which
counts as one of the failing calls. Whether there is an idle timeout is chosen
at the start (`idleOn`). The `summary` request reads counters that nothing else
here depends on; it is in `LogReaders`.

### StateDir, StateDirProofs

The sidecars of one id as variables that say whose file it is, and every
process that touches them: spawners with `ensure_daemon` and
`kill_stale_daemon`, the daemons they start (only their file operations), an
`Old` daemon that may be there before, `list` and `doctor --fix`. Each file
operation and each probe of a process is a step, those of the sweeps included:
`ReadPidFile`, `ProbePid`, then `LoadMeta` of a list or `LoadOrphan` and
`ProbeChild` of doctor, then `CheckSock`, `CheckMeta` and `CheckLog`, each of
which tests `.pid` anew, with `LoadOrphan` and `ProbeChild` once more behind a
lone `.meta`. The listing of the directory is one step (`Scan`): one system call
reads the names of a directory of this size. `.pid` is created and filled in two
steps. `.cmd` is left out, nothing reads it; the content of `.version` is one
step since an empty file and none are the same to its only reader.

Each call in a daemon's start can fail (`faults`): up to the write of `.cmd`
without a guard, so the process exits and leaves what it wrote
(`FailsUnguarded`), afterwards under the guard (`FailsGuarded`), which removes
the sidecars while the child it may have started only gets the SIGHUP of the PTY
(`HangUp`, which it may trap). A spawn that polls learns of it from the exit
(`DaemonDied`), or was served before (`Started`). That an ended daemon is a
process until its spawn reaps it is left out. `.log` is the set of daemons that write or
wrote to it: what matters is whether one of them still has a log under its name
after `doctor` collected the old ones (`RemoveLog`; the age of a log is a free
choice). `list` builds its row in `LoadMeta`, where a daemon
without `.meta` gets a makeshift row, drops it in `EndSweep` if it is of no
project, and asks for the state after its walk (`QueryState`). Timeouts are
nondeterministic, except that a spawn gives up polling only when its daemon can
no longer be reached. `Scenarios` says how the old daemon may be found and which
processes take part; each behaviour is one of them (`sc`).

### Names, NamesProofs

`spawn --name` over many ids: the walk of `list_active_metas` entry by entry and
file by file (`Begin`, `ReadPid`, `CheckAlive`, `LoadMeta`), the refusal, the
fork, and the return as soon as the socket answers. The daemons it looks at
start, fail, close and die meanwhile; `kill` returns with the answer to its
request. A daemon is reduced to what the walk can see of it: `.sock` before
`.pid`, `.pid` before the child, `.meta` last, removed by the guard in the order
of `SUFFIXES`. A name of the model is a project and a name in it.

### LogReaders, LogReadersProofs

The log as the list of files that were ever `.log`, each with the lines it
holds; a file keeps its content for whoever has it open. Four readers run
against it: a loop of `tail --json --cursor` calls, each open, length and read a
step; a `tail --follow`; a `wait`; a `summary` with its two requests, the check
for the log, the length and the scan. They do not act on each other, so each
behaviour has one. The line stands for the byte as the unit of offsets.

### LogText, LogTextLemmas, LogTextProofs

What the readers compute from the bytes of one file, as operators: the bounded
reads of `tail` in both of its forms (`Plain`, `Envelope`), the flag check
`Valid`, the time window and its caps, `slice`, `grep` from hits to blocks, the
two rounds of `wait` (what it drains, cleans and matches), the recent window of
`summary` (`ScanRecent`), and the escape stripper. A file is a sequence of named
bytes. The seeks and the head loop read in chunks as the code does; `Chunk`
stands for its 4096 and 8192. A regular expression is a substring. `MCLogText`
lets a file grow byte by byte and compares each operator with a reference
definition on these files: whole lines (`SplitLines`) for the byte offsets, a
grammar of escape sequences for the state machine, sets of lines for the merged
blocks, the plain form for the JSON form.

### TimedLog, TimedLogProofs

The stamping writer, `write_all`, iteration by iteration (`Receive`, `Stamp`,
`Visit`, `Flush`), with a clock that ticks between them or is set back,
rotation of full files and restarts with or without `--timestamps`. `said` is
the history of what was stamped when; the windows of `LogText` read it back. The
child prints only text and newlines; a file is put away in the step that fills
it (`LogWriter` has the steps and failures of that).

### MC modules

`MCDaemon`, `MCStateDir`, `MCNames`, `MCLogReaders`, `MCLogText` and
`MCTimedLog` give the instances (that of the log is `LogRefinement`), the
properties of `LogText` and `TimedLog`, and statements of documents that the
code does not meet. Definitions marked "Mutant" are plausible bugs, each beside
the definition it would replace; no specification uses them. Every property is
violated by at least one.

## Runs

| Run | Question | Bounds | Result |
|---|---|---|---|
| `log` | order, completeness, size and progress of the log under failures; does it implement `RollingLog` | size 2, 3 segments, pieces up to 5 of 11 bytes, 2 faults, 2 restarts | holds |
| `daemon` | child, `status` and `recent.jsonl` agree on every way out, an exit that was reported stays; an answered close, the child's exit and the idle timer end the daemon | 2 clients, 1 failing call, 1 signal, reset channel of 1, with and without idle timeout | holds |
| `dir` | `Peace`: a serving daemon of the right version keeps everything and is listed; `Upgrade`: a lone spawn replaces one of another version, or fails with its start; `Race`: losers write nothing; `Orphans`: doctor kills no child of a serving daemon that had its `.pid` when doctor looked; `Failures`: a sweep that begins after a daemon died or failed to start frees the id; every spawn returns | 1 or 2 spawns, list, doctor, 1 crash, 1 close, 1 failing call of a start | holds |
| `names` | the check of a name sees every daemon that serves throughout it and is not stopped by a dead one | 2 spawns, 2 names, an old daemon that may crash, 1 kill | holds |
| `readers` | `tail --follow` is in order, complete without rotation and ends; a cursor loop skips nothing before a rotation; `wait` finds what is there when it starts, and returns; the number and the cursor of a `summary` fit together | 7 lines, rotation every 3, 1 crash | holds |
| `text` | bounded reads, ranges, grep blocks, the matching of `wait` and the stripper against references; JSON against plain | all files of up to 5 of 7 bytes, and of up to 8 letters and newlines; chunks of 2 | holds |
| `timed` | a window holds exactly what was said in it, tail, grep, slice and summary agree on it, only the first line of a file may lack its stamp | 5 bytes in chunks of 2, 2 times, 1 restart, both modes, files of 7 or unbounded | holds |
| `dir_parallel` | exactly one daemon runs after two spawns of an id | 2 spawns | violated |
| `dir_doctor` | doctor spares the children of serving daemons | 1 spawn, doctor, 1 close, 1 crash | violated |
| `names_restart` | a `spawn --name` after the `kill` of its namesake is not refused | 1 spawn, 1 kill, 1 name | violated |
| `readers_spurious` | wait's exit 2 means the process exited | 1 line | violated |
| `text_grep_strip` | grep strips before it matches | 4 bytes | violated |

The violated ones each show a disagreement between the code and a line of its
documents or comments, quoted in `PROJECT.json` under `findings`.

**Why the bounds are enough.** Log: pieces of 5 into files of 2 cross two
rotations in one call; 11 bytes go round the 3 numbered slots; two faults put a
second failure into the recovery from a first; the proofs cover all values for
the seven invariants and the refinement. Daemon: every hazard listed for it
involves at most two connections (one that closes or hangs up, one that
observes) and one signal; a reset channel of 1 is full after one request.
StateDir: two spawns, one earlier daemon and one sweeper are the parties of
every race on one id; in `Orphans` a close puts the dying guard next to a new
daemon, in `Race`, `Orphans` and `Failures` a daemon dies at any step, in
`Upgrade` and `Failures` any one call of a start fails, and after that one the
start is over. Names: a
walk goes wrong over one entry besides the one it must see, so three daemons are
enough (and the proofs are for any number). Readers: two rotations are possible
with 7 lines and files of 3, and a fourth file is needed for nothing a reader
can distinguish; `summary` takes its three values from at most two files. Text:
with chunks of 2, files of 8 bytes put every newline on either side of a chunk
boundary and hold up to 8 lines; 5 bytes hold each kind of escape sequence with
a wrong or a missing end. The blocks of `grep` are compared on files of newlines
only, where every set of hits occurs, and its two forms on files of letters and
newlines. Stamps: 5 bytes in chunks of 2 cut a line in the middle, at its
newline and at a restart; 2 times make windows with lines before, in or after
them; a file of 7 ends inside the second line or its prefix.

**Fairness.** The writer thread finishes a call it has begun. The daemon's main
task, each connection task and the waiter thread are scheduled (weak fairness):
the runtime polls what is ready and its timers fire. Spawns, the daemons of the
state directory and the readers `follow`, `wait` and `summary` keep running;
`list` and `doctor` may stop anywhere, and `Names` assumes nothing. Nothing is
assumed of children, clients, signals, crashes or of when a daemon is closed.
`select!` picks a ready arm at random; since every arm that leaves the loop
stays ready until it is served, and clients connect finitely often in an
instance, weak fairness of the loop as a whole suffices. In `LogReaders` a
daemon whose child is dead ends: that is the second part of `DaemonEnds` of
`Daemon`. Runs set `CHECK_DEADLOCK FALSE` where all processes may have ended.

## Proofs

Eight modules of theorems, each for all values of the constants that meet the
assumption of its component; TLC checks the same properties on the instances
above.

### LogWriterProofs (`LogAssumption`: natural numbers)

The specification of `LogWriter` maintains `TypeOK`, `NoSilentDrop`,
`OldestFirst`, `Unbroken`, `SealedFull`, `SizeBound` and `KeepsAllSegments`.
None of the last six is inductive alone:

* `Control` relates the handle, `written` and the point in the code. Its core:
  with no handle and the writer idle, `written` is at least `MaxSize`, so the
  next call has no room and rotates before it writes. From it follow
  `NoSilentDrop` and `SealedFull`.
* `Bounded` says that no file reaches past `total` and the current one ends
  there. With it `Extend` keeps the order.
* `FreeTarget` says that during a shift the name the next rename goes to is
  free or about to be replaced, so a rename never puts a newer file behind an
  older one: `OldestFirst` and `Unbroken`.
* `NoHoles` says that without faults the numbered slots are filled from the
  front, but for the one hole that moves down during a shift:
  `KeepsAllSegments`.
* `Within` says that without faults `written` counts every byte of the current
  file, so the room left is the room there is: `SizeBound`.

Each is shown for the initial states and preserved action by action, with
lemmas on what a rename or an extension does to the files (`RenameMoves`,
`ExtendCurrent`).

`Refinement` shows that the files implement `RollingLog`, failures included. The
mapped stream begins with the oldest byte on disk, the minimum over the files
that are there (`OldestByte`; it exists because `<` on the naturals is well
founded). The eviction is harmless because of `Depth`: without faults a file in
slot i has i * MaxSize newer bytes in front of it, where a file that a shift has
moved counts as one slot younger until the shift is over (`Rank`). So whoever is
dropped from the last slot leaves the capacity behind. `Forward` says that the
oldest byte only gets younger, also after a failure, and `NothingLost` that what
is given up is the oldest file and nothing else.

### DaemonProofs (`DaemonAssumption`: exit codes are not words of the protocol)

For any number of clients, signals and failing calls: `TypeOK`, `NoOrphan`,
`RecordExplainsExit`, and the action property `ExitedIsFinal`. The invariant is
`TypeOK` with

* `ChildView`: how far the waiter thread, the linger timer and the shared state
  are is decided by the child; `seen` is a code only after the loop took it, and
  then it is the child's;
* `Told`: what a client was told has its cause in the shared state, and a close
  permit exists only after an answered close. It carries `RecordExplainsExit`
  and, with `seen` written once, `ExitedIsFinal`;
* `Swept`: the guard's progress against the files that are left, and the line
  of `recent.jsonl` as the last thing written;
* `StartupQuiet` and `ChildDown`: no task runs before the loop, and the loop is
  left for the guard only without a running child: `NoOrphan`.

### StateDirProofs (`StateDirAssumption`: processes are distinct)

For every set of scenarios with any number of spawns, lists and doctors:
`TypeOK`, `LoserWritesNothing`, `LeftInPeace`, `SweepHeals` and
`UpgradeReplaces`. `LoserWritesNothing` needs
`EarlyUntouched`, its extension to daemons not started or not bound yet;
`ForksOnce` (a spawn that has not forked has no daemon, so a fork does not
revive one), `OrphansStarted`, `SeenStarted` and `TargetKnown` (the ways a process
reaches a daemon by a pid: doctor's report, what a sweep has read and not yet
probed, a spawn's target), and `GuardCounts` (for the types). `LeftInPeace` is about
the scenarios whose daemon has the CLI's version, until it is closed or killed
(`Peaceful`): its files are `Whole`, no spawn gets further than to attach
(`Content`), a sweep has dropped every suspicion of its scan before it removes
anything (`Harmless`), and a list holds the row of the daemon (`Listed`).

`SweepHeals` and `UpgradeReplaces` rest on `WhoWrites`: a file of a daemon
appears or changes only by a step of that daemon while it lives and is past its
bind. What a dead daemon left can therefore only disappear.

* For `SweepHeals`, `Healing` follows the sweep: as long as all other daemons
  are dead, lost their bind or have not come to it, what it has passed is gone
  or is still on its list to be removed.
* For `UpgradeReplaces`, the spawn is alone with the old daemon: `Alone` says
  who can act at all, `Outgoing` how far the old daemon, its child and its files
  are at each step of `kill_stale_daemon`, `Incoming` that from the fork on every
  file is the new daemon's or not there: while it starts and serves, exactly those
  it has written (`OwnFiles`); in a state of `Failed` a call of its start has
  failed, which is the only way the spawn comes to return an error. The guard of
  the old daemon is done before the fork, which is why it takes nothing of the
  new one's.

Both use that a process is either a spawn or a sweeper (`StateDirAssumption`).

### NamesProofs (`NamesAssumption`)

For any number of spawns, kills and names: `TypeOK` and `NameCheckDecides`. The
core is `HeldSeen`: a daemon that served when the walk began and still does is
yet to be visited, being looked at, or found. It is kept because such a daemon
has all its files (`FilesGrow`), so that neither `ReadPid` nor `LoadMeta` drops
it; `OverUnseen` is the other half, `WalkShape` what the walk holds where.

### LogReadersProofs (`ReadersAssumption`)

For every size of file, any number of lines and rotations: `FollowInOrder`,
`PollLosesNothing`, `WaitFindsEarlyLine`, `FollowsToTheEnd`,
`SummaryFitsItsCursor` and `TypeOK`. What
`tail --follow` has written is a rising sequence that lies before its place in
its file (`OutBehind`), files follow each other in the stream (`SegsInOrder`),
and a reopen is due only if there is a newer file (`FollowShape`): the test
`pos > len` compares against the file followed or a later one, and a file never
shrinks. The lemma `RunAppended` says what a drain appends. The other two are
about a log that was not rotated, which begins with the first line
(`FromStart`): `PollView` says that a poll reads up to what it was told, and was
given every line before its cursor; `OnItsWay` says at each point of `wait` that
the early line is still ahead of it or seen.

The rest of `LogReaders`:

* `FollowsToTheEnd`: `LogView` says that only lines that were printed are in the
  log, that the daemon's counter and the mark `ended` are about lines already
  written, and that the log is there only while or after it was served.
  `EndView` then says at each point of `follow_loop` what is still ahead of it:
  once the daemon was found dead, one more drain takes the rest.
* `SummaryFitsItsCursor`: `SumView` relates the count, from the daemon or the
  scan, to the file whose length becomes the cursor, over any number of
  rotations between the two requests.
* `TypeOK` needs the sizes of all files, and the positions of the four readers
  in them, in one invariant.

### LogTextLemmas, LogTextProofs (`ChunkAssumption`, `NoneAssumption`, `LineAssumption`)

The functions of `tail`, `slice`, `wait`, `grep` and the stripper, for every log
over every alphabet and every size of the chunks, with the options that the
properties name: `ReadsMatchLines`, `EnvelopesMeet`, `WaitFindsFirstMatch`,
`GrepShowsItsHits` and `StripsSequences`. The provers take no predicate to induct
over, so an induction is one over the set of the numbers for which the statement
holds (`SetInduction`, from the well-foundedness of `<`), and the loops of
`LogText` are functions of their loop variables. `LogTextLemmas` is what the
proofs about the stamps use as well: sets in ascending order, lines and places
of lines, parts of a file, loops, folds, and what a read of `summary` and one of
`grep` amount to as sets of lines. The steps:

* `LoopsEnd`: a loop whose variable grows, or shrinks, to a bound defines a
  function; so does a fold (`FoldsEnd`).
* What each loop finds: the n-th newline from the back (`SeekToLastLines`), the
  first newline after an offset (`SeekToLastBytes`), the n-th from the front
  (`HeadLoop`), wherever chunks are cut. The counts are cardinalities of sets of
  newlines, `Rank` the place of one of them.
* Lines: `Cut` names where line k ends, and consecutive lines are the bytes
  between two cuts (`PiecesFlatten`). With it the offsets the loops find are the
  ends of the lines the reference asks for.
* Reversal: a newline at place i goes to the mirror of i (`Mirror`), so the
  lines of the reversed file are the lines of the file backwards.
* Stripping: `FeedSteps` lays the fold out as one state per byte. From an ESC in
  `Normal` nothing gets out until the sequence's end as the grammar gives it,
  where the machine is in `Normal` again (`Skips`, one lemma per kind of
  sequence); outside sequences each byte gets out once.
* `wait`: both rounds look at what has been drained, and what is drained first
  stays (`DrainedGrows`, over `FedInParts`: a log may be fed to the stripper in
  two parts wherever it is cut). A longer output begins with the complete lines
  of a shorter one (`LinesStay`) and goes on with the lines of what is behind
  them, where the cursor stands; so its first hit is the first one of the
  shorter output, or else the first behind the cursor (`FirstHitSplits`).
  `PatternInBody`: the pattern of the instance is in a line exactly when it is
  in what follows a stamp. With --multiline, what is cut out around a match
  still holds it (`AroundHolds`).
* `grep`: `FoldTaken` takes a fold apart into the values after each element, and
  with it the merge of the windows takes one hit after the other. After each
  (`Merged`, kept by `MergesOne`) the blocks are in order with a gap between
  them, hold exactly the lines near a hit taken so far, and the last one ends
  where the window of the last hit does; that is why a later hit can only touch
  the last block. The rows of `--json` are then numbered upwards through all
  blocks (`Lists`, `ListingIs`), so the marked ones, being the hits and in
  order, are the list of hits (`MarksAre`). The plain form is the blocks with
  separators between them (`PlainIs`), whose bytes are the contents of the rows.

### TimedLogProofs (`TextAssumption`, `ModesAssumption`, `BoundsAssumption`)

The stamping writer with every text, chunk, file size, clock and number of
restarts, with and without stamps: `TypeOK`, `OnlyFirstLineBare`,
`BytesKeepTrailingLines`, `WindowHoldsWhatWasSaid` and `WindowsAgree`.

* `WriteRawDoes` says what the fold of `write_raw` leaves: the bytes behind the
  file, or, if files were put away, the last of them in a new one and all others
  behind `sealed` (`Wrote`). Everything else about a write follows from it.
* `TypeInv` adds to `TypeOK` that the loop of `write_all` stays in its buffer,
  that a daemon counted in `unstamped` was counted in `restarts`, and the types
  of the histories.
* `StampInv` ties the flag `atLineStart` to the bytes: while it is set a
  stamping daemon stands at the beginning of a line, and while it is not, behind
  the beginning of one, also where the file is empty because a rotation cut the
  line. It says what the loop has seen of its line (no newline from `start` on),
  and that every line of a log whose daemons all stamp begins with a stamp,
  except a first one that is cut. `OnlyFirstLineBare` is that, read through the
  parser (`LineStamped`, `ParsedIsStamped`).
* `SaidInv` says that `.log` tells the history: the stamps that begin lines are
  those of `said`, in order, and each is followed by what was said
  (`Tells`, `Holds`). It needs the hypotheses of the property: no rotation, and
  that nothing the child prints looks like a stamp (`Unforged`). From it
  `LinesTold` has the lines as the readers split them, and `WindowTakes` which
  of them the filter keeps; that its early stop loses none is where the order of
  the clock comes in (`OrderHolds`).
* `WindowsAgree` needs none of these: it is about the functions on any bytes.
  Each reader is a set of places in the lines of the file, taken in order
  (`PlacesIn`, `Picked`). `MovedLine` and `PartCounts` are about `summary`,
  which splits only the last bytes of the file and may begin inside a line;
  `ScanTallies` and `CountBoth` count what it counts; `GrepFinds` says which
  lines `grep` hits, and `GrepShown` that these are the shown ones that match.
* `BytesKeepTrailingLines` is `CapKeeps`: the lengths of the trailing lines
  grow with their number, so the least place that fits is the cut.

### Only model-checked

* Liveness, which is out of the prover's reach: `WriteReturns`, `DaemonEnds`,
  `SpawnReturns`, `ReadersReturn`.
* `DoctorSparesTheNamed`: a doctor alone with a spawn kills no child of a daemon
  that serves and whose `.pid` was there when the scan began. It is checked in
  `Orphans` and `Failures`. What a comment of the code says without that
  restriction, `DoctorSparesTheLiving`, is false (`dir_doctor`).

## Where documents and code differ

Five of the runs show such a place: `dir_parallel`, `dir_doctor`,
`names_restart`, `readers_spurious` and `text_grep_strip`. All of these were found while the models were
written, and the properties are stated so that they hold in spite of them.

* `pty.rs:175` A write is cut at the size limit and rotation comes between its
  pieces, so a segment never exceeds the size (`SizeBound`);
  `troubleshooting.md:127-128` says rotation comes after the write that crosses
  the threshold and a segment "can briefly be `size + last_chunk`".
* `doctor.rs:203` `.pid` is tested, `.meta` loaded and its child probed one after
  the other: between them a closing daemon can be replaced by one that serves, and
  `--fix` kills the child of the latter; `doctor.rs:170-171` says an orphan is a
  child "whose parent (daemon) died" (`dir_doctor`). A list that takes the `.pid`
  of a starting daemon, whose file is still empty, leads there too (`dir_doctor`
  with `SweepScenarios`).
* `daemon.rs:246` Where the log or `.meta` cannot be opened the daemon exits and
  leaves its child to the SIGHUP of the PTY, which it may trap.

* `pty.rs:165` A log size of 0 turns rotation off; `troubleshooting.md:119-122`
  says it means "use the default".
* `daemon.rs:190` An error between bind and the creation of the guard leaves the
  socket behind; `daemon.rs:77-78` says the guard cleans up "on every exit path".
* `daemon.rs:330` `close`, a signal and the idle timer signal the child's pid
  also when the child was reaped and the pid may belong to another process.
* `cli.rs:758` `list` removes a `.sock` without a `.pid` even if a daemon has
  just bound it; `commands.md:49-50` says dead daemons get cleaned up.
* `tail.rs:852` What is written between the length and the read of one cursor
  call is given again by the next; `scenarios.md:157` says "exactly the new bytes".
* `tail.rs:726` The stale answer's cursor is the length of the new `.log`, whose
  bytes are in no rotated file and are never given; `troubleshooting.md:41-43`
  says "No bytes are lost".
* `wait.rs:138` `wait` exits 2 although the child printed the line, when `status`
  says exited before the reader thread has written it; `wait.rs:290`: after
  SIGKILL of the daemon its `.pid` stays and `wait` goes on for ever.
* `tail.rs:343` `--bytes` inside an incomplete last line begins in its middle;
  `tail.rs:311-312` says "the first emitted line is whole", `commands.md:70`
  "line-aligned at the start". `ReadsMatchLines` leaves the case out.
* `tail.rs:820` `--json --head 0` gives a chunk of the log.
* `tail.rs:855` The cursor of a head read with `--strip-ansi` counts the stripped
  bytes and points into what was already printed.
* `cli.rs:921-923` says the child and the sidecars are gone when `kill` returns;
  `daemon.rs:468` answers before it closes. `names_restart` shows a consequence.
* `cli.rs:499` A name is unique only among daemons that have a `.meta`; `spawn`
  returns before that, so two spawns of a name right after each other both
  succeed; `commands.md:15` says "unique within the project".
* `cli.rs:506` `spawn --id X --name N`, which reuses the daemon of X, is refused
  by its own name when it is repeated.
* `cli.rs:660` A row without `.meta` has no project and is filtered out;
  `cli.rs:745-746` says "so the entry is still listed".
* `doctor.rs:316` The logs of a report are removed by name, also when a daemon
  started since the scan: it goes on writing to a file without a name.
* `daemon.rs:34` The linger is 5 s; `troubleshooting.md:24,60` says 2 s.
* `daemon.rs:29-32` says `summary` falls back to `recent.jsonl`; `summary.rs`
  never reads it.
* `summary.rs:122-141` `summary` makes two requests, and the count and the cursor
  may be of different files; `SKILL.md:265` says "one IPC roundtrip".
* `pty.rs:252` The counters count a chunk also when its write failed.
* `tail.rs:890` An incomplete log that begins with an empty line ends with a
  newline once reversed; `tail.rs:871-872` says it does not.
* `pty.rs:343` A BEL right after an ESC does not end an OSC (`pty.rs:281`).
* `tail.rs:107` A sequence cut by two cursor reads is printed in part.
* `grep.rs:209` `--limit 0` gives one hit; `commands.md:107` says "Stop after N".
* `tail.rs:624` An incomplete last line is in no time window; `tail.rs:607-608`
  says it is.
* `slice.rs:211` `slice` without selectors drops unstamped lines if there is a
  stamped one; `slice.rs:210` says "Don't drop non-timestamped lines".
* `tail.rs:644` After the clock was set back a window stops too early;
  `tail.rs:643` says "Lines are time-ordered".
* `pty.rs:111` A line cut by a rotation and a restart is stamped twice;
  `pty.rs:77-78` says "exactly once".

## What is not modelled

* Parsing of options, sizes, times and ids; the wording, order and layout of
  outputs; Windows branches; the choice of the state directory; file
  permissions; `skills`. These parts keep no state and meet nobody: unit tests
  reach them. They are most of `cli.rs`, `doctor.rs`, `ids.rs` and `ipc.rs` that
  no module is mapped to.
* Regular expressions beyond a substring: the `regex` crate does that.
* The reuse of a pid by the system. `daemon.rs:330` and `doctor.rs` signal a pid
  that may belong to somebody else by then; nothing in the code can tell.
* Readers over the numbered files: no command reads `<id>.log.1` and above,
  except that `doctor` and `summary` count them.
* The kernel's buffering between PTY and reader thread: a chunk is of any size.
