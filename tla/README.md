# Verification of the VCA configuration-update script and event-log reader

This directory holds TLA+ models of the two programs in `src/`, the TLC
configurations that check them, and TLAPS proofs of their main invariants.

* `src/apps/scripts/make_config.py` (`vca_config_upgrade`) merges three XML
  snapshots of the VCA card configuration and applies the result with
  `vcactl config`. The three snapshots are the old factory default, the
  user's configuration and the new factory default.
* `src/modules/scripts/vca_elog.py` reads the BIOS SMBIOS event log from a
  dump or from `/dev/mem`, decodes its records and prints them.

## 1. The system and its parts

### make_config.py

The script has five parts, run in a fixed order by the `__main__` block
(lines 571-646):

| Part | Code | What it does |
|---|---|---|
| Command line | `arg_parse`, `print_help` (525-556) | Reads 3 XML paths, a mode (`manual`, `semi-auto`, `full-auto`; full-auto by default) and `debug`. |
| Extraction | `XMLContainer`, `combine_properties` (408-522) | Parses the 3 documents. Builds one triple `[old, user, new]` per option and scope. Scopes: global, card x cpu (8 x 3), block device. |
| Change classifier | `VcactlUpdater.__encode_changes` (357-394) | Maps a triple to a vector over `d`, `m`, `del`, `nd`. Returns `None` for one case. |
| Strategies | `ManualUpdate`, `SemiAutoUpdate`, `FullAutoUpdate` (107-284) | Map a vector to an action. Manual and semi-auto may prompt the operator with `input()`. `__print_message` raises on `error` and `unknown`, and sets the shared `WRN_UP` flag on `wrn_apply_user`. |
| Driver | `VcactlUpdater` (289-406) and the main loop (588-646) | Builds one updater per scope: global first, then per card and cpu the cpu updater followed by its block devices. For each option it runs classify, decide, `__choose_value`, `__run_vcactl`. The first exception stops the process with exit 3, vcactl's status, or 1 (SIGINT or an uncaught exception). |

Everything is sequential. The hard behaviours are not concurrency:

* how the precedence of the classifier's rules interacts with three
  independently written decision tables;
* aborts part-way through a long walk, caused by a fatal decision, a vcactl
  failure, SIGINT or an uncaught Python exception;
* the process-wide `WRN_UP` flag;
* Python 2 details: `input()` evaluates what is typed, and dict iteration
  order is arbitrary;
* stale state carried across loop iterations in the extraction (`all_card`,
  `bDevs`, the per-document reset of a block device).

### vca_elog.py

`print_events` (237-301) walks the event-log records. Each record has a type
byte, a length byte, a 6-byte time, a format byte and format-specific data.
It keeps a running byte count `CurShift` and skips to the next record with
`fp.seek(CurShift, 1)`. The helpers are:

* `parse_time` and `bcd_to_bin` (227-234);
* `parse_evt_cnt` (206-217), which counts multiple events from a 32-bit
  bitmap;
* the per-type data parsers (76-87).

Around this sit argument parsing, BIOS-version detection through
`dmidecode`, and the `/dev/mem` and nvram readers.

## 2. Modules

| Module | Models | Kind |
|---|---|---|
| `ChangeState` | classifier, strategies, value resolver of make_config.py | pure operators |
| `ConfigUpdate` | the driver: updater list, `VcactlUpdater.execute`, main loop, exits, SIGINT | state machine |
| `MergeSpec` | what the driver promises, without updaters, decision tables or vcactl | abstract specification |
| `ConfigExtract` | `XMLContainer` and `combine_properties` | operators plus one `Extract` step |
| `EventLog` | vca_elog.py start-up and the record walk of `print_events` | state machine with fairness |
| `ElogAlgorithms` | `bcd_to_bin`, `parse_time`, `parse_evt_cnt` | loop operators, a recursive function and reference definitions |
| `MCConfigUpdate`, `MCConfigExtract`, `MCEventLog`, `MCElogAlgorithms` | TLC instances | model values and small sets |
| `ConfigUpdateProofs`, `ConfigUpdateRefinement`, `ConfigUpdateSafety`, `ConfigExtractProofs`, `EventLogProofs`, `ElogAlgorithmsProofs` | TLAPS proofs | theorems |

### ChangeState and ConfigUpdate

`ChangeState` holds `EncodeChanges` (357-394), `AskUser` (160-186),
`ManualDecide` (188-192), `SemiDecide` (228-254), `FullDecide` (261-284),
`Decide` (148-152) and `ChooseValue` (345-355).

The state of `ConfigUpdate`:

* `xml[s][o]`: the triple of option `o` at scope `s`;
* `mode` and `debug`: the command line;
* `cur`: the updater being run;
* `act[s][o]`: the action taken on the option;
* `cfg[s][o]`: what vcactl has set;
* `wrn`: `WRN_UP`;
* `status`: how the process ended.

The actions of `ConfigUpdate`:

* `ExecuteOption(o)` is one iteration of `VcactlUpdater.execute` (400-406),
  including the decision and the raise in `__print_message`. It calls
  `Abort`, `Candidates` (`__get_new_user_value` or `__choose_value`) and
  `RunVcactl` (debug print, success, or `CalledProcessError`).
* `NextUpdater` moves to the next element of the updater list (588-606).
* `Finish` is the warning notice and exit 0 (638-646).
* `Interrupt` is `sigint_handler` (567-569).
* `Exited` is the process after `sys.exit`.

How the code maps to the model:

* Values are the model values `a` and `b`, plus `none` for Python's `None`.
  The empty string that `__choose_value` returns for `delete` is also
  `none`: `__get_command` passes `""` for `None` as well.
* An uncaught exception is the outcome `"crash"`: the `TypeError` of
  `changes[0]` on the `None` vector, or an exception raised by `input()`
  (Python 2 evaluates the typed text).
* The options of a scope are visited in any order (Python dict order).
* The device configuration starts at the new defaults, as the script's own
  abort messages say ("new default configuration will be used").

### MergeSpec and the refinement

`MergeSpec` has the variables `xml`, `mode`, `debug`, `cfg`, `done` (the
handled `<<scope, option>>` pairs) and `outcome`. Its actions are
`Apply(s, o)`, `Abort` and `Finish`:

* `Apply(s, o)` handles an option once. In debug mode nothing is written.
  Otherwise, where the operator is not asked, the option gets
  `MergedValue`: the user value where the user changed it, the new default
  elsewhere (the promise of `print_help`, 526-529). Where the operator is
  asked, it gets any value.
* `Abort` stops the run and keeps what was written.
* `Finish` ends the run, and only once every option is handled.

`ConfigUpdate` defines `Merge == INSTANCE MergeSpec WITH done <- ...,
outcome <- ...`:

* `done` is the set of applied options (action taken and not fatal);
* `outcome` is `"running"`, `"done"` on exit 0, and `"aborted"` on every
  other exit.

`MergeRefinement == Merge!Spec` is checked as a PROPERTY and proved.

### ConfigExtract

`ConfigExtract` models the three documents, visited in the iteration order
of the dict `{"o", "u", "n"}`. In CPython 2 that order is u, o, n (by
hash). A document is a record with a global section and card slots. Each
card slot is either `Absent` or a set of cpu slots. Each cpu slot is
either `Absent` or the cpu's option texts, plus `Absent` or a map of block
devices.

Each function of the code is an operator of the three documents:

* `GlobalAttribs` and `GlobalOptions`;
* `CardCpuAttribs`: one `all_card` list shared by all documents, with
  deep copies. The loop over the three documents is written as its three
  passes (`CardStep`), so the module has no recursion and can be reasoned
  about by the prover;
* `BlockDevsAttribs`: `bDevs` carried from the last cpu that had a
  `block-devs` element, or a `NameError` if none had;
* the two passes of `combine_properties`, with the reset at line 506.

`ExtractStatus` gives the first exception, in call order. The one action,
`Extract`, is lines 591-599 of the main block. XML parsing itself is
abstracted: a document is already its element tree. `ExtractAssumption`
also says that `"block-devs"` is not one of the option tags `Opts`: the
code treats that child of a cpu as the block-device list, not as an
option.

### EventLog and ElogAlgorithms

`EventLog` has the variables `cmd` (`-d` or print), `input` (`-i` file or
`/dev/mem`), `bios` (what `GetBIOSInformation` left in `biosdata`), `pos`,
`start`, `last` (the last record's header) and `status`. Its actions:

* `Start` (361-394): the unsupported-BIOS exit, `-d`, or the walk.
* `ReadRecord` is one iteration of `print_events` (239-299). It covers:
  * the end marker;
  * a read past the log (`eof_crash` on a file, `overrun` on `/dev/mem`);
  * the `IndexError` of `parse_pci_error_data` when `biosdata` is `()`;
  * the seek `NextPos`.

  Each parser is a pair `[adv, dec]`: how far it moves the file and what it
  takes from `CurShift`. The bytes of the log are read lazily. A header is
  any element of `Headers`, except that the record at an already-read
  position is the same record. A record that starts inside bytes already
  read gets any header; this over-approximates the bytes.
* `Exited` stutters after the process ends.

`ElogAlgorithms` models three helpers:
* `bcd_to_bin`: one turn of its loop is `BcdTurn` on the state `res`,
  `curMul`, `par`. `BcdToBin` applies two turns. Its argument is always one
  byte, and a byte's `par` is 0 after two turns, so the loop has stopped
  (lemma `BcdLoopStops`).
* `parse_evt_cnt`: its loop is the recursive function `EvtCnt` over the
  Width-bit counters. Powers of two are the recursive function `Pow2`, not
  the operator `^`, so that the proofs can unfold them.
* `parse_time`, with its `ValueError` fallback to a 2000-01-01
  placeholder.

The code's counter is 32 bits wide (struct `"@I"`). TLC's integers are
32-bit signed, so the runs set `Width = 30`. The loop of `parse_evt_cnt`
does not depend on the width, and the proof below covers every width.

## 3. Properties and runs

Every property's comment in its module gives the code lines. Every property
of a passing run has a mutant of the mapped code that breaks it
(`PROJECT.json`, "mutants").

### make_config.py: the driver

| Property | What it says |
|---|---|
| `TypeOK` | Type invariant. |
| `UnattendedMergeCorrect` | In a run that calls vcactl, every option not applied still holds its new default. Every option applied without the operator holds the merge. This holds in every state, also after an abort part-way through. |
| `CompleteOnSuccess` | Exit 0 means every option of every updater was executed. |
| `UserDeletionAborts` | An option the user deleted while its default never changed stops the run with "USER configuration is corrupted". |
| `AutomaticModesAlwaysDecide` | Semi-auto and full-auto never stop with "Can not decide". |
| `WarningNoticeExact` | The closing warning is printed exactly when full-auto kept a user value over a changed new default. |
| `MergeRefinement` | Every behaviour of the driver is a behaviour of `MergeSpec`. |
| `FullAutoNeverCrashes` | Full-auto never dies of an uncaught exception (the spec's exit codes and rule 6). Expected violated. |
| `NewOptionNotApplied` | The spec's note 9: an option only the new default has is never applied by the automatic modes. Expected violated. |

| Run | Instance | Result |
|---|---|---|
| `merge_all_modes` | 1 card, 1 cpu, 1 block device (3 scopes), one option. Every triple over {a, b, None}, all modes, debug on and off. Symmetry over {a, b}. | The six invariants and `MergeRefinement` hold (4.5 M distinct states). |
| `topology_walk` | 2 cards x 2 cpus x 1 block device (9 scopes), automatic modes, 3 triples | `CompleteOnSuccess` holds across card and cpu boundaries. |
| `full_auto_crash` | global and one card/cpu scope, automatic modes | Violated: for (a, None, b), `__encode_changes` returns `None` and `FullAutoUpdate` raises `TypeError` (line 262): exit 1, not exit 3. |
| `new_option_adopted` | same | Violated: (None, None, a) matches `old == user` (line 358), becomes `d,d,nd`, and the new default is applied. |

### make_config.py: extraction

The instance has 2 card slots, 1 cpu, one option `o1` with text `a`, and
one block device `d1` with one option `q1`. Every card and cpu may be
present or missing, and every block-devs element absent or holding `d1`
with or without `q1`. That gives 64 documents, and the run covers every
triple of them (262,144 inputs, 524,288 states).

| Property | What it says | Run and result |
|---|---|---|
| `PresentScopesFaithful` | After a successful extraction, each document's slot in each cpu and block-device triple is that document's text, or None where it lacks the option. | `extract_present_scopes`: holds. |
| `ExtractRejectsMissingCards` | Extraction only succeeds when every document has every card and cpu. So the stale `all_card` copy of a missing card never reaches an updater. | `extract_present_scopes`: holds. |
| `CompleteDocsExtracted` | On complete documents extraction never raises (the spec's document contract). | `extract_dev_option_removed`: violated. A new default that drops an option of a block device raises `KeyError` at line 519. |
| `AbsentBlockDevsNone` | A cpu without `block-devs` contributes None to the block-device triples. | `extract_stale_block_devs`: violated. `bDevs` (475) still holds the previous cpu's devices. |

### vca_elog.py

| Property | What it says | Run and result |
|---|---|---|
| `TypeOK`, `WalkAligned` | Every step of the walk ends at the record's start plus its length byte, whatever parsers ran (an action property). | `elog_walk`: hold. 24-byte logs, lengths 2, 9, 12, all BIOS kinds and both inputs. |
| `Termination` | On a `-i` file, `print_events` ends: at the end marker or with an exception. | `elog_walk`: holds with nonzero lengths under weak fairness. `elog_zero_length_loop`: violated. A length byte 0 seeks back to the record's start forever (line 299). |
| `InputFileNeverIndexError` | The advised way to read a downloaded log (`-i`, line 353) never dies of `biosdata[2]`. | `elog_input_file_pci_crash`: violated at line 83. |
| `BcdDecodesDigits`, `EvtCntMatchesLeadingOnes` | `bcd_to_bin` gives the two decimal digits of every BCD byte. `parse_evt_cnt` gives 1 plus the bits below the leading ones, for every count. | `elog_numeric`: hold on all 256 bytes and on counters with every number of leading ones. |
| `NonBcdTimeShownUnknown` | A time byte with a nibble above 9 is shown as an unknown date (`parse_time`'s handler, line 191). | `elog_nonbcd_time`: violated. `bcd_to_bin` decodes 0x0A to 10, and the date is printed. |

Two behaviours of the code are modelled but not asserted against, because
a property would only restate a line:

* `input()` raising at the prompt (177, 339). This is the `"crash"` outcome
  of `AskUser` and `RunVcactl`, reached in `merge_all_modes`.
* the `block-devs` tag kept as a cpu option (457, `pass` and not
  `continue`). `CpuProp` models it.

Symmetry and the refinement: `MergeRefinement` is checked under the
symmetry over {a, b}. This is sound because both `ConfigUpdate` and
`MergeSpec` treat the two texts alike, and the property has no fairness.
The `FullDecide` mutant still breaks it under the symmetry.

### Why the bounds are enough

* Every vector of the classifier needs at most two texts besides `None`.
  Over three slots, {a, b, None} gives every equality pattern.
* In the driver, options interact only through `WRN_UP` and aborts, and both
  happen with one option over three scopes. `topology_walk` adds the loop
  boundaries that the off-by-one mutants of `NextScope` need.
* In extraction, two card slots let a missing card inherit from `all_card`,
  and let `bDevs` carry over from one cpu to the next. One device with one
  option lets the reset at line 506 lose a key.
* In the walk, length 2 lands inside a record, 9 is a record without data
  and 12 one with data. 24 bytes hold several records.

### Fairness

* The driver has none. It blocks without a timeout on `input()` and on
  vcactl, so no liveness is claimed for it.
* `EventLog` assumes `WF_vars(Next)`. The loop of `print_events` never
  waits: it reads a local file or `/dev/mem` and prints. `Termination` is
  only claimed for `-i` files. On `/dev/mem` the model stops following the
  walk when it leaves the log area (`overrun`).

## 4. What is proved

`tlapm` checks every proof, for every value of the constants.

* **`ConfigUpdateProofs`:**
  * `TypeCorrect: Spec => []TypeOK`;
  * `MergeCorrect: Spec => []UnattendedMergeCorrect`.

  The inductive invariant is `TypeOK /\ UnattendedMergeCorrect`. The proof
  rests on two decision-table lemmas, `FullAutoResolvesToMerge` and
  `SemiAutoResolvesToMerge`: a non-fatal unattended decision is never
  `new_usr` and resolves to the merge. `ExecuteOptionMerge` shows that one
  step writes that value at `[cur][o]` or nothing, and leaves every other
  entry alone.
* **`ConfigUpdateRefinement`:** `Refinement: Spec => MergeRefinement`. The
  step that needs an invariant is `Finish`, which must map to the abstract
  `Finish`, where every option is handled. The invariant is `RInv`
  (`RInvCorrect: Spec => []RInv`), the conjunction of:
  * `TypeOK`;
  * `Walked`: every updater before `cur` in the list has applied all its
    options;
  * `NoFatalWhileRunning`.

  `Walked` uses `Idx`, the position of a scope in the list. The lemmas
  `IdxNextScope` (`NextScope` moves one place), `IdxBelowEnd` and
  `IdxInjective` carry the arithmetic. `IdxInjective` rests on
  `QuotRemUnique`. TLC checked `RInv` as an invariant before the proof.
  Each driver step then maps to `Apply`, `Abort`, `Finish`, or a stutter.
  `SameChangeState` identifies `MergeSpec`'s copy of `ChangeState` with the
  driver's.
* **`EventLogProofs`:**
  * `TypeCorrect: Spec => []TypeOK`;
  * `WalkAlignedCorrect: Spec => WalkAligned`.

  The argument is that every parser is balanced (`Balanced(p)`: it takes
  from `CurShift` what it moves the file by). Lemmas cover `Parse`, `Plus`,
  the head, every format and every type parser, including the `seek(3, 1)`
  of `parse_pci_error_data`. `NextPosBalanced` then gives `pos' = start +
  len`. The only invariant needed is `TypeOK`.

* **`ConfigUpdateSafety`:** the four remaining driver invariants of the
  run `merge_all_modes`:
  * `CompleteCorrect: Spec => []CompleteOnSuccess`;
  * `DeletionCorrect: Spec => []UserDeletionAborts`;
  * `DecideCorrect: Spec => []AutomaticModesAlwaysDecide`;
  * `WarningCorrect: Spec => []WarningNoticeExact`.

  They rest on one inductive invariant, `SInv` (`SInvCorrect`). It is the
  conjunction of:
  * `RInv`, from the refinement proof;
  * `DoneAtEnd`: exit 0 happens only at the end of the list;
  * `WarnTracked`: while the run goes on, or after exit 0, `wrn` holds
    exactly when some option was given `wrn_apply_user`, and an option was
    given that action exactly when full-auto met `"d","m","nd"`;
  * the two properties `UserDeletionAborts` and
    `AutomaticModesAlwaysDecide`, which are inductive as they stand.

  `WarningNoticeExact` alone is not inductive. It speaks only of the final
  state, and `wrn` is set option by option, hence `WarnTracked`. TLC
  checked `SInv` before the proof, on 2.8 and 9 million states. The
  decision-table lemmas rest on `ClassifierImage`: `__encode_changes`
  returns one of seven vectors or None, and never one that starts with
  `"del"`. The code's rows for such vectors (for example semi-auto's
  `"del","m",X`) are therefore dead code. That is why no automatic run
  answers `unknown`, and why `wrn_apply_user` appears only on
  `"d","m","nd"`.
* **`ConfigExtractProofs`:**
  * `RejectsMissingCards: Spec => []ExtractRejectsMissingCards`;
  * `ScopesFaithful: Spec => []PresentScopesFaithful`.

  The invariant `EInv` says that a successful state stores what the
  extraction operators return for the unchanged documents. The rest is
  reasoning about those operators:
  * "ok" means none of the four exceptions was raised (`OkNoErrors`);
  * no `None` slot in the block-devs lists means every document has
    every card and cpu (`OkAllPresent`);
  * then every pass of the `all_card` loop overwrites every slot
    (`AttribsOwnCard`);
  * a cpu with a `block-devs` child is the last visit up to itself that
    assigns `bDevs` (`BDevsOwn`, through `VRankInjective`);
  * the absence of a `KeyError` puts every option of a present device
    among the keys kept (`DevOptsFaithful`).

* **`ElogAlgorithmsProofs`:**
  * `BcdCorrect: SpecNumeric => []BcdDecodesDigits`;
  * `EvtCntCorrect: SpecNumeric => []EvtCntMatchesLeadingOnes`.

  Both hold for every input the run `elog_numeric` starts from, and the
  second for every `Width`. The first is plain arithmetic on a byte.
  `BcdToBinNibbles` shows that `bcd_to_bin` returns 10 times the high
  nibble plus the low nibble on every byte, BCD or not.

  The second needs induction over the counter:
  * `Pow2Def` instantiates the library's `NatInductiveDef` for `Pow2`.
  * `NatLeast` (every non-empty set of naturals has a least element, from
    `WFMin` and `NatLessThanWellFounded`) is the induction principle. It
    takes a set, not an operator parameter, so the provers can use it.
  * `Pow2Add`, `DivDiv` and `DivUnique` give the arithmetic of powers and
    quotients.
  * `LeadingOnesIs` shows that the `CHOOSE` of the reference
    `LeadingOnes` has exactly one candidate.
  * `TurnAddsLeadingOne` shows that one turn, `x \div 2 + Top`, keeps a
    counter a counter and adds one leading one. Its arithmetic core is in
    `ShiftInOne` and `ShiftKeepsZero`.
  * `ExpectedCntFixpoint` shows that `1 + Width - LeadingOnes(x)` solves
    `EvtCnt`'s recursion, so the recursive definition describes a function
    (`EvtCntUnfold`).
  * `EvtCntIsExpected` takes the least number of trailing bits at which
    `EvtCnt` and that count would differ, and reaches a contradiction.

Only model-checked, out of the prover's reach: the liveness property
`Termination` of `EventLog`, since TLAPS does not reason under fairness
here. Every safety property and action property of a passing run is
proved.

## 5. Not modelled, and the plan

* The command line (`arg_parse`, `print_help`) and the vca_elog front end
  (`dmidecode` text processing, `-p`/`-v`, event filtering, the printed
  output) are I/O. Only their results are modelled: mode and debug in
  `ConfigUpdate`'s `Init`, and the BIOS kinds and `-d`/`-i` in `EventLog`'s
  `Init`.
* `ConfigExtract` and `ConfigUpdate` are not composed: the driver takes its
  triples as free inputs. A composition would feed `Extract`'s `cpuOpts` and
  `devOpts` into `xml`. The extraction findings already show which triples
  the driver then receives.
* The `/dev/mem` reader beyond the log area (`overrun`, line 240) is
  memory the model does not represent.
