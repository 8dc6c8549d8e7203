# Aquacppminer-gpu in TLA+

Models, model-checking runs and machine-checked proofs for the GPU miner in
`src/`. File and line numbers refer to `src/src/` unless a path says otherwise.

1. [The system](#1-the-system)
2. [The modules](#2-the-modules)
3. [The runs](#3-the-runs)
4. [Fairness](#4-fairness)
5. [The proofs](#5-the-proofs)
6. [What the code does against its own words](#6-what-the-code-does-against-its-own-words)
7. [What is not modelled](#7-what-is-not-modelled)
8. [The plan](#8-the-plan)

## 1. The system

One process mines on every selected GPU for one pool (or one node, when solo).

| component | state | operations |
|---|---|---|
| **update thread** `updateThread.cpp` | published work `s_workParams` (under a mutex), `s_poolGetWorkCount`, its connections `s_httpHandles`, `s_bUpdateThreadRun` | poll `aqua_getWork`, count the poll, publish a work with a new hash, ask for block information, sleep, stop |
| **miner thread**, one per GPU, `miner.cpp` 588-817 | thread local `s_nonce`, `s_seed`, `s_currentWorkHash`; its `MinerInfo::needRegenSeed` | fetch the work; draw a nonce for new work or after a rejection, else increment; after a rejection in a pool, pause until the getWork count moves; launch three kernels, read one output word, check and submit it, advance |
| **allocator** of the CPU's argon2, `miner.cpp` 172-214 | the map `threadBlocks`, `s_alloc_mutex` | find or insert the block of a thread, free and erase it |
| **submission** `miner.cpp` 320-407 | `s_httpHandleSubmit` (under `s_submit_mutex`), `s_nSharesFound`, `s_nSharesAccepted` | a detached thread per share in a pool, a call when solo: post, read the verdict, set `needRegenSeed` on a rejection, count |
| **main** `main.cpp` | `s_run`, the locals of the report | self test, start, report every 5 s, shut down after Ctrl+C |
| **kernels** `_kernel.h` | the argon2 memory (8 blocks for each of 32768 jobs), the output word | `search` fills two blocks, `search1` the others, `search2` hashes the last one and compares it |
| **configuration** `config.cpp`, `args.cpp`, `miningConfig.cpp`, `hardware_utils.cpp` | `s_cfg`, the file, the device ids | enumerate the GPUs, load or create the file, apply options |
| **http client** `http.cpp` | curl handles | post, create, destroy |

They interact through shared variables. Miners read the published work and the
count; submissions read and write the flag of the miner that found the share;
main reads the counters without a lock, and on shutdown joins the miner
threads, destroys the submission connection, and only then stops and joins the
update thread. Detached submissions are joined by nobody.

What is hard here, and the property that makes each part correct:

* **Update thread.** It counts a poll, then publishes; a poll can fail, and the
  pool may change its job between any two. *What is published was served by the
  last poll; a job that lasts gets published; a stop request ends the thread.*
* **Miner and submission.** The flag is set by one thread and tested and
  cleared by another without a lock; the work fetched before a pause is used
  after it. *A share is submitted with the hash its seed was made from; a
  rejection is never lost, and is answered by one new sequence of nonces; a miner
  always comes back to hashing.*
* **Submissions among themselves.** One curl handle for all. *One post at a
  time; each share is settled and counted once; a failure keeps nobody waiting.*
* **Shutdown.** It joins threads that wait for threads that are stopped later.
  *It completes, for nobody waits for a thread that has ended; no connection is
  used after it was destroyed.*
* **Allocator.** A map searched before its mutex is taken and erased from
  without it. *Unless accesses to it raced, no two threads hash in one block and
  blocks are freed; with one GPU they cannot race.*
* **Reports.** A wrapping total and two counters read one after the other.
  *The hash delta is exact across the wrap; a quiet report's numbers agree.*
* **Scan.** Three different moves of a 64-bit nonce; a race on the output word;
  a comparison of one limb instead of four. *No nonce is tried or submitted
  twice; only shares are submitted; a share is missed only behind a false
  positive or the sentinel.*
* **Kernels.** Wrapping index arithmetic, a first slice that computes nothing,
  memory that is reused. *Every reference is to a block of the job written in
  this batch; every block is written once, each from its predecessor.*
* **Work items.** 32 items trade words through local memory with one barrier a
  trade; hashes unrolled by hand and over buffers used twice. *What is hashed
  and mixed is what argon2 prescribes.*
* **Configuration.** Frees of interior pointers; several sources for one value;
  a file that outlives the process, or is cut off. *What is mined with comes
  from the last source that names it, with nothing of one that was refused; a
  created file brings its configuration back, a cut one nothing; no device gets
  two threads.*

`PROJECT.json` lists every hazard at its line with the properties that cover it.

## 2. The modules

```
MinerTypes ── WorkUpdate ──┐
          └── ShareSubmit ─┴─ AquaMiner ── MinerMemory
                     └─────── MainReport
ShareLedger (abstract)    ◀ refined by ShareSubmit
NonceSequences (abstract) ◀ refined by AquaMiner
NonceTrials (abstract)    ◀ refined by MinerScan
NonceScan ─┐               Shuffle ──┐
TargetCheck┴─ MinerScan    BlockHash ┴─ WorkItems    FillMemory    Startup
```

* **MinerTypes**: works, hashes and their constants. A work is a model value
  and `WorkHash` gives its hash, so two works may differ in the target alone.
* **WorkUpdate**: `updateThreadFn` as a process. `UpdCheck` is the loop
  condition, `PollOk`/`PollFail`/`PollAbort` the getWork request, `UpdCount`
  lines 313-319, `UpdPublish` the assignment under the mutex, `UpdInfo` the
  block information. The pool's job `nodeJob` changes by `NewBlock`.
  `PollAbort` and `InfoAbort` are the replies whose shape the code does not
  check; `BadReplies` says which of them the pool or node may send.
* **ShareSubmit**: `submitThreadFn` as a process per share. Its comparisons of
  a reply are abstracted to failed, accepted and rejected; everything that is
  not a `true` result counts as rejected, as in the code. `SubmitRuns` is all of
  it but the post, which may take for ever.
* **ShareLedger**: what submitting promises. `ShareSubmit` implements it with
  `ledger` mapped to where each submission is.
* **AquaMiner**: the program. It adds the miner threads (one action for each
  access to shared state) and `main`, and composes them with the update thread
  and the submissions. `SoloMine` chooses between a detached submission and one
  the miner waits for; `CtrlCHandled` tells a build that installs the handler
  (only `_MSC_VER`, main.cpp 146-151) from one that does not.
  An OpenCL call that fails ends the program (`MinerFails`). A shutdown frees
  the device pointers while the miners run: those that are not the array of
  their platform, or were freed by the filtering of the devices, may end the
  program there (`MainFreeDevices`); `FirstDevices` are the miners whose pointer
  is good.
* **NonceSequences**: what the miners promise about their sequences of nonces:
  one begins with new work and after a rejection, and with nothing else; a
  rejection is owed a new one until its miner has left the old one and
  acknowledged that, and no share is found in between.
* **MinerMemory**: `AquaMiner` with the allocator of the CPU's argon2. A change
  of the map is two steps; an access between those of another thread is a data
  race. From the first race on (`h_raced`) nothing is promised of the map: a
  lookup may give any thread's block or none (`Nodes`), a change may lose any
  nodes (`WhatIsLeft`), and any access may end the program (`RaceCrashes`). A
  miner waits for its block before it checks a nonce, frees it after its loop,
  and main before it starts any thread.
* **MainReport**: the report loop over the submissions' counters, one action
  for each read. Hashes are counted in batches, so the wrap is at `TotalMod`.
  `ReportAborts` is the assertion that the total did not become less; `ndebug`
  tells a build without assertions, in which the report goes on.
* **NonceScan**, **TargetCheck**: the nonces one thread tries and how one batch
  finds a share. **MinerScan** runs them together: the job the output names
  decides where the scan goes on and what is submitted.
* **NonceTrials**: what a scan promises, without saying where it goes: it tries
  batches of fresh nonces, and of each submits one share or none, none of a
  batch that has one only behind a decoy, which is a false positive of the GPU
  or a reported nonce that looks like the sentinel. `MinerScan` implements it;
  a batch is under way from its launch until the host has read it.
* **FillMemory**: `search`, `search1` and `search2` as one process per job;
  the data of a block is abstracted to how often it was written in this batch,
  the pseudo-random words are arbitrary.
* **Shuffle**: one step of `search1` on a block, by work items and words. A
  warp of 32 or fewer items is a process that executes in lockstep; `Write` and
  `Read` are `u64_shuffle` before and after its barrier, `Mix` a call of `g`.
  A word is named by its place in the block, so that the property can compare
  the quadruples that are mixed with those argon2 mixes.
* **BlockHash**: the blake2b hashes of `search` and `search2`: what each
  compression is given, and where its digest goes. `LoopRound1` to
  `LoopRound12` are the unrolled rounds, reduced to the message words they take.
* **WorkItems** runs the three kernels of a job in the order of the host.
* **Startup**: from launch to the miner threads, relaunches, edits of the file
  and a file cut off by a kill or a full disk included. A device id is the
  pointer the code keeps; `freed` is the set of platforms whose array was freed,
  and a free of anything else may abort. `Keep` is the loop that filters the
  devices, as a recursive function over the places of the list.
* `MC*` modules give constants to TLC; `*_proofs` hold the theorems.

An operator whose comment calls it a *mutant* is a wrong variant of the
definition next to it. `PROJECT.json` pairs each with the property that refutes it.

## 3. The runs

| run | configuration | checks | why this is enough |
|---|---|---|---|
| `work_update` | 3 works of 2 hashes, count mod 3, both bad replies | `PublishedIsLastServed`, `FreshWork`, `UpdateStops` | 3 works are the least with a change of hash, of target, and both |
| `program_pool` | 1 miner, 2 blocks, 2 shares, no shutdown | `AmTypeOK`, `ShareConsistent`, `NoRejectionLost`, `SequenceSpec` | a late rejection of one share overtakes another |
| `program_solo` | 2 solo miners, 2 shares, 2 blocks, self test to shutdown | `SubmitHandleLive`, `HandlesClosedAtExit`, `OwnBlock`, `BlocksFreed` | two miners contend for both mutexes, and one inserts while the other erases; without a race no more than two threads hold a block |
| `program_live` | 1 miner, 2 shares of one work, with shutdown, its device pointer a bad one | `WaitsAreServed`, `RejectionRedraws`, `MiningGoesOn`, `ShutdownCompletes` | count mod 3, so a pause may see the count come round |
| `report` | 2 shares, total mod 3, 4 batches, with and without assertions | `RepTypeOK`, `PostsExclusive`, `CountersExact`, `HashDeltaExact`, `QuietReportExact`, `LedgerSpec`, `EveryShareSettles` | the total wraps once, between and within reports; posts that hang, one or both |
| `miner_scan` | 7 nonces, batches of 2, numbers of 2 limbs of 3 values | `MsTypeOK`, `NoRescan`, `HalfTried`, `ShareNotMissed`, `TrialSpec` | a whole turn from every start; 7 is no multiple of 2, so batches straddle the wrap |
| `fill_memory` | 2 jobs, words of 4 bits | `RefsAreFilled`, `ChainUnbroken`, `FilledOnce`, `AddressesOfSlice` | the whole kernel; 16 words already reach every reference |
| `work_items` | warps of 32 and of 16 items | `ReadsThisOrNext`, `MixesAsArgon2`, `FirstBlocksAsArgon2`, `HashesLastBlock` | all 32 items, 128 words and 31 links of a chain as in the code; two warps are the least that can come apart |
| `startup` | 3 GPUs on 2 platforms, 2 addresses, 2 rates, lists with repeated and invalid ids, a file cut after 0 or 4 lines | `StartTypeOK`, `SourcesInTurn`, `OneThreadPerDevice`, `CreatedIsLoaded`, `CutFileIgnored` | all files and answers over these sets, command lines with up to two options besides the mode |
| `blocks_info_abort` | node sends a bad reply | `UpdateThreadSurvives` is violated | section 6 |
| `resume_work` | 1 miner, 2 blocks, 1 share | `ResumesOnNewWork` is violated | section 6 |
| `startup_devices` | as `startup` | `DevicesReadLive` is violated | section 6 |

Assertions count as part of the program: the CMake build, which the modules
follow, does not define `NDEBUG`. The `Rel*` configurations of
`build/premake5.lua` (line 65) do: there the assertions are gone, RapidJSON's
included. `MainReport` models both, since its property holds in both and the
assertion decides which cases are reached; elsewhere a failed assertion is the
end of the program.

Bounds: `Shares` bounds the shares found in a run, `MaxBatches` the batches
counted, `MaxSpan` how far a scan goes (a whole turn of the nonce space), and
`CountMod`, `TotalMod`, `NonceMod`, `WordMod` and `Base` stand for 2^32, 2^17
batches, 2^64, 2^32 and 2^64. `MaxBlocks` bounds the blocks of the allocator,
`Cuts` the places where a file is cut, `CommandLines` the options of a launch,
`Widths` the warps. The two counters of shares are not wrapped: they
are bounded by `Shares`. Symmetry is used only where no liveness is checked.
`CHECK_DEADLOCK FALSE` is in the runs of `WorkUpdate` (the thread may end, or
the program abort, with nothing left to happen), of `MinerScan` (a scan that
has come round stops at its bound) and of `WorkItems` (the job ends).

## 4. Fairness

`ThreadsRun` is weak fairness of each thread: the operating system runs it, the
GPU finishes a batch, and a getWork request returns. The last is an assumption:
the code sets no timeout, so a server that accepts a connection and never
answers keeps the update thread for ever. Of a share that is posted in the
background nothing of the kind is assumed: `SubmitGoesOn` leaves the post out,
so `MiningGoesOn` and `ShutdownCompletes` hold with a submission that hangs in
it and keeps the mutex. Only a solo miner, which posts itself, is assumed to
return. The report's `RepFairSpec` is fair to the same steps, of every
submission but its post, and `EveryShareSettles` names what is left: every
share settles unless some post hangs for ever or the program has ended.

`PoolAnswers` is strong fairness of a successful poll: a pool that is asked
again and again answers once. It is needed because a paused miner is left only
by a count that moves. `MinersLook` is strong fairness of the step that ends a
pause: the miner looks every 5 s, and the count would have to come round
exactly between two looks each time (2^32 polls). The count's modulus of 3
makes this visible to TLC; no other run depends on it.
Nothing is assumed of Ctrl+C, of the pool's changes of its job, or of the
finding of shares. Main's loop is fair because it sleeps and reads a flag. The
flags that stop the loops are plain `bool`s; every loop calls functions of other
translation units, so a build reads them anew in each turn.

## 5. The proofs

`tlapm` checks every theorem below for all values of the constants that the
named assumptions admit. Each module proves an inductive invariant first
(named in parentheses) and the properties from it.

* **ShareSubmit_proofs** (`SubInv`). `SubTyping`, `PostsAreExclusive`,
  `CountersAreExact`, `ImplementsLedger`. The invariant says that the mutex is
  held by exactly the share that is posting, and gives each counter as the
  cardinality of a set of submissions by their place; each step moves one share
  into one of these sets. The refinement is proved step by step from it:
  `SubmitCount` settles, `SubmitBegin` discards when submitting is off, all
  others stutter.
* **AquaMiner_proofs**, the whole program for any number of miners, in a pool
  and solo, with and without shutdown.
  * The update thread by itself (`UpdInv`): `UpdTyping`, `UpdPublishes`. The
    invariant adds that between counting and publishing `newWork` is the job
    served last.
  * `AmTyping`, `SharesAreConsistent`, `RejectionsAreKept` (`AmInv`).
    `NoRejectionLost` alone is not inductive: the miner clears its flag after
    drawing a nonce, so `CleanBeforeClear` must say that at that point none of
    its shares belongs to the current sequence. `ShareConsistent` needs
    `SeedOfWork`: whoever is about to scan holds the work its seed is of.
  * `ImplementsSequences`: the program implements `NonceSequences`, with a miner
    leaving its sequence where it draws a nonce and acknowledging where it
    clears its flag. The proof gives each abstract step the action it belongs to
    (`NewWorkBegins`, `RegenLeaves`, `ClearAcknowledges`, `FoundFinds`,
    `SubmissionRejects`), shows that no other step moves the abstract state,
    and needs `SeqInv`: a miner about to scan has work, and no miner runs
    before main starts it.
  * The shutdown (`StopInv`): `SubmitHandleLives`, `HandlesCloseAtExit`. The
    chain of reasons is: a solo miner whose share is under way waits in its call
    (`SubmitsInTurn`), main joins the miners before it destroys the connection
    (`MinersJoined`), so nothing is under way then (`NoneUnderWay`); the update
    thread closes its own connections before it is joined (`UpdateJoined`). Both
    theorems assume `SoloMine \/ ~CtrlCHandled`. That excludes exactly the pool
    miner of a build with the Ctrl+C handler, whose detached submissions nobody
    joins and of which the properties are false (section 6). Without the
    handler main never leaves its loop, and `HandlesClosedAtExit` says nothing.
  * Waiting (`ThreadFlags`): `NobodyWaitsInVain`, the part of deadlock freedom
    that needs no fairness. The flags and the places of the update thread follow
    from where main is, so while a miner is paused main has not passed its join
    (`MinersJoined`) and the update thread polls on; the mutex is held by a
    submission that posts and waits for nobody. The chains of waiting, from main
    to a miner to a submission to the one that posts, or to the update thread,
    therefore end in a thread that can run.
  * The parts in the whole: `RunsUpdateThread`, `ProgramPublishes`,
    `ProgramImplementsLedger`, `ProgramSubmits`. The program's steps are steps
    of the update thread alone, and its submissions, launched by miners and
    with the connection destroyed under them, implement the ledger.
* **MinerMemory_proofs** (`OwnInv`). `BlocksAreOwn`: as long as no accesses
  raced, a node of the map that a thread will still free names an allocated
  block no other such node names (`OwnNode`). `AllBlocksFreed` needs in addition
  that every allocated block is in the map under a thread that will free it
  (`NoneLost`) and that a thread frees before it ends (`FreedAtEnd`). Both say
  nothing of a run with a race, after which anything may be in the map.
  `OneMinerNeverRaces` says where there is none: with one GPU, for main has
  freed its block before it starts the miner (`ChangesAlone`), so with one GPU
  both hold without exception (`OneMinerOwnsAndFrees`).
  `RunsAsAquaMiner`: the memory only makes threads wait, so the theorems on
  `AquaMiner` hold of the composition; `StopsInOrder` states two of them.
  `NobodyWaitsForMemory` (`InsertsLocked`): the waits for the map's mutex are
  served as well, for only a thread that inserts holds it.
* **MainReport_proofs** (`RepInv`). `RepTyping`; `HashDeltasAreExact`: the
  wrapped total is the count of batches modulo `TotalMod` (`HashesWrap`), and
  the difference of two remainders is that of the counts (`ModCounter`, for
  every modulus). Where the total is less than at the last report, a multiple of
  the modulus lies between the two counts (`ModPassed`), so the assertion ends
  the program after a wrap only. `QuietReportsAreExact`: while nothing is in flight the counter
  read first stays exact (`QuietReport`). `ReportsAsSubmissions`, with
  `ReportsExactCounters`: the report leaves the submissions as they are.
* **MinerScan_proofs** (`ScanInv`, `CheckInv`, `MsInv`). Of the nonces alone:
  `NeverRescans`, `TriesHalf`; the invariant places every tried nonce within the
  span behind `s_nonce`, measured with the wrap. Of one batch alone:
  `SubmitsOnlyShares`, `SharesAreNotMissed`, `FalsePositivesAreTies`: a number
  below the target passes the one-limb test, whichever limb `mpz_export` writes
  first. `ScansAsNonceScan` and `ChecksAsTargetCheck`: the composition
  implements both parts, so their theorems hold of it (`ScansAsItsParts`).
  `MsTyping`. `NeverSubmitsTwice`: every submitted nonce was tried, and a batch
  about to be read shares no nonce with what was tried before it.
  `ImplementsTrials` (`TrialInv`): the scan implements `NonceTrials`, action by
  action. A draw draws, `MsLaunch` launches, `MsRead` finishes, and the steps of
  the GPU and the moves of `s_nonce` stutter: the former because a batch stays
  at the nonce it was launched at (`scanPc` is "scan" until it is read), the
  latter because nothing is under way between two batches. `OnlyShares` and
  `NoShareTwice` are stated for the reader; `TrialSpec` implies both, so no run
  checks them by themselves.
* **FillMemory_proofs** (`FillInv`). All its invariants, for any number of jobs
  and any word width above 8. `MulHiBound` and `RefIndexBound` are the arithmetic
  of `compute_ref_pos`; the inductive invariant gives `mem_curr` as a function of
  the loop variables and says that the written blocks of a job are exactly its
  first ones.
* **WorkItems_proofs**. `ReadsAreThisOrNext` for every width of the warps
  (`ShufInv`): no warp leaves a shuffle before all have come to it (`Together`),
  so a warp's slots hold its last shuffle (`SlotsWritten`), which is this one or
  the next. It rests on where the program of a step mixes (`ProgramIs`) and
  on every source being an item (`SourcesAreItems`). `RunsShuffle`,
  `ItemsReadThisOrNext` carry it over to the three kernels.
  `WarpMixesAsArgon2`, with `ItemsMixAsArgon2` for the kernels: a warp of all 32
  items computes argon2's permutation. The inductive invariant (`OneWarp`) gives
  the place of every word before each of the 27 operations (`Layout`): rows by
  fours or by pairs, as loaded, transposed, or with registers turned by one. A
  shuffle with its writes done takes one layout to the next (`LayoutsMove`): the
  transpositions undo themselves (`ThreadsByFours`, `ThreadsByPairs`), and so do
  the shifts before and after the diagonals (`ShiftsUndone`). In the four
  layouts at a call of `g` the items hold exactly the columns or the diagonals
  of the rows, or of the pairs (`MixingsAre`).
  `FirstBlocksAreArgon2s` (`FirstInv`): the digest of the parameters stays in
  the buffer between its two uses (`DigestHeld`), a chain of n links has stored
  the first 4n words of its block (`Stored`), and the twelve unrolled rounds
  take exactly the words of `sigma` below eight (`RoundsAreSigma`).
  `LastBlockIsHashed` (`FinalInv`): the copy is whole until the last compression.
* **Startup_proofs** (`StartInv`), for any GPUs, platforms, addresses, rates,
  lists, command lines and places of a cut. `StartTyping`, `SourcesAreInTurn`,
  `DevicesHaveOneThread`, `CreatedFileLoads`, `CutFileSetsNothing`. The lemmas
  say what `Keep` gives: a list without repetitions stays one and holds what is
  at the places kept, and keeping all places changes nothing; they go by
  induction over the places, from the least counterexample. `CreatedFile` says
  that a created file is readable and that loading it from the defaults gives
  the configuration it was written from, as the questions are asked of the
  defaults only (`DefaultUntilSet`). `InTurn` says what is set at each stage:
  the questions are asked only where no file loads, before the options all comes
  from the file or the defaults, after them from the options first.

Assumptions on the constants are the `ASSUME`s of the modules: the sets of model
values are disjoint from their special members, moduli and bounds are positive,
`Widths` are divisors of 32, GPUs are listed by platform.

Only model-checked:

* the liveness properties `FreshWork`, `UpdateStops`, `EveryShareSettles`,
  `RejectionRedraws`, `MiningGoesOn`, `ShutdownCompletes`, which need fairness
  and `ENABLED`;
* the properties that do not hold (section 6).

No module a theorem rests on has a recursive operator; `LeTarget` picks its limb
with `CHOOSE`.

## 6. What the code does against its own words

Each is a run in which TLC finds the violation.

* `blocks_info_abort`: `getBlocksInfo` asks `HasMember` of a reply that may not
  be an object, and RapidJSON's assertion ends the program; "do not panic,
  mining might still be ok" (updateThread.cpp 346). `setCurrentWork` does the
  same with a result that is not an array (`PollAbort`).
* `resume_work`: a pause ends with the next successful poll, whatever it
  brought: "wait for update thread to get new work" (miner.cpp 696).
* `startup_devices`: with `-g 1,3` on GPUs 1 and 2+3 of two platforms, device 2
  is freed, and with it the array that holds device 3, which the third thread
  then reads.

Known from the models and not given a run: in a pool a detached submission may
post on the connection `stopMinerThreads` destroys (`SubmitHandleLive` fails
with `SoloMine = FALSE`); a shutdown hangs while a miner is paused and the pool
does not answer (`ShutdownCompletes` fails without `PoolAnswers`); both need
the Ctrl+C handler. A share is counted as accepted before it is counted as
submitted, so a report may print a wrapped count of rejected ones, which is why
`QuietReportExact` speaks of quiet reports. A late rejection of an old share
pauses a miner that already has new work. `assert(nHashes >= nHashesLast)`
(main.cpp 199) ends the program when the `uint32_t` total has wrapped since
the last report, every 131072 batches (`ReportAborts`), although the subtraction
below it wraps too and would be right, as it is where `NDEBUG` is defined
(`HashDeltaExact`). A shutdown frees device pointers that are not what malloc
returned, or freed already (main.cpp 227-230, hardware_utils.cpp 125-130), and
may end there with two GPUs of one platform or a selection of them. A share that
is never answered keeps the mutex of the submissions: mining goes on, but no
later share is submitted. Two miner threads may race on the allocator's map
(miner.cpp 179, 188, 205-211), which is undefined: the program may fail
`assert(*memory)`, crash, hash in a block that is another thread's or freed, or
leave one behind. On a device whose warps are narrower than 32, `search1` may read words
of the next shuffle and compute a wrong hash, which the CPU's check keeps from
being submitted. The kernels get passes, lanes and segment size as constants
(miner.cpp 744-752), whatever `--argon` says. A file whose device ids are all out
of range is loaded and fails the assertion in `startMinerThreads`.

## 7. What is not modelled

* The arithmetic of a blake2b round and of `g`: words are named by where they
  come from, and the initial values and counters other than the byte counts of
  the messages are left out. `FillMemory` takes the 32 work items of a job as
  one process; `MixesAsArgon2` is what justifies that, for warps of 32.
* OpenCL calls whose errors the program prints and ignores; the buffers of a
  thread.
* Logging, formatting, timers, the results of the hash self test, `getPwd`, and
  the separate golang program. The request ids: a poll and a submission may
  carry the same one, but they use separate connections and no reply is matched
  by its id.
* libcurl, RapidJSON and GMP, except for what the code relies on: whether a
  call succeeds, what an unchecked access does, what `mpz_export` writes first.
* `generateAquaSeed`'s assertions on a hash that is not 32 bytes of hexadecimal
  digits (miner.cpp 216-240): the works of the model have a proper hash. Of the
  replies that stop the update thread `PollAbort` keeps only that they do: a
  result that is not an array of strings, has fewer than three, or a target of
  zero, by which the code divides.
* What a race on the allocator's map does beyond the map and the blocks.
* What a thread reads from the device ids main has freed (main.cpp 227-230): a
  thread started just before may fail (`MinerFails`), which is always possible.
* In Startup: `-h`, `--proxy`, `--argon`, `--submit`, file lines of more than
  1023 characters, a cut in the middle of a line (one in the last line leaves a
  file that is loaded with part of the node's address), GPUs that come and go.

## 8. The plan

Done: the update thread, the submissions with their ledger, the whole program
with the abstract nonce sequences, the allocator, the report, the scan with its
abstract trials, the three kernels by blocks and by work items, the start with
its file, and proofs of every safety property the runs check. Left, most
important first:

1. One abstract specification of the miners that joins `NonceSequences` with
   `NonceTrials`, with the nonces of the program's scans in place of its batches
   that find a share or none.
2. The report composed with the program that shuts down, in place of the
   submissions alone.
3. `FillMemory` with a job of 32 items in place of its one process, where the
   warps are narrower.
