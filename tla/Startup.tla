------------------------------ MODULE Startup ------------------------------
(***************************************************************************)
(* From the launch of the program to its miner threads: the mining         *)
(* configuration (miningConfig.cpp) starts from all GPUs                   *)
(* (hardware_utils.cpp), is loaded from a file or created by questions     *)
(* (config.cpp), changed by options (args.cpp), and ends with the program  *)
(* (main.cpp); the file stays, and may be edited before the next launch.   *)
(* A device is known by a pointer into the array of its platform, and free *)
(* of a device that is not wanted is free of that pointer.                 *)
(***************************************************************************)
EXTENDS Integers, Sequences, FiniteSets, SequencesExt

CONSTANTS
  NumDevices,  (* GPUs, numbered from 1 in the order the platforms list them *)
  PlatformOf,  (* the platform of each                                       *)
  Urls,        (* addresses, and the empty one                               *)
  DefaultUrl,
  NoUrl,
  Rates,       (* refresh rates, the default one, and a line with no number  *)
  DefaultRate,
  BadRate,
  IdLists,     (* lists of GPU numbers a user writes, and a line that stoi   *)
  BadIds,      (* throws on                                                  *)
  Cuts,        (* after how many lines the writing of the file may be cut    *)
  CommandLines, (* the options the program is launched with                 *)
  NotGiven,    (* an option that is not on the command line                  *)
  NoFile,      (* there is no configuration file                             *)
  NoConfig     (* no configuration was written to it                         *)

Devices  == 1..NumDevices
N_PARAMS == 5  (* lines of a configuration file *)

ASSUME StartupAssumption ==
  /\ NumDevices \in Nat \ {0}
  /\ PlatformOf \in [Devices -> Nat]
  /\ \A d, e \in Devices : d <= e => PlatformOf[d] <= PlatformOf[e]
  /\ DefaultUrl \in Urls /\ NoUrl \notin Urls
  /\ DefaultRate \in Rates /\ BadRate \notin Rates
  /\ Cuts \subseteq 0..(N_PARAMS - 1)
  /\ IdLists \subseteq Seq(Nat) /\ BadIds \notin Seq(Nat)
  /\ NotGiven \notin Urls \cup {NoUrl, BadRate, BadIds} \cup Rates \cup IdLists

VARIABLES
  startPc,   (* "off", "load", "ask", "create", "args", "start", "mine" or   *)
             (* "aborted"                                                    *)
  options,   (* the command line of this launch                              *)
  cfg,       (* s_cfg                                                        *)
  file,      (* the configuration file                                       *)
  freed,     (* platforms whose array of devices was freed                   *)
  h_created  (* history: the configuration the file was created from, while  *)
             (* nobody has edited it                                         *)

startVars == <<startPc, options, cfg, file, freed, h_created>>

Options == [solo : BOOLEAN, ids : IdLists \cup {BadIds, NotGiven},
            rate : Rates \cup {BadRate, NotGiven}, url : Urls \cup {NoUrl, NotGiven},
            node : Urls \cup {NotGiven}]
ASSUME CommandLinesAssumption == CommandLines \subseteq Options

NoOptions == [solo |-> FALSE, ids |-> NotGiven, rate |-> NotGiven,
              url |-> NotGiven, node |-> NotGiven]

MiningConfig == [soloMine : BOOLEAN, gpuIds : Seq(Devices), refreshRateMs : Rates,
                 getWorkUrl : Urls, submitWorkUrl : Urls \cup {NoUrl},
                 fullNodeUrl : Urls \cup {NoUrl}]

(* The lines of a configuration file, and how many of them there are.  A   *)
(* file that is cut off has its first ones.                                *)
FilesOf(lists) ==
  [mode : {"pool", "solo", "neither"}, url : Urls \cup {NoUrl},
   ids : lists \cup {BadIds}, rate : Rates \cup {BadRate},
   node : Urls \cup {NoUrl}, lines : {N_PARAMS}]

ASSUME NoFileAssumption == NoFile \notin FilesOf(Seq(Nat))

Cut(f, n) ==
  [mode |-> IF n > 0 THEN f.mode ELSE "neither", url |-> IF n > 1 THEN f.url ELSE NoUrl,
   ids |-> IF n > 2 THEN f.ids ELSE BadIds, rate |-> IF n > 3 THEN f.rate ELSE BadRate,
   node |-> NoUrl, lines |-> n]

StartTypeOK ==
  /\ startPc \in {"off", "load", "ask", "create", "args", "start", "mine", "aborted"}
  /\ options \in Options
  /\ cfg \in MiningConfig
  /\ \/ file = NoFile
     \/ file.lines \in 0..N_PARAMS /\ [file EXCEPT !.lines = N_PARAMS] \in FilesOf(Seq(Nat))
  /\ freed \subseteq {PlatformOf[d] : d \in Devices}
  /\ h_created \in MiningConfig \cup {NoConfig}

(* initMiningConfig *)
DefaultConfig ==
  [soloMine |-> FALSE, gpuIds |-> [i \in Devices |-> i], refreshRateMs |-> DefaultRate,
   getWorkUrl |-> DefaultUrl, submitWorkUrl |-> NoUrl, fullNodeUrl |-> NoUrl]

StartInit ==
  /\ startPc = "off"
  /\ options = NoOptions
  /\ cfg = DefaultConfig
  /\ file = NoFile
  /\ freed = {}
  /\ h_created = NoConfig

-----------------------------------------------------------------------------
(* The devices of a list whose places a user has named; mutated, once for  *)
(* each time they are named.                                               *)
SelectEach(list, ids) ==
  LET named == SelectSeq(ids, LAMBDA i : i \in DOMAIN list)
  IN [k \in DOMAIN named |-> list[named[k]]]

(* The loop over a list that keeps what is at the places S, and what it    *)
(* has kept of the first n places.                                         *)
Keep(list, S) ==
  LET kept[n \in 0..Len(list)] ==
        IF n = 0 THEN <<>>
        ELSE IF n \in S THEN Append(kept[n - 1], list[n]) ELSE kept[n - 1]
  IN kept[Len(list)]

Select(list, ids) == Keep(list, ToSet(ids) \cap DOMAIN list)

(* free of a device is free of the array of its platform if the device is  *)
(* its first one, and undefined otherwise or when the array is freed.      *)
First(d)    == \A e \in Devices : PlatformOf[e] = PlatformOf[d] => d <= e
Freed(S)    == freed \cup {PlatformOf[d] : d \in {e \in S : First(e)}}
BadFree(S)  == \E d \in S : ~First(d) \/ PlatformOf[d] \in freed
Dropped(list, ids) == ToSet(list) \ ToSet(Select(list, ids))

(* setMiningConfig *)
Set(c) == [c EXCEPT !.submitWorkUrl = c.getWorkUrl,
                    !.fullNodeUrl = IF c.soloMine THEN c.getWorkUrl ELSE @]

(* What follows an assertion that fails, an exception nobody catches, or   *)
(* an invalid free the allocator notices.                                  *)
Abort == startPc' = "aborted" /\ UNCHANGED <<options, cfg, file, freed, h_created>>

(* The process ends, its memory with it. *)
Gone ==
  /\ startPc' = "off"
  /\ options' = NoOptions /\ cfg' = DefaultConfig /\ freed' = {}
  /\ UNCHANGED <<file, h_created>>

(* The devices S are freed; a bad free may go unnoticed. *)
Free(S) == freed' = Freed(S)

-----------------------------------------------------------------------------
(* main: the defaults, then the file if there is one, or the questions if  *)
(* there are no options.                                                   *)
LaunchProgram(o) ==
  /\ startPc = "off"
  /\ options' = o
  /\ cfg' = DefaultConfig
  /\ freed' = {}
  /\ startPc' = IF file # NoFile THEN "load"
                ELSE IF o = NoOptions THEN "create" ELSE "args"
  /\ UNCHANGED <<file, h_created>>

(* loadConfigFile.  Ids that are not numbers are ignored, ids out of range *)
(* reported and dropped.                                                   *)
FileIds == IF file.ids = BadIds THEN [i \in DOMAIN cfg.gpuIds |-> i] ELSE file.ids

Loaded ==
  [cfg EXCEPT !.soloMine = (file.mode = "solo"),
              !.gpuIds = Select(@, FileIds),
              !.refreshRateMs = file.rate,
              !.getWorkUrl = file.url,
              !.fullNodeUrl = file.node]

(* Mutant of Readable: a line that is missing is taken for an empty one. *)
ReadableInPart == file.mode # "neither"

Readable == file.lines = N_PARAMS /\ file.mode # "neither"

(* Lines are missing, or the first is neither mode. *)
LoadUnreadable ==
  /\ startPc = "load"
  /\ ~Readable
  /\ startPc' = "ask"
  /\ UNCHANGED <<options, cfg, file, freed, h_created>>

(* The devices are freed before the refresh rate is read; mutated, a line  *)
(* without a number is taken for a rate.                                   *)
LoadUnchecked ==
  /\ startPc = "load"
  /\ Readable
  /\ Free(Dropped(cfg.gpuIds, FileIds))
  /\ cfg' = Set(Loaded)
  /\ startPc' = "args"
  /\ UNCHANGED <<options, file, h_created>>

(* Mutant of LoadDevices: the lines are loaded into s_cfg, not into a copy *)
(* that is only taken when all of them are good.                           *)
LoadInPlace ==
  /\ startPc = "load"
  /\ Readable
  /\ Free(Dropped(cfg.gpuIds, FileIds))
  /\ IF file.rate = BadRate
       THEN startPc' = "ask" /\ cfg' = [cfg EXCEPT !.soloMine = (file.mode = "solo"),
                                                  !.gpuIds = Select(@, FileIds)]
       ELSE IF file.url = NoUrl
         THEN startPc' = "aborted" /\ UNCHANGED cfg
         ELSE startPc' = "args" /\ cfg' = Set(Loaded)
  /\ UNCHANGED <<options, file, h_created>>

LoadDevices ==
  /\ startPc = "load"
  /\ Readable
  /\ Free(Dropped(cfg.gpuIds, FileIds))
  /\ IF file.rate = BadRate
       THEN startPc' = "ask" /\ UNCHANGED cfg
       ELSE IF file.url = NoUrl
         THEN startPc' = "aborted" /\ UNCHANGED cfg
         ELSE startPc' = "args" /\ cfg' = Set(Loaded)
  /\ UNCHANGED <<options, file, h_created>>

LoadBadFree ==
  /\ startPc = "load"
  /\ Readable
  /\ BadFree(Dropped(cfg.gpuIds, FileIds))
  /\ Abort

(* The file was invalid: "do you want to create a new config file ?" *)
Answer(yes) ==
  /\ startPc = "ask"
  /\ startPc' = IF yes THEN "create" ELSE "args"
  /\ UNCHANGED <<options, cfg, file, freed, h_created>>

(* createConfigFile, with the answers that end its questions: no address   *)
(* means the default one and the pool; ids NotGiven is an empty line.      *)
Answers == {a \in [solo : BOOLEAN, url : Urls \cup {NoUrl}, node : Urls \cup {NoUrl},
                   ids : IdLists \cup {NotGiven}, rate : Rates] :
              a.ids # NotGiven => a.ids # <<>> /\ ToSet(a.ids) \subseteq Devices}

AnsweredIds(a) == IF a.ids = NotGiven THEN [i \in DOMAIN cfg.gpuIds |-> i] ELSE a.ids

Answered(a) ==
  LET solo == a.solo /\ a.url # NoUrl
      url  == IF a.url = NoUrl THEN DefaultUrl ELSE a.url
  IN [cfg EXCEPT !.soloMine = solo,
                 !.gpuIds = Select(@, AnsweredIds(a)),
                 !.refreshRateMs = a.rate,
                 !.getWorkUrl = url,
                 !.fullNodeUrl = IF solo THEN url ELSE a.node]

(* What is written: the ids once each, in order; mutated, the places the   *)
(* devices have in the new list.                                           *)
WrittenRenumbered(a) ==
  LET c == Answered(a)
  IN [mode |-> IF c.soloMine THEN "solo" ELSE "pool", url |-> c.getWorkUrl,
      ids |-> [i \in DOMAIN c.gpuIds |-> i], rate |-> c.refreshRateMs,
      node |-> c.fullNodeUrl, lines |-> N_PARAMS]

Written(a) ==
  LET c == Answered(a)
  IN [mode |-> IF c.soloMine THEN "solo" ELSE "pool", url |-> c.getWorkUrl,
      ids |-> Select([i \in Devices |-> i], AnsweredIds(a)), rate |-> c.refreshRateMs,
      node |-> c.fullNodeUrl, lines |-> N_PARAMS]

Create(a) ==
  /\ startPc = "create"
  /\ Free(Dropped(cfg.gpuIds, AnsweredIds(a)))
  /\ file' = Written(a)
  /\ cfg' = Set(Answered(a))
  /\ h_created' = cfg'
  /\ startPc' = "args"
  /\ UNCHANGED options

(* The file cannot be opened: the answers are lost, the devices are freed. *)
CreateFails(a) ==
  /\ startPc = "create"
  /\ Free(Dropped(cfg.gpuIds, AnsweredIds(a)))
  /\ startPc' = "args"
  /\ UNCHANGED <<options, cfg, file, h_created>>

(* Each line is flushed as it is written.  The disk may be full after some *)
(* of them, which is noticed at the end; or the program may be killed.     *)
CreateCutOff(a, n) ==
  /\ startPc = "create"
  /\ Free(Dropped(cfg.gpuIds, AnsweredIds(a)))
  /\ file' = Cut(Written(a), n)
  /\ h_created' = NoConfig
  /\ startPc' = "args"
  /\ UNCHANGED <<options, cfg>>

CreateKilled(a, n) ==
  /\ startPc = "create"
  /\ file' = Cut(Written(a), n)
  /\ h_created' = NoConfig
  /\ startPc' = "off"
  /\ options' = NoOptions /\ cfg' = DefaultConfig /\ freed' = {}

CreateBadFree(a) ==
  /\ startPc = "create"
  /\ BadFree(Dropped(cfg.gpuIds, AnsweredIds(a)))
  /\ Abort

(* parseArgs.  An id out of range and a rate that is none end the program, *)
(* ids that are not numbers and an empty address abort it.                 *)
OptionIds == IF options.ids = NotGiven THEN [i \in DOMAIN cfg.gpuIds |-> i] ELSE options.ids

Parsed ==
  [cfg EXCEPT !.soloMine = @ \/ options.solo,
              !.gpuIds = Select(@, OptionIds),
              !.refreshRateMs = IF options.rate = NotGiven THEN @ ELSE options.rate,
              !.getWorkUrl = IF options.url = NotGiven THEN @ ELSE options.url,
              !.fullNodeUrl = IF options.node = NotGiven THEN @ ELSE options.node]

IdsInRange == \A i \in ToSet(OptionIds) : i \in DOMAIN cfg.gpuIds

ParseThrows == startPc = "args" /\ options.ids = BadIds /\ Abort

ParseRefuses ==
  /\ startPc = "args"
  /\ options.ids # BadIds
  /\ ~IdsInRange \/ options.rate = BadRate
  /\ Gone

ParseArgs ==
  /\ startPc = "args"
  /\ options.ids # BadIds /\ IdsInRange /\ options.rate # BadRate
  /\ Free(Dropped(cfg.gpuIds, OptionIds))
  /\ IF options.url = NoUrl
       THEN startPc' = "aborted" /\ UNCHANGED cfg
       ELSE startPc' = "start" /\ cfg' = Set(Parsed)
  /\ UNCHANGED <<options, file, h_created>>

ParseBadFree ==
  /\ startPc = "args"
  /\ options.ids # BadIds /\ IdsInRange
  /\ BadFree(Dropped(cfg.gpuIds, OptionIds))
  /\ Abort

(* startMinerThreads asserts that there is one. *)
StartMiners ==
  /\ startPc = "start"
  /\ startPc' = IF cfg.gpuIds = <<>> THEN "aborted" ELSE "mine"
  /\ UNCHANGED <<options, cfg, file, freed, h_created>>

(* The program is stopped, or has stopped itself. *)
ProcessEnds == startPc \in {"mine", "aborted"} /\ Gone

(* The user edits or deletes the file between two launches. *)
EditFile(f) ==
  /\ startPc = "off"
  /\ file' = f
  /\ h_created' = NoConfig
  /\ UNCHANGED <<startPc, options, cfg, freed>>

StartNext ==
  \/ \E o \in CommandLines : LaunchProgram(o)
  \/ LoadUnreadable \/ LoadDevices \/ LoadBadFree
  \/ \E yes \in BOOLEAN : Answer(yes)
  \/ \E a \in Answers : Create(a) \/ CreateFails(a) \/ CreateBadFree(a)
  \/ \E a \in Answers, n \in Cuts : CreateCutOff(a, n) \/ CreateKilled(a, n)
  \/ ParseThrows \/ ParseRefuses \/ ParseArgs \/ ParseBadFree
  \/ StartMiners \/ ProcessEnds
  \/ \E f \in FilesOf(IdLists) \cup {NoFile} : EditFile(f)

StartSpec == StartInit /\ [][StartNext]_startVars

-----------------------------------------------------------------------------
(* What the program mines with comes from the last source that names it:   *)
(* the options, else a file that is complete, else the defaults, whatever  *)
(* was loaded in part, asked, created or refused in between.  Shares go to *)
(* the address the work comes from, and so do a solo miner's questions     *)
(* (miningConfig.cpp 11-33, config.cpp 69-117, args.cpp 58-103).           *)
FileLoads == file # NoFile /\ Readable /\ file.rate # BadRate

Latest(option, line, default) ==
  IF option # NotGiven THEN option ELSE IF FileLoads THEN line ELSE default

ComesFrom(o) ==
  /\ cfg.soloMine = (o.solo \/ (FileLoads /\ file.mode = "solo"))
  /\ cfg.getWorkUrl = Latest(o.url, file.url, DefaultUrl)
  /\ cfg.refreshRateMs = Latest(o.rate, file.rate, DefaultRate)
  /\ cfg.fullNodeUrl = IF cfg.soloMine THEN cfg.getWorkUrl ELSE Latest(o.node, file.node, NoUrl)

SourcesInTurn ==
  startPc = "mine" => ComesFrom(options) /\ cfg.submitWorkUrl = cfg.getWorkUrl

(* No two miner threads mine on one device, however often it is named      *)
(* (config.cpp 89-107, args.cpp 68-87, miner.cpp 590).                     *)
OneThreadPerDevice ==
  startPc = "mine" =>
    \A i, j \in DOMAIN cfg.gpuIds : i # j => cfg.gpuIds[i] # cfg.gpuIds[j]

(* A file the program has written and nobody has edited brings back the    *)
(* configuration it was written from, at every later launch without        *)
(* options (config.cpp 254-262 against 69-117).                            *)
CreatedIsLoaded ==
  startPc = "mine" /\ options = NoOptions /\ h_created # NoConfig => cfg = h_created

(* A file whose writing was cut short, by a crash or a full disk, sets     *)
(* nothing at this launch or a later one (config.cpp 62-68, 248-267).      *)
CutFileIgnored ==
  startPc = "mine" /\ options = NoOptions /\ file # NoFile /\ file.lines < N_PARAMS
    => cfg = Set(DefaultConfig)

(* The program reads a device only through a pointer into an array that is *)
(* allocated: "Use one of available devices from configuration"            *)
(* (miner.cpp 589); createConfigFile reads them too (config.cpp 175).      *)
DevicesReadLive ==
  startPc \in {"create", "mine"} =>
    \A d \in ToSet(cfg.gpuIds) : PlatformOf[d] \notin freed
=============================================================================
