---------------------------- MODULE Startup_proofs ---------------------------
(***************************************************************************)
(* Configuring the program, for any GPUs and platforms, any addresses,     *)
(* rates and lists of numbers, any command lines and any places at which   *)
(* the writing of the file may be cut off.                                 *)
(***************************************************************************)
EXTENDS Startup, WellFoundedInduction, TLAPS

(* A set of numbers that holds 0, and with each number the next, holds     *)
(* them all.                                                               *)
LEMMA AllNumbers ==
  ASSUME NEW S, 0 \in S, \A n \in Nat : n \in S => n + 1 \in S
  PROVE  Nat \subseteq S
<1> SUFFICES ASSUME Nat \ S # {} PROVE FALSE
  OBVIOUS
<1> DEFINE R == OpToRel(<, Nat)
<1>1. IsWellFoundedOn(R, Nat)
  BY NatLessThanWellFounded
<1>2. PICK n \in Nat \ S : \A m \in Nat \ S : ~(<<m, n>> \in R)
  <2>1. Nat \ S \subseteq Nat
    OBVIOUS
  <2> QED
    BY <1>1, <2>1, WFMin
<1>3. \A m \in Nat : m < n => m \in S
  BY <1>2 DEF OpToRel
<1> HIDE DEF R
<1>4. n \in Nat /\ n \notin S
  BY <1>2
<1>5. n - 1 \in Nat /\ n - 1 < n /\ (n - 1) + 1 = n
  BY <1>4
<1> QED
  BY <1>3, <1>4, <1>5

(* One turn of the loop of Keep, which is a recursive function. *)
Step(list, S, f, n) ==
  IF n = 0 THEN <<>> ELSE IF n \in S THEN Append(f[n - 1], list[n]) ELSE f[n - 1]

LEMMA KeepIsDefined ==
  ASSUME NEW list, NEW S, NEW m \in Nat
  PROVE  \E f : f = [n \in 0..m |-> Step(list, S, f, n)]
<1> DEFINE Defined == {n \in Nat : \E f : f = [k \in 0..n |-> Step(list, S, f, k)]}
<1>1. 0 \in Defined
  <2> DEFINE f == [k \in 0..0 |-> <<>>]
  <2>1. f = [k \in 0..0 |-> Step(list, S, f, k)]
    BY DEF Step
  <2> QED
    BY <2>1
<1>2. ASSUME NEW n \in Nat, n \in Defined PROVE n + 1 \in Defined
  <2>1. PICK f : f = [k \in 0..n |-> Step(list, S, f, k)]
    BY <1>2
  <2> DEFINE g == [k \in 0..(n + 1) |-> IF k = n + 1 THEN Step(list, S, f, n + 1) ELSE f[k]]
  <2>2. ASSUME NEW k \in 0..(n + 1) PROVE g[k] = Step(list, S, g, k)
    <3>1. \A j \in 0..n : g[j] = f[j]
      OBVIOUS
    <3>2. CASE k = n + 1
      <4>1. g[k] = Step(list, S, f, k) /\ k # 0 /\ k - 1 \in 0..n
        BY <3>2
      <4> QED
        BY <3>1, <4>1 DEF Step
    <3>3. CASE k \in 0..n
      <4>1. g[k] = Step(list, S, f, k)
        BY <2>1, <3>3
      <4>2. k # 0 => k - 1 \in 0..n
        BY <3>3
      <4> QED
        BY <3>1, <4>1, <4>2 DEF Step
    <3> QED
      BY <3>2, <3>3
  <2>3. g = [k \in 0..(n + 1) |-> Step(list, S, g, k)]
    BY <2>2
  <2> HIDE DEF g
  <2> QED
    BY <2>3
<1>3. m \in Defined
  BY <1>1, <1>2, AllNumbers
<1> QED
  BY <1>3

LEMMA KeepSteps ==
  ASSUME NEW list, NEW S, Len(list) \in Nat
  PROVE  \E f : /\ f = [n \in 0..Len(list) |-> Step(list, S, f, n)]
                /\ Keep(list, S) = f[Len(list)]
<1>1. \E f : f = [n \in 0..Len(list) |-> Step(list, S, f, n)]
  BY KeepIsDefined
<1> QED
  BY <1>1 DEF Step, Keep

Different(s) == \A i, j \in DOMAIN s : i # j => s[i] # s[j]

LEMMA AppendAdds ==
  ASSUME NEW D, NEW s \in Seq(D), NEW d \in D
  PROVE  /\ Append(s, d) \in Seq(D)
         /\ ToSet(Append(s, d)) = ToSet(s) \cup {d}
         /\ Different(s) /\ d \notin ToSet(s) => Different(Append(s, d))
<1> DEFINE a == Append(s, d)
<1>1. /\ a \in Seq(D) /\ Len(a) = Len(s) + 1 /\ a[Len(s) + 1] = d
      /\ \A k \in 1..Len(s) : a[k] = s[k]
  OBVIOUS
<1>2. /\ DOMAIN s = 1..Len(s) /\ Len(s) \in Nat
      /\ DOMAIN a = (1..Len(s)) \cup {Len(s) + 1}
  BY <1>1
<1> HIDE DEF a
<1>3. ToSet(a) = ToSet(s) \cup {d}
  BY <1>1, <1>2 DEF ToSet
<1>4. Different(s) /\ d \notin ToSet(s) => Different(a)
  BY <1>1, <1>2 DEF ToSet, Different
<1> QED
  BY <1>1, <1>3, <1>4 DEF a

(* Kept are the elements at the places S, once each if they are different. *)
LEMMA KeepsWhatIsNamed ==
  ASSUME NEW D, NEW list \in Seq(D), NEW S
  PROVE  /\ Keep(list, S) \in Seq(D)
         /\ ToSet(Keep(list, S)) = {list[k] : k \in S \cap (1..Len(list))}
         /\ Different(list) => Different(Keep(list, S))
<1> DEFINE L == Len(list)
           Kept(n) == {list[k] : k \in S \cap (1..n)}
<1>1. L \in Nat /\ DOMAIN list = 1..L /\ \A k \in 1..L : list[k] \in D
  OBVIOUS
<1>2. PICK f : f = [n \in 0..L |-> Step(list, S, f, n)] /\ Keep(list, S) = f[L]
  BY <1>1, KeepSteps
<1> DEFINE Good(n) == /\ f[n] \in Seq(D)
                      /\ ToSet(f[n]) = Kept(n)
                      /\ Different(list) => Different(f[n])
           Goods == {n \in Nat : n <= L => Good(n)}
<1> HIDE DEF L
<1>3. 0 \in Goods
  <2>1. f[0] = <<>>
    BY <1>1, <1>2 DEF Step
  <2>2. <<>> \in Seq(D) /\ ToSet(<<>>) = {} /\ Different(<<>>)
    BY DEF ToSet, Different
  <2>3. Kept(0) = {}
    OBVIOUS
  <2> QED
    BY <2>1, <2>2, <2>3
<1>4. ASSUME NEW n \in Nat, n \in Goods PROVE n + 1 \in Goods
  <2> SUFFICES ASSUME n + 1 <= L PROVE Good(n + 1)
    OBVIOUS
  <2>1. Good(n)
    BY <1>1, <1>4
  <2>2. n + 1 \in 1..L /\ n + 1 \in 0..L /\ n + 1 # 0 /\ (n + 1) - 1 = n
    BY <1>1
  <2>3. f[n + 1] = IF n + 1 \in S THEN Append(f[n], list[n + 1]) ELSE f[n]
    BY <1>2, <2>2 DEF Step
  <2>4. 1..(n + 1) = (1..n) \cup {n + 1}
    OBVIOUS
  <2>5. CASE n + 1 \in S
    <3>1. Kept(n + 1) = Kept(n) \cup {list[n + 1]}
      BY <2>4, <2>5
    <3>2. Different(list) => list[n + 1] \notin Kept(n)
      BY <1>1, <2>2 DEF Different
    <3> QED
      BY <1>1, <2>1, <2>2, <2>3, <2>5, <3>1, <3>2, AppendAdds
  <2>6. CASE n + 1 \notin S
    <3>1. Kept(n + 1) = Kept(n)
      BY <2>4, <2>6
    <3> QED
      BY <2>1, <2>3, <2>6, <3>1
  <2> QED
    BY <2>5, <2>6
<1>5. L \in Goods
  <2> HIDE DEF Goods
  <2> QED
    BY <1>1, <1>3, <1>4, AllNumbers
<1> QED
  BY <1>1, <1>2, <1>5 DEF L

LEMMA KeepsAll ==
  ASSUME NEW D, NEW list \in Seq(D)
  PROVE  Keep(list, DOMAIN list) = list
<1> DEFINE L == Len(list)
<1>1. /\ L \in Nat /\ DOMAIN list = 1..L /\ \A k \in 1..L : list[k] \in D
      /\ list = [k \in 1..L |-> list[k]]
  OBVIOUS
<1>2. PICK f : f = [n \in 0..L |-> Step(list, 1..L, f, n)] /\ Keep(list, 1..L) = f[L]
  BY <1>1, KeepSteps
<1> DEFINE Goods == {n \in Nat : n <= L => f[n] = [k \in 1..n |-> list[k]]}
<1> HIDE DEF L
<1>3. 0 \in Goods
  BY <1>1, <1>2 DEF Step
<1>4. ASSUME NEW n \in Nat, n \in Goods PROVE n + 1 \in Goods
  <2> SUFFICES ASSUME n + 1 <= L PROVE f[n + 1] = [k \in 1..(n + 1) |-> list[k]]
    OBVIOUS
  <2>1. f[n] = [k \in 1..n |-> list[k]]
    BY <1>1, <1>4
  <2>2. n + 1 \in 1..L /\ n + 1 \in 0..L /\ n + 1 # 0 /\ (n + 1) - 1 = n
    BY <1>1
  <2>3. f[n + 1] = Append(f[n], list[n + 1])
    BY <1>2, <2>2 DEF Step
  <2>4. \A k \in 1..n : list[k] \in D
    BY <1>1, <2>2
  <2>5. f[n] \in Seq(D) /\ Len(f[n]) = n
    BY <2>1, <2>4
  <2>6. f[n + 1] \in Seq(D) /\ Len(f[n + 1]) = n + 1
    BY <1>1, <2>2, <2>3, <2>5
  <2>7. \A k \in 1..(n + 1) : f[n + 1][k] = list[k]
    BY <1>1, <2>1, <2>2, <2>3, <2>5
  <2>8. \A s \in Seq(D) : s = [k \in 1..Len(s) |-> s[k]]
    OBVIOUS
  <2>9. f[n + 1] = [k \in 1..(n + 1) |-> f[n + 1][k]]
    BY <2>6, <2>8
  <2> QED
    BY <2>7, <2>9
<1>5. L \in Goods
  <2> HIDE DEF Goods
  <2> QED
    BY <1>1, <1>3, <1>4, AllNumbers
<1> QED
  BY <1>1, <1>2, <1>5

-----------------------------------------------------------------------------
(* Selecting devices. *)
AllDevices == [i \in Devices |-> i]

LEMMA AllDevicesAre ==
  /\ AllDevices \in Seq(Devices) /\ AllDevices \in Seq(Nat)
  /\ Len(AllDevices) = NumDevices /\ DOMAIN AllDevices = Devices
  /\ Different(AllDevices)
BY StartupAssumption DEF AllDevices, Devices, Different

LEMMA SelectedAreDifferent ==
  ASSUME NEW list \in Seq(Devices), Different(list), NEW ids
  PROVE  Select(list, ids) \in Seq(Devices) /\ Different(Select(list, ids))
BY KeepsWhatIsNamed DEF Select

LEMMA SelectsAll ==
  ASSUME NEW list \in Seq(Devices)
  PROVE  Select(list, [i \in DOMAIN list |-> i]) = list
<1>1. ToSet([i \in DOMAIN list |-> i]) = DOMAIN list
  BY DEF ToSet
<1> QED
  BY <1>1, KeepsAll DEF Select

(* Naming what was selected selects the same. *)
LEMMA SelectsAgain ==
  ASSUME NEW ids
  PROVE  /\ Select(AllDevices, ids) \in Seq(Nat)
         /\ Select(AllDevices, Select(AllDevices, ids)) = Select(AllDevices, ids)
<1> DEFINE S == ToSet(ids) \cap Devices
<1>1. Keep(AllDevices, S) \in Seq(Nat)
  BY AllDevicesAre, KeepsWhatIsNamed
<1>2. ToSet(Keep(AllDevices, S)) = {AllDevices[k] : k \in S \cap (1..NumDevices)}
  BY AllDevicesAre, KeepsWhatIsNamed
<1>3. {AllDevices[k] : k \in S \cap (1..NumDevices)} = S
  BY DEF AllDevices, Devices
<1> QED
  BY <1>1, <1>2, <1>3, AllDevicesAre DEF Select

(* What a file sets if it is loaded into the defaults. *)
LoadedFromDefault ==
  Set([DefaultConfig EXCEPT
         !.soloMine = (file.mode = "solo"),
         !.gpuIds = Select(@, IF file.ids = BadIds THEN [i \in Devices |-> i] ELSE file.ids),
         !.refreshRateMs = file.rate,
         !.getWorkUrl = file.url,
         !.fullNodeUrl = file.node])

(* The configuration is the default one until a file or the questions are  *)
(* through.                                                                *)
DefaultUntilSet ==
  /\ startPc \in {"load", "ask", "create"} => cfg = DefaultConfig
  /\ startPc = "load" => file # NoFile

(* What is set at each stage: nothing by a file that does not load, then   *)
(* all the file says, then what the options change of it.                  *)
InTurn ==
  /\ startPc \in {"ask", "create"} => ~FileLoads
  /\ startPc = "args" => ComesFrom(NoOptions)
  /\ startPc \in {"start", "mine"} => ComesFrom(options) /\ cfg.submitWorkUrl = cfg.getWorkUrl

(* A file nobody has edited is loaded without a question, and sets what it *)
(* was written from.                                                       *)
CreatedFile ==
  h_created # NoConfig =>
    /\ file # NoFile /\ Readable /\ file.rate # BadRate /\ file.url # NoUrl
    /\ h_created = LoadedFromDefault
    /\ startPc \notin {"ask", "create"}
    /\ startPc = "args" => cfg = h_created
    /\ startPc \in {"start", "mine"} /\ options = NoOptions => cfg = h_created

CutFile ==
  file # NoFile /\ file.lines < N_PARAMS =>
    /\ startPc = "args" => cfg = DefaultConfig
    /\ startPc \in {"start", "mine"} /\ options = NoOptions => cfg = Set(DefaultConfig)

(* The properties become inductive with these. *)
StartInv ==
  /\ StartTypeOK
  /\ Different(cfg.gpuIds)
  /\ DefaultUntilSet
  /\ InTurn
  /\ CreatedFile
  /\ CutFile

LEMMA DefaultConfigType ==
  DefaultConfig \in MiningConfig /\ DefaultConfig.gpuIds = AllDevices
BY AllDevicesAre, StartupAssumption DEF DefaultConfig, MiningConfig, AllDevices

(* setMiningConfig. *)
LEMMA SetAgrees ==
  ASSUME NEW c \in MiningConfig
  PROVE  /\ Set(c) \in MiningConfig /\ Set(c).gpuIds = c.gpuIds
         /\ Set(c).submitWorkUrl = Set(c).getWorkUrl
         /\ Set(c).soloMine => Set(c).fullNodeUrl = Set(c).getWorkUrl
         /\ Set(Set(c)) = Set(c)
BY DEF Set, MiningConfig

(* The defaults are what is set when no file loads. *)
LEMMA DefaultsAre ==
  ASSUME cfg = DefaultConfig, ~FileLoads
  PROVE  ComesFrom(NoOptions)
BY DEF DefaultConfig, ComesFrom, Latest, NoOptions

LEMMA StartInitInv == StartInit => StartInv
<1> SUFFICES ASSUME StartInit PROVE StartInv
  OBVIOUS
<1> USE DEF StartInit
<1>1. StartTypeOK
  BY DefaultConfigType, StartupAssumption DEF StartTypeOK, Options, NoOptions
<1>2. Different(cfg.gpuIds)
  BY DefaultConfigType, AllDevicesAre
<1> QED
  BY <1>1, <1>2 DEF StartInv, DefaultUntilSet, InTurn, CreatedFile, CutFile

LEMMA LaunchKeepsStartInv ==
  ASSUME StartInv, NEW o \in CommandLines, LaunchProgram(o)
  PROVE  StartInv'
<1> USE DEF LaunchProgram, StartInv
<1>1. StartTypeOK'
  BY DefaultConfigType, CommandLinesAssumption DEF StartTypeOK
<1>2. Different(cfg.gpuIds)'
  BY DefaultConfigType, AllDevicesAre
<1>3. DefaultUntilSet' /\ CutFile'
  BY DEF DefaultUntilSet, CutFile
<1>5. InTurn'
  <2>1. CASE file # NoFile
    BY <2>1 DEF InTurn
  <2>2. CASE file = NoFile
    <3>1. ~FileLoads'
      BY <2>2 DEF FileLoads
    <3>2. ComesFrom(NoOptions)'
      BY <3>1 DEF DefaultConfig, ComesFrom, Latest, NoOptions
    <3> QED
      BY <2>2, <3>1, <3>2 DEF InTurn
  <2> QED
    BY <2>1, <2>2
<1>4. CreatedFile'
  BY DEF CreatedFile, LoadedFromDefault, Readable
<1> QED
  BY <1>1, <1>2, <1>3, <1>4, <1>5

(* Steps that end the process, or stop for good. *)
LEMMA EndsKeepStartInv ==
  ASSUME StartInv,
         \/ Abort
         \/ Gone
         \/ StartMiners
  PROVE  StartInv'
<1> USE DEF Abort, Gone, StartMiners, StartInv
<1>1. StartTypeOK'
  <2>1. NoOptions \in Options
    BY DEF NoOptions, Options
  <2> QED
    BY <2>1, DefaultConfigType DEF StartTypeOK
<1>2. Different(cfg.gpuIds)'
  BY DefaultConfigType, AllDevicesAre
<1>3. DefaultUntilSet' /\ InTurn' /\ CutFile'
  BY DEF DefaultUntilSet, InTurn, CutFile, ComesFrom, Latest, FileLoads, Readable
<1>4. CreatedFile'
  BY DEF CreatedFile, LoadedFromDefault, Readable
<1> QED
  BY <1>1, <1>2, <1>3, <1>4

LEMMA FreedType ==
  ASSUME StartTypeOK, NEW S \in SUBSET Devices
  PROVE  Freed(S) \subseteq {PlatformOf[d] : d \in Devices}
BY DEF StartTypeOK, Freed

LEMMA DroppedType ==
  ASSUME NEW list \in Seq(Devices), NEW ids
  PROVE  Dropped(list, ids) \subseteq Devices
BY DEF Dropped, ToSet

(* The configuration a file sets. *)
LEMMA LoadKeepsStartInv ==
  ASSUME StartInv, LoadUnreadable \/ LoadDevices
  PROVE  StartInv'
<1> USE DEF StartInv
<1>1. cfg = DefaultConfig /\ cfg \in MiningConfig /\ cfg.gpuIds \in Seq(Devices)
  BY DefaultConfigType DEF LoadUnreadable, LoadDevices, DefaultUntilSet, MiningConfig
<1>2. CASE LoadUnreadable
  BY <1>1, <1>2 DEF LoadUnreadable, StartTypeOK, DefaultUntilSet, InTurn, CreatedFile,
                    CutFile, FileLoads, Readable
<1>3. CASE LoadDevices
  <2> USE <1>3 DEF LoadDevices, Free
  <2>1. freed' \subseteq {PlatformOf[d] : d \in Devices}
    BY <1>1, FreedType, DroppedType
  <2>2. CASE startPc' # "args"
    BY <1>1, <2>1, <2>2 DEF StartTypeOK, DefaultUntilSet, InTurn, CreatedFile, CutFile,
         FileLoads, Readable
  <2>3. CASE startPc' = "args"
    <3>1. file.rate # BadRate /\ file.url # NoUrl /\ cfg' = Set(Loaded)
      BY <2>3
    <3>2. /\ file.rate \in Rates /\ file.url \in Urls /\ file.node \in Urls \cup {NoUrl}
          /\ file # NoFile /\ file.lines = N_PARAMS
      BY <3>1 DEF StartTypeOK, FilesOf, DefaultUntilSet, Readable
    <3>3. Select(cfg.gpuIds, FileIds) \in Seq(Devices)
            /\ Different(Select(cfg.gpuIds, FileIds))
      BY <1>1, SelectedAreDifferent
    <3>4. Loaded \in MiningConfig /\ Loaded.gpuIds = Select(cfg.gpuIds, FileIds)
      BY <1>1, <3>2, <3>3 DEF Loaded, MiningConfig
    <3>5. cfg' \in MiningConfig /\ Different(cfg'.gpuIds)
      BY <3>1, <3>3, <3>4, SetAgrees
    <3>6. StartTypeOK'
      BY <2>1, <2>3, <3>5 DEF StartTypeOK
    <3>7. cfg' = LoadedFromDefault
      BY <1>1, <3>1, DefaultConfigType, AllDevicesAre
         DEF Loaded, LoadedFromDefault, FileIds, AllDevices
    <3>8. CreatedFile'
      BY <2>3, <3>7 DEF CreatedFile, LoadedFromDefault, Readable
    <3>9. DefaultUntilSet' /\ CutFile'
      BY <2>3, <3>2 DEF DefaultUntilSet, CutFile, N_PARAMS
    <3>10. ComesFrom(NoOptions)'
      <4>1. FileLoads'
        BY <3>1, <3>2 DEF FileLoads, Readable
      <4> QED
        BY <3>7, <4>1, DefaultConfigType DEF LoadedFromDefault, Set, ComesFrom, Latest,
           NoOptions, MiningConfig
    <3>11. InTurn'
      BY <2>3, <3>10 DEF InTurn
    <3> QED
      BY <3>5, <3>6, <3>8, <3>9, <3>11
  <2> QED
    BY <2>2, <2>3
<1> QED
  BY <1>2, <1>3

LEMMA AnswerKeepsStartInv ==
  ASSUME StartInv, NEW yes \in BOOLEAN, Answer(yes)
  PROVE  StartInv'
<1> USE DEF Answer, StartInv
<1>1. ComesFrom(NoOptions) /\ ~FileLoads
  BY DefaultsAre DEF DefaultUntilSet, InTurn
<1>2. InTurn'
  BY <1>1 DEF InTurn, ComesFrom, Latest, FileLoads, Readable
<1> QED
  BY <1>2 DEF StartTypeOK, DefaultUntilSet, CreatedFile, CutFile

(* What is written loads as what was answered. *)
LEMMA WrittenIs ==
  ASSUME StartInv, startPc = "create", NEW a \in Answers
  PROVE  /\ cfg = DefaultConfig /\ h_created = NoConfig
         /\ Answered(a) \in MiningConfig /\ Different(Answered(a).gpuIds)
         /\ Written(a) \in FilesOf(Seq(Nat))
         /\ Dropped(cfg.gpuIds, AnsweredIds(a)) \subseteq Devices
<1>1. cfg = DefaultConfig /\ h_created = NoConfig
  BY DEF StartInv, DefaultUntilSet, CreatedFile
<1>2. cfg \in MiningConfig /\ cfg.gpuIds = AllDevices
  BY <1>1, DefaultConfigType
<1>3. /\ Select(AllDevices, AnsweredIds(a)) \in Seq(Devices)
      /\ Different(Select(AllDevices, AnsweredIds(a)))
      /\ Select(AllDevices, AnsweredIds(a)) \in Seq(Nat)
  BY AllDevicesAre, SelectedAreDifferent, SelectsAgain
<1>4. Answered(a) \in MiningConfig /\ Answered(a).gpuIds = Select(AllDevices, AnsweredIds(a))
  BY <1>2, <1>3, StartupAssumption DEF Answered, Answers, MiningConfig
<1>5. Written(a) \in FilesOf(Seq(Nat))
  BY <1>3, <1>4 DEF Written, FilesOf, MiningConfig, AllDevices
<1> QED
  BY <1>1, <1>2, <1>3, <1>4, <1>5, AllDevicesAre, DroppedType

LEMMA CreateKeepsStartInv ==
  ASSUME StartInv, NEW a \in Answers, Create(a)
  PROVE  StartInv'
<1> USE DEF Create, Free
<1>1. /\ cfg = DefaultConfig /\ h_created = NoConfig
      /\ Answered(a) \in MiningConfig /\ Different(Answered(a).gpuIds)
      /\ Written(a) \in FilesOf(Seq(Nat))
      /\ Dropped(cfg.gpuIds, AnsweredIds(a)) \subseteq Devices
  BY WrittenIs
<1>2. /\ freed' \subseteq {PlatformOf[d] : d \in Devices}
      /\ cfg' \in MiningConfig /\ Different(cfg'.gpuIds)
  BY <1>1, FreedType, SetAgrees DEF StartInv
<1>3. /\ file' # NoFile /\ file'.lines = N_PARAMS
      /\ [file' EXCEPT !.lines = N_PARAMS] = file'
  BY <1>1, NoFileAssumption DEF FilesOf
<1>4. StartTypeOK'
  BY <1>1, <1>2, <1>3 DEF StartInv, StartTypeOK, N_PARAMS
<1>5. Set(Answered(a)) = LoadedFromDefault'
  <2>1. file'.ids # BadIds /\ file'.ids = Select(AllDevices, AnsweredIds(a))
    BY SelectsAgain, StartupAssumption DEF Written, AllDevices
  <2>2. Select(AllDevices, file'.ids) = Select(AllDevices, AnsweredIds(a))
    BY <2>1, SelectsAgain
  <2>3. Answered(a).soloMine = (file'.mode = "solo")
    BY <1>1 DEF Written, MiningConfig
  <2> QED
    BY <1>1, <2>1, <2>2, <2>3, DefaultConfigType
       DEF LoadedFromDefault, Answered, Written, DefaultConfig, AllDevices
<1>6. CreatedFile'
  <2>1. file'.rate # BadRate /\ file'.url # NoUrl /\ file'.mode # "neither"
    BY <1>1, StartupAssumption DEF Written, MiningConfig
  <2> QED
    BY <1>3, <1>5, <2>1 DEF CreatedFile, Readable
<1>7. DefaultUntilSet' /\ CutFile'
  BY <1>3 DEF DefaultUntilSet, CutFile, N_PARAMS
<1>8. ComesFrom(NoOptions)'
  <2>1. FileLoads'
    BY <1>1, <1>3, StartupAssumption DEF FileLoads, Readable, Written, MiningConfig
  <2> QED
    BY <1>5, <2>1, DefaultConfigType DEF LoadedFromDefault, Set, ComesFrom, Latest,
       NoOptions, MiningConfig
<1>9. InTurn'
  BY <1>8 DEF InTurn
<1> QED
  BY <1>2, <1>4, <1>6, <1>7, <1>9 DEF StartInv

(* Creating a file fails. *)
LEMMA CreateFailsKeepsStartInv ==
  ASSUME StartInv, NEW a \in Answers,
         CreateFails(a) \/ (\E n \in Cuts : CreateCutOff(a, n) \/ CreateKilled(a, n))
  PROVE  StartInv'
<1> USE DEF CreateFails, CreateCutOff, CreateKilled, Free
<1>1. /\ cfg = DefaultConfig /\ h_created = NoConfig
      /\ Written(a) \in FilesOf(Seq(Nat))
      /\ Dropped(cfg.gpuIds, AnsweredIds(a)) \subseteq Devices
  BY WrittenIs
<1>2. freed' \subseteq {PlatformOf[d] : d \in Devices}
  BY <1>1, FreedType DEF StartInv
<1>3. NoOptions \in Options
  BY DEF NoOptions, Options
<1>4. ASSUME NEW n \in Cuts
      PROVE  /\ Cut(Written(a), n).lines \in 0..N_PARAMS
             /\ [Cut(Written(a), n) EXCEPT !.lines = N_PARAMS] \in FilesOf(Seq(Nat))
  <2> DEFINE f == Written(a)
  <2>1. n \in 0..(N_PARAMS - 1)
    BY StartupAssumption
  <2>2. /\ f.mode \in {"pool", "solo", "neither"} /\ f.url \in Urls \cup {NoUrl}
        /\ f.ids \in Seq(Nat) \cup {BadIds} /\ f.rate \in Rates \cup {BadRate}
    BY <1>1 DEF FilesOf
  <2> HIDE DEF f
  <2>3. Cut(f, n).lines = n
    BY DEF Cut
  <2>4. [Cut(f, n) EXCEPT !.lines = N_PARAMS] \in FilesOf(Seq(Nat))
    BY <2>2 DEF Cut, FilesOf
  <2> QED
    BY <2>1, <2>3, <2>4 DEF f, N_PARAMS
<1>5. StartTypeOK'
  BY <1>1, <1>2, <1>3, <1>4, DefaultConfigType DEF StartInv, StartTypeOK
<1>6. cfg' = DefaultConfig /\ h_created' = NoConfig /\ startPc' \in {"args", "off"}
  BY <1>1
<1>7. DefaultUntilSet' /\ CutFile' /\ CreatedFile'
  BY <1>6 DEF DefaultUntilSet, CutFile, CreatedFile
<1>8. ~FileLoads'
  <2>1. ASSUME NEW n \in Cuts PROVE Cut(Written(a), n).lines # N_PARAMS
    BY StartupAssumption DEF Cut, N_PARAMS
  <2> QED
    BY <2>1 DEF FileLoads, Readable, StartInv, InTurn
<1>9. InTurn'
  BY <1>6, <1>8 DEF InTurn, DefaultConfig, ComesFrom, Latest, NoOptions
<1> QED
  BY <1>5, <1>6, <1>7, <1>9, DefaultConfigType, AllDevicesAre DEF StartInv

LEMMA ParseKeepsStartInv ==
  ASSUME StartInv, ParseArgs
  PROVE  StartInv'
<1> USE DEF ParseArgs, Free, StartInv
<1>1. cfg \in MiningConfig /\ cfg.gpuIds \in Seq(Devices) /\ Different(cfg.gpuIds)
  BY DEF StartTypeOK, MiningConfig
<1>2. freed' \subseteq {PlatformOf[d] : d \in Devices}
  BY <1>1, FreedType, DroppedType
<1>3. CASE options.url = NoUrl
  BY <1>2, <1>3 DEF StartTypeOK, DefaultUntilSet, InTurn, CreatedFile, CutFile,
     LoadedFromDefault, Readable
<1>4. CASE options.url # NoUrl
  <2>1. startPc' = "start" /\ cfg' = Set(Parsed)
    BY <1>4
  <2>2. Select(cfg.gpuIds, OptionIds) \in Seq(Devices)
          /\ Different(Select(cfg.gpuIds, OptionIds))
    BY <1>1, SelectedAreDifferent
  <2>3. Parsed \in MiningConfig /\ Parsed.gpuIds = Select(cfg.gpuIds, OptionIds)
    BY <1>1, <1>4, <2>2 DEF Parsed, MiningConfig, StartTypeOK, Options
  <2>4. cfg' \in MiningConfig /\ Different(cfg'.gpuIds)
    BY <2>1, <2>2, <2>3, SetAgrees
  <2>5. StartTypeOK'
    BY <1>2, <2>1, <2>4 DEF StartTypeOK
  <2>6. options = NoOptions => Parsed = cfg
    <3> SUFFICES ASSUME options = NoOptions PROVE Parsed = cfg
      OBVIOUS
    <3>1. Select(cfg.gpuIds, OptionIds) = cfg.gpuIds
      BY <1>1, SelectsAll DEF OptionIds, NoOptions
    <3> QED
      BY <1>1, <3>1 DEF Parsed, NoOptions, MiningConfig
  <2>7. Set(LoadedFromDefault) = LoadedFromDefault
    BY DEF LoadedFromDefault, DefaultConfig, Set
  <2>8. CreatedFile'
    <3> SUFFICES ASSUME h_created # NoConfig, options = NoOptions
                 PROVE  cfg' = h_created
      BY <2>1 DEF CreatedFile, LoadedFromDefault, Readable
    <3>1. cfg = LoadedFromDefault /\ h_created = LoadedFromDefault
      BY DEF CreatedFile
    <3> QED
      BY <2>1, <2>6, <2>7, <3>1
  <2>9. DefaultUntilSet' /\ CutFile'
    BY <2>1, <2>6 DEF DefaultUntilSet, CutFile
  <2>10. ComesFrom(options)'
    <3>1. FileLoads' = FileLoads
      BY DEF FileLoads, Readable
    <3>2. ComesFrom(NoOptions) /\ NoOptions.solo = FALSE
      BY DEF InTurn, NoOptions
    <3>3. cfg'.soloMine = (cfg.soloMine \/ options.solo)
      BY <1>1, <2>1 DEF Parsed, Set, MiningConfig
    <3>4. /\ cfg'.getWorkUrl = IF options.url = NotGiven THEN cfg.getWorkUrl ELSE options.url
          /\ cfg'.refreshRateMs = IF options.rate = NotGiven THEN cfg.refreshRateMs
                                  ELSE options.rate
          /\ cfg'.fullNodeUrl = IF cfg'.soloMine THEN cfg'.getWorkUrl
                                ELSE IF options.node = NotGiven THEN cfg.fullNodeUrl
                                ELSE options.node
      BY <1>1, <2>1 DEF Parsed, Set, MiningConfig
    <3> QED
      BY <3>1, <3>2, <3>3, <3>4 DEF ComesFrom, Latest, NoOptions
  <2>11. InTurn'
    BY <2>1, <2>3, <2>10, SetAgrees DEF InTurn
  <2> QED
    BY <2>4, <2>5, <2>8, <2>9, <2>11
<1> QED
  BY <1>3, <1>4

LEMMA EditKeepsStartInv ==
  ASSUME StartInv, NEW f \in FilesOf(IdLists) \cup {NoFile}, EditFile(f)
  PROVE  StartInv'
<1> USE DEF EditFile, StartInv
<1>1. f # NoFile => /\ f.lines = N_PARAMS /\ [f EXCEPT !.lines = N_PARAMS] = f
                    /\ f \in FilesOf(Seq(Nat))
  BY StartupAssumption DEF FilesOf
<1>2. StartTypeOK'
  BY <1>1 DEF StartTypeOK, N_PARAMS
<1>3. DefaultUntilSet' /\ InTurn' /\ CreatedFile' /\ CutFile'
  BY DEF DefaultUntilSet, InTurn, CreatedFile, CutFile
<1> QED
  BY <1>2, <1>3

LEMMA StartInvHolds == StartSpec => []StartInv
<1>1. ASSUME StartInv, StartNext PROVE StartInv'
  <2>1. ASSUME NEW o \in CommandLines, LaunchProgram(o) PROVE StartInv'
    BY <1>1, <2>1, LaunchKeepsStartInv
  <2>2. CASE LoadUnreadable \/ LoadDevices
    BY <1>1, <2>2, LoadKeepsStartInv
  <2>3. ASSUME NEW yes \in BOOLEAN, Answer(yes) PROVE StartInv'
    BY <1>1, <2>3, AnswerKeepsStartInv
  <2>4. ASSUME NEW a \in Answers, Create(a) PROVE StartInv'
    BY <1>1, <2>4, CreateKeepsStartInv
  <2>5. ASSUME NEW a \in Answers,
               CreateFails(a) \/ (\E n \in Cuts : CreateCutOff(a, n) \/ CreateKilled(a, n))
        PROVE  StartInv'
    BY <1>1, <2>5, CreateFailsKeepsStartInv
  <2>6. CASE ParseArgs
    BY <1>1, <2>6, ParseKeepsStartInv
  <2>7. CASE \/ LoadBadFree \/ (\E a \in Answers : CreateBadFree(a))
             \/ ParseThrows \/ ParseRefuses \/ ParseBadFree \/ StartMiners \/ ProcessEnds
    BY <1>1, <2>7, EndsKeepStartInv
       DEF LoadBadFree, CreateBadFree, ParseThrows, ParseRefuses, ParseBadFree, ProcessEnds
  <2>8. ASSUME NEW f \in FilesOf(IdLists) \cup {NoFile}, EditFile(f) PROVE StartInv'
    BY <1>1, <2>8, EditKeepsStartInv
  <2> QED
    BY <1>1, <2>1, <2>2, <2>3, <2>4, <2>5, <2>6, <2>7, <2>8 DEF StartNext
<1>2. ASSUME StartInv, UNCHANGED startVars PROVE StartInv'
  BY <1>2 DEF startVars, StartInv, StartTypeOK, DefaultUntilSet, InTurn, CreatedFile,
     CutFile, LoadedFromDefault, Readable, ComesFrom, Latest, FileLoads
<1> QED
  BY <1>1, <1>2, StartInitInv, PTL DEF StartSpec

(* The type invariant of configuring, with selected devices in a sequence  *)
(* (miningConfig.h 9-20).                                                  *)
THEOREM StartTyping == StartSpec => []StartTypeOK
<1>1. StartInv => StartTypeOK
  BY DEF StartInv
<1> QED
  BY <1>1, StartInvHolds, PTL

(* The program mines with what the last source says that names it: the     *)
(* options, else a complete file, else the defaults (miningConfig.cpp      *)
(* 11-33, config.cpp 69-117, args.cpp 58-103).                             *)
THEOREM SourcesAreInTurn == StartSpec => []SourcesInTurn
<1>1. StartInv => SourcesInTurn
  BY DEF StartInv, InTurn, SourcesInTurn
<1> QED
  BY <1>1, StartInvHolds, PTL

(* No device is mined on by two threads, whichever and however many GPUs   *)
(* there are and however often one is named (config.cpp 89-107, args.cpp   *)
(* 68-87).                                                                 *)
THEOREM DevicesHaveOneThread == StartSpec => []OneThreadPerDevice
<1>1. StartInv => OneThreadPerDevice
  BY DEF StartInv, Different, OneThreadPerDevice
<1> QED
  BY <1>1, StartInvHolds, PTL

(* A created file brings its configuration back (config.cpp 254-262        *)
(* against 69-117).                                                        *)
THEOREM CreatedFileLoads == StartSpec => []CreatedIsLoaded
<1>1. StartInv => CreatedIsLoaded
  BY DEF StartInv, CreatedFile, CreatedIsLoaded
<1> QED
  BY <1>1, StartInvHolds, PTL

(* A file that was cut off sets nothing (config.cpp 62-68, 248-267).       *)
THEOREM CutFileSetsNothing == StartSpec => []CutFileIgnored
<1>1. StartInv => CutFileIgnored
  BY DEF StartInv, CutFile, CutFileIgnored
<1> QED
  BY <1>1, StartInvHolds, PTL
=============================================================================
