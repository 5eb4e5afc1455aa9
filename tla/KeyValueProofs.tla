--------------------------- MODULE KeyValueProofs ---------------------------
(***************************************************************************)
(* Theorems about the key-value storage and its users, for any number of   *)
(* values, failed saves and crashes.                                       *)
(***************************************************************************)
EXTENDS KeyValue, FiniteSetTheorems, TLAPS

Pair(k, n) == [key |-> k, value |-> n]

-----------------------------------------------------------------------------
(* What a map keeps.                                                       *)

LEMMA KeptMember ==
  ASSUME NEW v, NEW k \in Keys, NEW n
  PROVE  Pair(k, n) \in Kept(v) <=> v[k] = n /\ n # 0
BY DEF Kept, Pair

LEMMA KeptIsPairs ==
  ASSUME NEW v, NEW p \in Kept(v)
  PROVE  \E k \in Keys : p = Pair(k, v[k]) /\ v[k] # 0
BY DEF Kept, Pair

LEMMA KeptEmpty == Kept(Empty) = {}
BY DEF Kept, Empty

LEMMA KeptTyped ==
  ASSUME NEW v \in Values, MaxValue \in Nat
  PROVE  Kept(v) \subseteq [key : Keys, value : Nat]
BY DEF Kept, Values

\* A value under a free key leaves the other pairs alone.
LEMMA KeptStored ==
  ASSUME NEW v \in Values, NEW k \in Keys, NEW n, n # 0, v[k] = 0
  PROVE  Kept(v) \subseteq Kept([v EXCEPT ![k] = n])
<1>1. ASSUME NEW p \in Kept(v)  PROVE p \in Kept([v EXCEPT ![k] = n])
  <2>1. PICK j \in Keys : p = Pair(j, v[j]) /\ v[j] # 0
    BY KeptIsPairs
  <2>2. [v EXCEPT ![k] = n][j] = v[j]
    BY <2>1 DEF Values
  <2>. QED  BY <2>1, <2>2, KeptMember
<1>. QED  BY <1>1

LEMMA KeptOfStored ==
  ASSUME NEW v \in Values, NEW k \in Keys, NEW n
  PROVE  Kept([v EXCEPT ![k] = n]) \subseteq Kept(v) \cup {Pair(k, n)}
<1>1. ASSUME NEW p \in Kept([v EXCEPT ![k] = n])  PROVE p \in Kept(v) \cup {Pair(k, n)}
  <2>. DEFINE w == [v EXCEPT ![k] = n]
  <2>1. PICK j \in Keys : p = Pair(j, w[j]) /\ w[j] # 0
    BY <1>1, KeptIsPairs
  <2>2. CASE j = k
    BY <2>1, <2>2 DEF Values
  <2>3. CASE j # k
    <3>1. w[j] = v[j]
      BY <2>3 DEF Values
    <3>. QED  BY <2>1, <3>1, KeptMember
  <2>. QED  BY <2>2, <2>3
<1>. QED  BY <1>1

-----------------------------------------------------------------------------
(* The inductive invariant.                                                *)

\* Where a hook or a request stands says what the map may hold.
StepInv ==
  /\ hook.at # "idle" => phase = "opened"
  /\ hook.at = "log" => values["password"] # 0
  /\ hook.at = "set" /\ ~history.early => values["password"] = 0
  /\ request.at = "set" => history.early
  /\ phase \in {"down", "booting"} /\ ~history.early => values = Empty

\* The file holds what was saved, all of it unless it is torn.
FileInv ==
  /\ Kept(file.values) \subseteq history.kept
  /\ file.kind # "whole" => file.values = Empty
  /\ ~history.early /\ file.kind # "torn" => history.kept \subseteq Kept(file.values)

\* After Open the map holds all that was ever saved.
MapInv ==
  ~history.early /\ phase \notin {"down", "booting"} => history.kept \subseteq Kept(values)

\* All that was ever saved fits in one map: a key was saved with one value.
OneSaved == ~history.early => \E v \in Values : history.kept \subseteq Kept(v)

Inv == StorageType /\ StepInv /\ FileInv /\ MapInv /\ OneSaved

-----------------------------------------------------------------------------
(* The saves.                                                              *)

LEMMA EmptyTyped == Empty \in Values
BY KeyValueAssumption DEF Empty, Values

LEMMA IdleTyped ==
  /\ Idle \in [at : {"idle", "set", "log"}, password : 0..MaxValue]
  /\ Idle \in [at : {"idle", "set"}, password : {0}]
BY KeyValueAssumption DEF Idle

\* What a save of the map leaves of the type.
LEMMA SaveTyped ==
  ASSUME StorageType, NEW v \in Values, NEW ok \in BOOLEAN, Save(v, ok)
  PROVE  /\ file' \in [kind : {"absent", "torn", "whole"}, values : Values]
         /\ faults' \in 0..Faults
         /\ history' = [history EXCEPT !.kept = history'.kept]
         /\ history'.kept \in SUBSET [key : Keys, value : Nat]
<1>1. CASE ok
  BY <1>1, KeyValueAssumption, KeptTyped DEF Save, StorageType, Whole
<1>2. CASE ~ok
  BY <1>2, KeyValueAssumption, EmptyTyped DEF Save, StorageType, Torn
<1>. QED  BY <1>1, <1>2

LEMMA HistoryTyped ==
  ASSUME StorageType, history' = [history EXCEPT !.kept = history'.kept],
         history'.kept \in SUBSET [key : Keys, value : Nat]
  PROVE  /\ history' \in [devices : SUBSET Nat, signings : SUBSET Nat, demanded : SUBSET Nat,
                          shown : SUBSET Nat, kept : SUBSET [key : Keys, value : Nat],
                          early : BOOLEAN]
         /\ history'.devices = history.devices /\ history'.signings = history.signings
         /\ history'.demanded = history.demanded /\ history'.shown = history.shown
         /\ history'.early <=> history.early
BY DEF StorageType

\* Set under a key that is free, or after an early request.
LEMMA SetTyped ==
  ASSUME StorageType, NEW k \in Keys, NEW ok \in BOOLEAN, Set(k, ok)
  PROVE  /\ minted' \in 1..MaxValue /\ minted' = minted + 1
         /\ values' = [values EXCEPT ![k] = minted'] /\ values' \in Values
         /\ file' \in [kind : {"absent", "torn", "whole"}, values : Values]
         /\ faults' \in 0..Faults
         /\ history' = [history EXCEPT !.kept = history'.kept]
         /\ history'.kept \in SUBSET [key : Keys, value : Nat]
         /\ Save(values', ok)
<1>1. minted' \in 1..MaxValue /\ minted' = minted + 1
  BY KeyValueAssumption DEF Set, StorageType
<1>2. values' = [values EXCEPT ![k] = minted'] /\ Save(values', ok)
  BY <1>1 DEF Set, Stored
<1>3. values' \in Values
  BY <1>1, <1>2, KeyValueAssumption DEF StorageType, Values
<1>. QED  BY <1>1, <1>2, <1>3, SaveTyped

\* What a save of the map does to the file and to what was ever saved.
LEMMA SaveEffect ==
  ASSUME StorageType, NEW v \in Values, NEW ok \in BOOLEAN, Save(v, ok)
  PROVE  \/ /\ file' = Whole(v) /\ faults' = faults
            /\ history'.kept = history.kept \cup Kept(v)
         \/ /\ file' \in {file, Torn} /\ faults' = faults + 1
            /\ history' = history
<1>1. CASE ok
  <2>1. history' = [history EXCEPT !.kept = history.kept \cup Kept(v)]
    BY <1>1 DEF Save
  <2>2. history'.kept = history.kept \cup Kept(v)
    BY <2>1 DEF StorageType
  <2>. QED  BY <1>1, <2>2 DEF Save
<1>2. CASE ~ok
  BY <1>2 DEF Save
<1>. QED  BY <1>1, <1>2

\* A save keeps the file's part of the invariant, when the map holds all that
\* was saved.
LEMMA SaveInv ==
  ASSUME StorageType, FileInv, NEW v \in Values, NEW ok \in BOOLEAN, Save(v, ok),
         ~history.early => history.kept \subseteq Kept(v)
  PROVE  /\ FileInv'
         /\ ~history.early => history'.kept \subseteq Kept(v)
<1>h. history'.early <=> history.early
  BY SaveTyped, HistoryTyped
<1>1. CASE /\ file' = Whole(v) /\ faults' = faults
           /\ history'.kept = history.kept \cup Kept(v)
  <2>1. file'.kind = "whole" /\ file'.values = v
    BY <1>1 DEF Whole
  <2>2. Kept(file'.values) \subseteq history'.kept
    BY <1>1, <2>1
  <2>3. ~history.early => history'.kept \subseteq Kept(file'.values)
    BY <1>1, <2>1
  <2>4. FileInv'
    BY <2>1, <2>2, <2>3, <1>h DEF FileInv
  <2>. QED  BY <1>1, <2>4
<1>2. CASE /\ file' \in {file, Torn} /\ faults' = faults + 1
           /\ history' = history
  <2>1. FileInv'
    <3>1. CASE file' = file
      BY <1>2, <3>1 DEF FileInv
    <3>2. CASE file' = Torn
      <4>1. Kept(file'.values) = {} /\ file'.kind = "torn" /\ file'.values = Empty
        BY <3>2, KeptEmpty DEF Torn
      <4>. QED  BY <1>2, <4>1 DEF FileInv
    <3>. QED  BY <1>2, <3>1, <3>2
  <2>. QED  BY <1>2, <2>1
<1>. QED  BY <1>1, <1>2, SaveEffect

\* A Set under a free key, or after an early request, keeps what relates the
\* map, the file and what was saved.
LEMMA SetInv ==
  ASSUME Inv, NEW k \in Keys, NEW ok \in BOOLEAN, Set(k, ok),
         ~history.early => values[k] = 0 /\ phase \notin {"down", "booting"}
  PROVE  /\ FileInv'
         /\ ~history.early => history'.kept \subseteq Kept(values')
         /\ OneSaved'
<1>t. /\ minted' \in 1..MaxValue /\ values' = [values EXCEPT ![k] = minted']
      /\ values' \in Values /\ Save(values', ok)
      /\ history' = [history EXCEPT !.kept = history'.kept]
      /\ history'.kept \in SUBSET [key : Keys, value : Nat]
  BY SetTyped DEF Inv
<1>h. history'.early <=> history.early
  BY <1>t, HistoryTyped DEF Inv
<1>1. values \in Values /\ minted' # 0
  BY <1>t, KeyValueAssumption DEF Inv, StorageType
<1>2. ~history.early => history.kept \subseteq Kept(values')
  <2>1. ~history.early => Kept(values) \subseteq Kept(values')
    BY <1>t, <1>1, KeptStored
  <2>. QED  BY <2>1 DEF Inv, MapInv
<1>3. /\ FileInv'
      /\ ~history.early => history'.kept \subseteq Kept(values')
  BY <1>t, <1>2, SaveInv DEF Inv
<1>4. OneSaved'
  BY <1>t, <1>h, <1>3 DEF OneSaved
<1>. QED  BY <1>3, <1>4

-----------------------------------------------------------------------------
(* Type correctness and the invariant: the initial states and each action. *)

LEMMA InitInv == Init => Inv
<1>. SUFFICES ASSUME Init  PROVE Inv
  OBVIOUS
<1>1. StorageType
  BY KeyValueAssumption, EmptyTyped DEF Init, StorageType, Absent, Idle
<1>2. StepInv
  BY DEF Init, StepInv, Idle
<1>3. FileInv /\ MapInv /\ OneSaved
  BY KeptEmpty, EmptyTyped DEF Init, FileInv, MapInv, OneSaved, Absent, Idle
<1>. QED  BY <1>1, <1>2, <1>3 DEF Inv

\* An action that leaves the file alone and brings the process down.
LEMMA DownInv ==
  ASSUME Inv, phase' = "down", values' = Empty, hook' = Idle, request' = Idle,
         history' = history, minted' = minted, file' \in {file, Torn},
         crashes' \in 0..Crashes, faults' \in 0..Faults
  PROVE  Inv'
<1>0. file' \in [kind : {"absent", "torn", "whole"}, values : Values]
  BY EmptyTyped DEF Inv, StorageType, Torn
<1>1. StorageType'
  BY <1>0, EmptyTyped, IdleTyped DEF Inv, StorageType
<1>2. StepInv'
  BY DEF StepInv, Idle
<1>3. FileInv'
  BY KeptEmpty DEF Inv, FileInv, Torn
<1>4. MapInv' /\ OneSaved'
  BY DEF Inv, MapInv, OneSaved
<1>. QED  BY <1>1, <1>2, <1>3, <1>4 DEF Inv

LEMMA BootInv == ASSUME Inv, Boot  PROVE Inv'
<1>1. StorageType'
  BY EmptyTyped DEF Inv, StorageType, Boot
<1>2. StepInv'
  BY DEF Inv, StepInv, Boot
<1>3. FileInv' /\ MapInv' /\ OneSaved'
  BY KeptEmpty DEF Inv, FileInv, MapInv, OneSaved, Boot
<1>. QED  BY <1>1, <1>2, <1>3 DEF Inv

\* What Open makes of an empty map is the file.
LEMMA MergedFile ==
  ASSUME StorageType
  PROVE  Merged \in Values /\ (values = Empty => Merged = file.values)
<1>1. file.values \in Values /\ values \in Values
  BY DEF StorageType
<1>2. Merged \in Values
  BY <1>1, KeyValueAssumption DEF Merged, Values
<1>3. ASSUME values = Empty  PROVE Merged = file.values
  <2>1. \A k \in Keys : Merged[k] = file.values[k]
    BY <1>3 DEF Merged, Empty
  <2>2. Merged = [k \in Keys |-> Merged[k]]
    BY DEF Merged
  <2>3. file.values = [k \in Keys |-> file.values[k]]
    BY <1>1 DEF Values
  <2>. QED  BY <2>1, <2>2, <2>3
<1>. QED  BY <1>2, <1>3

LEMMA OpenInv == ASSUME Inv, Open  PROVE Inv'
<1>u. UNCHANGED <<file, hook, minted, faults, crashes, history>>
  BY DEF Open
<1>a. CASE Decodes
  <2>0. phase = "booting" /\ phase' = "opened" /\ values' = Merged /\ request' = request
    BY <1>a DEF Open
  <2>1. Merged \in Values /\ (~history.early => values' = file.values)
    BY <2>0, MergedFile DEF Inv, StepInv
  <2>2. StorageType'
    BY <1>u, <2>0, <2>1 DEF Inv, StorageType
  <2>3. StepInv'
    BY <1>u, <2>0, <2>1 DEF Inv, StepInv
  <2>4. FileInv' /\ OneSaved'
    BY <1>u DEF Inv, FileInv, OneSaved
  <2>5. MapInv'
    BY <1>u, <1>a, <2>0, <2>1 DEF Inv, FileInv, MapInv, Decodes
  <2>. QED  BY <2>2, <2>3, <2>4, <2>5 DEF Inv
<1>b. CASE ~Decodes
  <2>0. phase = "booting" /\ phase' = "down" /\ values' = Empty /\ request' = Idle
    BY <1>b DEF Open
  <2>1. StorageType'
    BY <1>u, <2>0, EmptyTyped, IdleTyped DEF Inv, StorageType
  <2>2. StepInv'
    BY <1>u, <2>0 DEF Inv, StepInv, Idle
  <2>3. FileInv' /\ MapInv' /\ OneSaved'
    BY <1>u, <2>0, KeptEmpty DEF Inv, FileInv, MapInv, OneSaved
  <2>. QED  BY <2>1, <2>2, <2>3 DEF Inv
<1>. QED  BY <1>a, <1>b

LEMMA StopInv == ASSUME Inv, Stop  PROVE Inv'
<1>1. StorageType'
  BY DEF Inv, StorageType, Stop
<1>2. StepInv'
  BY DEF Inv, StepInv, Stop
<1>3. FileInv' /\ MapInv' /\ OneSaved'
  BY DEF Inv, FileInv, MapInv, OneSaved, Stop
<1>. QED  BY <1>1, <1>2, <1>3 DEF Inv

LEMMA CloseInv == ASSUME Inv, Close  PROVE Inv'
<1>1. PICK ok \in BOOLEAN : Save(values, ok)
  BY DEF Close
<1>2. /\ phase = "stopping" /\ phase' = "down" /\ values' = Empty
      /\ hook' = Idle /\ request' = Idle /\ minted' = minted /\ crashes' = crashes
  BY DEF Close
<1>3. values \in Values /\ (~history.early => history.kept \subseteq Kept(values))
  BY <1>2 DEF Inv, StorageType, MapInv
<1>4. FileInv' /\ (~history.early => history'.kept \subseteq Kept(values))
  BY <1>1, <1>3, SaveInv DEF Inv
<1>5. /\ file' \in [kind : {"absent", "torn", "whole"}, values : Values]
      /\ faults' \in 0..Faults
      /\ history' = [history EXCEPT !.kept = history'.kept]
      /\ history'.kept \in SUBSET [key : Keys, value : Nat]
  BY <1>1, <1>3, SaveTyped DEF Inv
<1>h. /\ history' \in [devices : SUBSET Nat, signings : SUBSET Nat, demanded : SUBSET Nat,
                       shown : SUBSET Nat, kept : SUBSET [key : Keys, value : Nat],
                       early : BOOLEAN]
      /\ history'.devices = history.devices /\ history'.signings = history.signings
      /\ history'.demanded = history.demanded /\ history'.shown = history.shown
      /\ (history'.early <=> history.early)
  BY <1>5, HistoryTyped DEF Inv
<1>6. StorageType'
  BY <1>2, <1>5, <1>h, EmptyTyped, IdleTyped DEF Inv, StorageType
<1>7. StepInv' /\ MapInv'
  BY <1>2 DEF StepInv, MapInv, Idle
<1>8. OneSaved'
  BY <1>3, <1>4, <1>h DEF OneSaved
<1>. QED  BY <1>4, <1>6, <1>7, <1>8 DEF Inv

LEMMA CrashInv == ASSUME Inv, Crash  PROVE Inv'
<1>1. crashes' \in 0..Crashes
  BY KeyValueAssumption DEF Inv, StorageType, Crash
<1>. QED  BY <1>1, DownInv DEF Inv, StorageType, Crash

LEMMA CrashInSaveInv == ASSUME Inv, CrashInSave  PROVE Inv'
<1>1. faults' \in 0..Faults
  BY KeyValueAssumption DEF Inv, StorageType, CrashInSave
<1>. QED  BY <1>1, DownInv DEF Inv, StorageType, CrashInSave

LEMMA DeviceGetInv == ASSUME Inv, DeviceGet  PROVE Inv'
<1>u. UNCHANGED <<phase, values, file, hook, request, minted, faults, crashes>>
  BY DEF DeviceGet
<1>v. values["device"] \in Nat /\ values["device"] # 0
  BY KeyValueAssumption DEF DeviceGet, Inv, StorageType, Values, Keys
<1>h. /\ history' \in [devices : SUBSET Nat, signings : SUBSET Nat, demanded : SUBSET Nat,
                       shown : SUBSET Nat, kept : SUBSET [key : Keys, value : Nat],
                       early : BOOLEAN]
      /\ history'.devices = history.devices \cup {values["device"]}
      /\ history'.signings = history.signings /\ history'.demanded = history.demanded
      /\ history'.shown = history.shown /\ history'.kept = history.kept
      /\ (history'.early <=> history.early)
  BY <1>v DEF DeviceGet, Inv, StorageType
<1>1. StorageType'
  BY <1>u, <1>h DEF Inv, StorageType
<1>2. StepInv' /\ FileInv' /\ MapInv' /\ OneSaved'
  BY <1>u, <1>h DEF Inv, StepInv, FileInv, MapInv, OneSaved
<1>. QED  BY <1>1, <1>2 DEF Inv

LEMMA SignInv == ASSUME Inv, Sign  PROVE Inv'
<1>u. UNCHANGED <<phase, values, file, hook, request, minted, faults, crashes>>
  BY DEF Sign
<1>v. values["signing"] \in Nat /\ values["signing"] # 0
  BY KeyValueAssumption DEF Sign, Inv, StorageType, Values, Keys
<1>h. /\ history' \in [devices : SUBSET Nat, signings : SUBSET Nat, demanded : SUBSET Nat,
                       shown : SUBSET Nat, kept : SUBSET [key : Keys, value : Nat],
                       early : BOOLEAN]
      /\ history'.signings = history.signings \cup {values["signing"]}
      /\ history'.devices = history.devices /\ history'.demanded = history.demanded
      /\ history'.shown = history.shown /\ history'.kept = history.kept
      /\ (history'.early <=> history.early)
  BY <1>v DEF Sign, Inv, StorageType
<1>1. StorageType'
  BY <1>u, <1>h DEF Inv, StorageType
<1>2. StepInv' /\ FileInv' /\ MapInv' /\ OneSaved'
  BY <1>u, <1>h DEF Inv, StepInv, FileInv, MapInv, OneSaved
<1>. QED  BY <1>1, <1>2 DEF Inv

\* The parts of the invariant a Set keeps whatever its caller does next.
LEMMA SetKeeps ==
  ASSUME Inv, NEW k \in Keys, NEW ok \in BOOLEAN, Set(k, ok), crashes' = crashes,
         ~history.early => values[k] = 0 /\ phase \notin {"down", "booting"}
  PROVE  /\ FileInv' /\ OneSaved' /\ MapInv'
         /\ minted' \in 1..MaxValue /\ values' \in Values
         /\ values' = [values EXCEPT ![k] = minted']
         /\ file' \in [kind : {"absent", "torn", "whole"}, values : Values]
         /\ faults' \in 0..Faults
         /\ history' \in [devices : SUBSET Nat, signings : SUBSET Nat, demanded : SUBSET Nat,
                          shown : SUBSET Nat, kept : SUBSET [key : Keys, value : Nat],
                          early : BOOLEAN]
         /\ (history'.early <=> history.early)
         /\ history'.demanded = history.demanded /\ history'.shown = history.shown
<1>1. /\ FileInv' /\ OneSaved'
      /\ ~history.early => history'.kept \subseteq Kept(values')
  BY SetInv
<1>2. /\ minted' \in 1..MaxValue /\ values' \in Values
      /\ values' = [values EXCEPT ![k] = minted']
      /\ file' \in [kind : {"absent", "torn", "whole"}, values : Values]
      /\ faults' \in 0..Faults
      /\ history' = [history EXCEPT !.kept = history'.kept]
      /\ history'.kept \in SUBSET [key : Keys, value : Nat]
  BY SetTyped DEF Inv
<1>3. /\ history' \in [devices : SUBSET Nat, signings : SUBSET Nat, demanded : SUBSET Nat,
                       shown : SUBSET Nat, kept : SUBSET [key : Keys, value : Nat],
                       early : BOOLEAN]
      /\ (history'.early <=> history.early)
      /\ history'.demanded = history.demanded /\ history'.shown = history.shown
  BY <1>2, HistoryTyped DEF Inv
<1>4. MapInv'
  BY <1>1, <1>3 DEF MapInv
<1>. QED  BY <1>1, <1>2, <1>3, <1>4

\* A Set of another key than the password.
LEMMA OtherSetInv ==
  ASSUME Inv, NEW k \in {"device", "signing"}, NEW ok \in BOOLEAN, Set(k, ok),
         values[k] = 0, phase \in {"opened", "up"}, phase' \in {phase, "stopping"},
         phase' = "stopping" => hook.at = "idle",
         hook' = hook, request' = request, crashes' = crashes
  PROVE  Inv'
<1>k. k \in Keys /\ k # "password"
  BY DEF Keys
<1>s. /\ FileInv' /\ OneSaved' /\ MapInv'
      /\ minted' \in 1..MaxValue /\ values' \in Values
      /\ values' = [values EXCEPT ![k] = minted']
      /\ file' \in [kind : {"absent", "torn", "whole"}, values : Values]
      /\ faults' \in 0..Faults
      /\ history' \in [devices : SUBSET Nat, signings : SUBSET Nat, demanded : SUBSET Nat,
                       shown : SUBSET Nat, kept : SUBSET [key : Keys, value : Nat],
                       early : BOOLEAN]
      /\ (history'.early <=> history.early)
      /\ history'.demanded = history.demanded /\ history'.shown = history.shown
  BY <1>k, SetKeeps
<1>p. values'["password"] = values["password"]
  BY <1>k, <1>s DEF Inv, StorageType, Values, Keys
<1>1. StorageType'
  <2>1. phase' \in {"down", "booting", "opened", "up", "stopping"}
    OBVIOUS
  <2>2. phase' = "up" => values'["password"] # 0
    BY <1>p DEF Inv, StorageType
  <2>3. minted' \in 0..MaxValue
    BY <1>s, KeyValueAssumption
  <2>. QED  BY <1>s, <2>1, <2>2, <2>3 DEF Inv, StorageType
<1>2. StepInv'
  BY <1>p, <1>s DEF Inv, StepInv
<1>. QED  BY <1>s, <1>1, <1>2 DEF Inv

LEMMA DeviceCreateInv == ASSUME Inv, DeviceCreate  PROVE Inv'
BY OtherSetInv DEF DeviceCreate, SetDevice

LEMMA SigningKeyInv == ASSUME Inv, SigningKey  PROVE Inv'
<1>1. PICK ok \in BOOLEAN : Set("signing", ok) /\ phase' = IF ok THEN "up" ELSE "stopping"
  BY DEF SigningKey
<1>2. hook.at = "idle"
  BY DEF SigningKey, Inv, StepInv, StorageType
<1>. QED  BY <1>1, <1>2, OtherSetInv DEF SigningKey

LEMMA HookReadsInv == ASSUME Inv, HookReads  PROVE Inv'
<1>1. StorageType'
  BY DEF Inv, StorageType, HookReads, NeedsPassword
<1>2. StepInv'
  BY DEF Inv, StepInv, StorageType, HookReads, NeedsPassword
<1>3. FileInv' /\ MapInv' /\ OneSaved'
  BY DEF Inv, FileInv, MapInv, OneSaved, HookReads
<1>. QED  BY <1>1, <1>2, <1>3 DEF Inv

LEMMA HookSetsInv == ASSUME Inv, HookSets  PROVE Inv'
<1>1. PICK ok \in BOOLEAN :
        /\ Set("password", ok)
        /\ hook' = IF ok THEN [at |-> "log", password |-> minted'] ELSE Idle
        /\ phase' = IF ok THEN phase ELSE "stopping"
  BY DEF HookSets
<1>2. /\ hook.at = "set" /\ phase = "opened" /\ request' = request /\ crashes' = crashes
      /\ ~history.early => values["password"] = 0
  BY DEF HookSets, Inv, StepInv
<1>s. /\ FileInv' /\ OneSaved' /\ MapInv'
      /\ minted' \in 1..MaxValue /\ values' \in Values
      /\ values' = [values EXCEPT !["password"] = minted']
      /\ file' \in [kind : {"absent", "torn", "whole"}, values : Values]
      /\ faults' \in 0..Faults
      /\ history' \in [devices : SUBSET Nat, signings : SUBSET Nat, demanded : SUBSET Nat,
                       shown : SUBSET Nat, kept : SUBSET [key : Keys, value : Nat],
                       early : BOOLEAN]
      /\ (history'.early <=> history.early)
      /\ history'.demanded = history.demanded /\ history'.shown = history.shown
  BY <1>1, <1>2, SetKeeps DEF Keys
<1>p. values'["password"] = minted' /\ minted' # 0 /\ minted' \in 0..MaxValue
  BY <1>s, KeyValueAssumption DEF Inv, StorageType, Values, Keys
<1>3. StorageType'
  <2>1. hook' \in [at : {"idle", "set", "log"}, password : 0..MaxValue]
    BY <1>1, <1>p, IdleTyped
  <2>2. phase' \in {"down", "booting", "opened", "up", "stopping"} /\ phase' # "up"
    BY <1>1, <1>2
  <2>. QED  BY <1>2, <1>s, <1>p, <2>1, <2>2 DEF Inv, StorageType
<1>4. StepInv'
  BY <1>1, <1>2, <1>s, <1>p DEF Inv, StepInv, Idle
<1>. QED  BY <1>s, <1>3, <1>4 DEF Inv

LEMMA HookLogsInv == ASSUME Inv, HookLogs  PROVE Inv'
<1>u. /\ UNCHANGED <<values, file, request, minted, faults, crashes>>
      /\ hook.at = "log" /\ hook' = Idle /\ phase' = "up"
      /\ phase = "opened" /\ values["password"] # 0
  BY DEF HookLogs, Inv, StepInv
<1>v. hook.password \in Nat
  BY KeyValueAssumption DEF Inv, StorageType
<1>h. /\ history' \in [devices : SUBSET Nat, signings : SUBSET Nat, demanded : SUBSET Nat,
                       shown : SUBSET Nat, kept : SUBSET [key : Keys, value : Nat],
                       early : BOOLEAN]
      /\ history'.shown = history.shown \cup {hook.password}
      /\ history'.devices = history.devices /\ history'.demanded = history.demanded
      /\ history'.signings = history.signings /\ history'.kept = history.kept
      /\ (history'.early <=> history.early)
  BY <1>v DEF HookLogs, Logged, Inv, StorageType
<1>1. StorageType'
  BY <1>u, <1>h, IdleTyped DEF Inv, StorageType
<1>2. StepInv'
  BY <1>u, <1>h DEF Inv, StepInv, Idle
<1>3. FileInv' /\ MapInv' /\ OneSaved'
  BY <1>u, <1>h DEF Inv, FileInv, MapInv, OneSaved
<1>. QED  BY <1>1, <1>2, <1>3 DEF Inv

LEMMA RequestReadsInv == ASSUME Inv, RequestReads  PROVE Inv'
<1>u. /\ UNCHANGED <<phase, values, file, hook, minted, faults, crashes>>
      /\ phase \in {"booting", "opened", "up"}
      /\ request' = IF values["password"] # 0 THEN request ELSE [request EXCEPT !.at = "set"]
      /\ history' = [history EXCEPT !.demanded = history'.demanded,
                                    !.early = history.early \/ phase # "up"]
      /\ history'.demanded \in {history.demanded, history.demanded \cup {values["password"]}}
  BY DEF RequestReads, Asked, Inv, StorageType
<1>v. values["password"] \in Nat
  BY KeyValueAssumption DEF Inv, StorageType, Values, Keys
<1>h. /\ history' \in [devices : SUBSET Nat, signings : SUBSET Nat, demanded : SUBSET Nat,
                       shown : SUBSET Nat, kept : SUBSET [key : Keys, value : Nat],
                       early : BOOLEAN]
      /\ history'.shown = history.shown
      /\ history'.devices = history.devices
      /\ history'.signings = history.signings /\ history'.kept = history.kept
      /\ (history'.early <=> history.early \/ phase # "up")
  BY <1>u, <1>v DEF Inv, StorageType
<1>1. StorageType'
  BY <1>u, <1>h DEF Inv, StorageType
<1>2. StepInv'
  BY <1>u, <1>h DEF Inv, StepInv, StorageType
<1>3. FileInv' /\ MapInv' /\ OneSaved'
  BY <1>u, <1>h DEF Inv, FileInv, MapInv, OneSaved
<1>. QED  BY <1>1, <1>2, <1>3 DEF Inv

\* Only a request that came early creates the password.
LEMMA RequestSetsInv == ASSUME Inv, RequestSets  PROVE Inv'
<1>1. PICK ok \in BOOLEAN : Set("password", ok)
  BY DEF RequestSets
<1>2. /\ request' = Idle /\ phase' = phase /\ hook' = hook /\ crashes' = crashes
      /\ history.early
  BY DEF RequestSets, Inv, StepInv
<1>s. /\ FileInv' /\ OneSaved' /\ MapInv'
      /\ minted' \in 1..MaxValue /\ values' \in Values
      /\ values' = [values EXCEPT !["password"] = minted']
      /\ file' \in [kind : {"absent", "torn", "whole"}, values : Values]
      /\ faults' \in 0..Faults
      /\ history' \in [devices : SUBSET Nat, signings : SUBSET Nat, demanded : SUBSET Nat,
                       shown : SUBSET Nat, kept : SUBSET [key : Keys, value : Nat],
                       early : BOOLEAN]
      /\ (history'.early <=> history.early)
      /\ history'.demanded = history.demanded /\ history'.shown = history.shown
  BY <1>1, <1>2, SetKeeps DEF Keys
<1>p. values'["password"] = minted' /\ minted' # 0 /\ minted' \in 0..MaxValue
  BY <1>s, KeyValueAssumption DEF Inv, StorageType, Values, Keys
<1>3. StorageType'
  BY <1>2, <1>s, <1>p, IdleTyped DEF Inv, StorageType
<1>4. StepInv'
  BY <1>2, <1>s, <1>p DEF Inv, StepInv, Idle
<1>. QED  BY <1>s, <1>3, <1>4 DEF Inv

LEMMA NextInv == Inv /\ [Next]_vars => Inv'
<1>. SUFFICES ASSUME Inv, [Next]_vars  PROVE Inv'
  OBVIOUS
<1>1. CASE UNCHANGED vars
  BY <1>1 DEF vars, Inv, StorageType, StepInv, FileInv, MapInv, OneSaved
<1>2. CASE Next
  BY <1>2, BootInv, OpenInv, StopInv, CloseInv, CrashInv, CrashInSaveInv, DeviceGetInv,
     DeviceCreateInv, SigningKeyInv, SignInv, HookReadsInv, HookSetsInv, HookLogsInv,
     RequestReadsInv, RequestSetsInv DEF Next
<1>. QED  BY <1>1, <1>2

-----------------------------------------------------------------------------
(* What failed saves and kills cost.                                       *)

\* Sets that grow by one element for each count of a charge.
LEMMA SameCount ==
  ASSUME NEW S, NEW T, NEW n \in Nat, NEW m \in Nat,
         IsFiniteSet(S), Cardinality(S) <= n, T \subseteq S, n <= m
  PROVE  IsFiniteSet(T) /\ Cardinality(T) <= m
<1>1. IsFiniteSet(T) /\ Cardinality(T) <= Cardinality(S)
  BY FS_Subset
<1>2. Cardinality(T) \in Nat /\ Cardinality(S) \in Nat
  BY <1>1, FS_CardinalityType
<1>. QED  BY <1>1, <1>2

LEMMA OneMore ==
  ASSUME NEW S, NEW T, NEW x, NEW n \in Nat, NEW m \in Nat,
         IsFiniteSet(S), Cardinality(S) <= n, T \subseteq S \cup {x}, n + 1 <= m
  PROVE  IsFiniteSet(T) /\ Cardinality(T) <= m
<1>1. /\ IsFiniteSet(S \cup {x})
      /\ Cardinality(S \cup {x}) = IF x \in S THEN Cardinality(S) ELSE Cardinality(S) + 1
  BY FS_AddElement
<1>2. Cardinality(S) \in Nat
  BY FS_CardinalityType
<1>3. Cardinality(S \cup {x}) <= n + 1 /\ n + 1 \in Nat
  BY <1>1, <1>2
<1>. QED  BY <1>1, <1>3, SameCount

LEMMA AtMostOne ==
  ASSUME NEW S \in SUBSET Nat, \A a, b \in S : a = b
  PROVE  Cardinality(S) <= 1
<1>1. CASE S = {}
  <2>1. Cardinality({}) = 0
    BY FS_EmptySet
  <2>. QED  BY <1>1, <2>1
<1>2. CASE S # {}
  <2>1. PICK a \in S : S = {a}
    BY <1>2
  <2>2. Cardinality({a}) = 1
    BY FS_Singleton
  <2>. QED  BY <2>1, <2>2
<1>. QED  BY <1>1, <1>2

\* The values of a key that are in use and were never saved.
Used(k) == IF k = "device" THEN history.devices ELSE history.signings
Unsaved(k) ==
  {d \in Used(k) \cup ({values[k]} \ {0}) : Pair(k, d) \notin history.kept}

\* The passwords that are asked for, or may still be, and that were not shown
\* and are not about to be.
Hooked(n) == hook.at = "log" /\ hook.password = n
Reachable(n) ==
  n # 0 /\ (n = values["password"] \/ Pair("password", n) \in history.kept)
Unseen ==
  {n \in Nat : /\ n \notin history.shown
               /\ n \in history.demanded \/ (Reachable(n) /\ ~Hooked(n))}

\* A failed save leaves at most one value in use that is not saved and one
\* password unseen, a kill one password unseen.
CostInv ==
  ~history.early =>
    /\ \A k \in {"device", "signing"} :
         IsFiniteSet(Unsaved(k)) /\ Cardinality(Unsaved(k)) <= faults
    /\ IsFiniteSet(Unseen) /\ Cardinality(Unseen) <= faults + crashes

\* A step that uses only the values of the map, loses nothing that was saved
\* and changes the map to x or to what is saved.
LEMMA UnsavedStep ==
  ASSUME NEW k, NEW x, Used(k)' \subseteq Used(k) \cup ({values[k]} \ {0}),
         history.kept \subseteq history'.kept,
         values'[k] \in {0, x, values[k]} \/ Pair(k, values'[k]) \in history'.kept
  PROVE  Unsaved(k)' \subseteq Unsaved(k) \cup ({x} \ {0})
BY DEF Unsaved

LEMMA UnseenStep ==
  ASSUME NEW x,
         \/ history'.demanded = history.demanded
         \/ /\ hook.at # "log" /\ values["password"] # 0
            /\ history'.demanded = history.demanded \cup {values["password"]},
         history.shown \subseteq history'.shown,
         \A n \in Nat : Reachable(n)' =>
           n = x \/ Reachable(n) \/ Hooked(n)',
         \A n \in Nat : Hooked(n) => n = x \/ n \in history'.shown \/ Hooked(n)'
  PROVE  Unseen' \subseteq Unseen \cup ({x} \ {0})
<1>. SUFFICES ASSUME NEW n \in Nat, n \in Unseen', ~(n = x /\ n # 0)  PROVE n \in Unseen
  BY DEF Unseen
<1>1. n \notin history.shown
  BY DEF Unseen
<1>2. CASE n \in history.demanded
  BY <1>1, <1>2 DEF Unseen
<1>3. CASE n \in history'.demanded /\ n \notin history.demanded
  <2>1. n = values["password"] /\ n # 0 /\ hook.at # "log"
    BY <1>3
  <2>. QED  BY <1>1, <2>1 DEF Unseen, Reachable, Hooked
<1>4. CASE Reachable(n)' /\ ~Hooked(n)'
  <2>1. n # x
    BY <1>4 DEF Reachable
  <2>2. Reachable(n) /\ ~Hooked(n)
    BY <1>4, <2>1 DEF Unseen
  <2>. QED  BY <1>1, <2>2 DEF Unseen
<1>. QED  BY <1>2, <1>3, <1>4 DEF Unseen

\* Steps that cost nothing, and steps that cost what they are charged for.
LEMMA Free ==
  ASSUME Inv, Inv', CostInv, faults' = faults, crashes' = crashes,
         history.early => history'.early,
         ~history'.early =>
           /\ \A k \in {"device", "signing"} : Unsaved(k)' \subseteq Unsaved(k)
           /\ Unseen' \subseteq Unseen
  PROVE  CostInv'
<1>1. faults \in Nat /\ crashes \in Nat /\ faults + crashes \in Nat
  BY KeyValueAssumption DEF Inv, StorageType
<1>. SUFFICES ASSUME ~history'.early
              PROVE  /\ \A k \in {"device", "signing"} :
                          IsFiniteSet(Unsaved(k)') /\ Cardinality(Unsaved(k)') <= faults'
                     /\ IsFiniteSet(Unseen') /\ Cardinality(Unseen') <= faults' + crashes'
  BY DEF CostInv
<1>2. ASSUME NEW k \in {"device", "signing"}
      PROVE  IsFiniteSet(Unsaved(k)') /\ Cardinality(Unsaved(k)') <= faults'
  <2>1. IsFiniteSet(Unsaved(k)) /\ Cardinality(Unsaved(k)) <= faults
    BY DEF CostInv
  <2>. QED  BY <1>1, <2>1, SameCount
<1>3. IsFiniteSet(Unseen') /\ Cardinality(Unseen') <= faults' + crashes'
  <2>1. IsFiniteSet(Unseen) /\ Cardinality(Unseen) <= faults + crashes
    BY DEF CostInv
  <2>. QED  BY <1>1, <2>1, SameCount
<1>. QED  BY <1>2, <1>3

LEMMA Dearer ==
  \A f, c, g, d \in Nat :
    (g = f + 1 /\ d = c) \/ (g = f /\ d = c + 1) =>
      f + c \in Nat /\ g + d \in Nat /\ f + c + 1 <= g + d
OBVIOUS

LEMMA Charged ==
  ASSUME Inv, Inv', CostInv, NEW x, NEW y, NEW z,
         \/ faults' = faults + 1 /\ crashes' = crashes
         \/ faults' = faults /\ crashes' = crashes + 1 /\ x = 0 /\ y = 0,
         history.early => history'.early,
         ~history'.early =>
           /\ Unsaved("device")' \subseteq Unsaved("device") \cup ({x} \ {0})
           /\ Unsaved("signing")' \subseteq Unsaved("signing") \cup ({y} \ {0})
           /\ Unseen' \subseteq Unseen \cup ({z} \ {0})
  PROVE  CostInv'
<1>1. faults \in Nat /\ crashes \in Nat /\ faults' \in Nat /\ crashes' \in Nat
  BY KeyValueAssumption DEF Inv, StorageType
<1>2. faults + crashes \in Nat /\ faults' + crashes' \in Nat
      /\ faults + crashes + 1 <= faults' + crashes'
  BY <1>1, Dearer
<1>. SUFFICES ASSUME ~history'.early
              PROVE  /\ \A k \in {"device", "signing"} :
                          IsFiniteSet(Unsaved(k)') /\ Cardinality(Unsaved(k)') <= faults'
                     /\ IsFiniteSet(Unseen') /\ Cardinality(Unseen') <= faults' + crashes'
  BY DEF CostInv
<1>3. ASSUME NEW k \in {"device", "signing"}, NEW c, c = IF k = "device" THEN x ELSE y
      PROVE  IsFiniteSet(Unsaved(k)') /\ Cardinality(Unsaved(k)') <= faults'
  <2>1. IsFiniteSet(Unsaved(k)) /\ Cardinality(Unsaved(k)) <= faults
    BY DEF CostInv
  <2>2. Unsaved(k)' \subseteq Unsaved(k) \cup ({c} \ {0})
    BY <1>3
  <2>3. CASE c = 0
    <3>1. Unsaved(k)' \subseteq Unsaved(k) /\ faults <= faults'
      BY <1>1, <2>2, <2>3
    <3>. QED  BY <1>1, <2>1, <3>1, SameCount
  <2>4. CASE c # 0
    <3>1. Unsaved(k)' \subseteq Unsaved(k) \cup {c} /\ faults + 1 <= faults'
      BY <1>1, <1>3, <2>2, <2>4
    <3>. QED  BY <1>1, <2>1, <3>1, OneMore
  <2>. QED  BY <2>3, <2>4
<1>4. IsFiniteSet(Unseen') /\ Cardinality(Unseen') <= faults' + crashes'
  <2>1. IsFiniteSet(Unseen) /\ Cardinality(Unseen) <= faults + crashes
    BY DEF CostInv
  <2>2. Unseen' \subseteq Unseen \cup {z}
    OBVIOUS
  <2>. QED  BY <1>2, <2>1, <2>2, OneMore
<1>. QED  BY <1>3, <1>4

\* An action that leaves history alone and takes the map to nothing or leaves
\* it, with the hook as it was.
LEMMA QuietCost ==
  ASSUME Inv, Inv', CostInv, history' = history, faults' = faults, crashes' = crashes,
         values' \in {values, Empty}, hook.at # "log" \/ hook' = hook
  PROVE  CostInv'
<1>1. \A k \in Keys : values'[k] \in {0, values[k]}
  BY DEF Empty
<1>2. \A k \in {"device", "signing"} : Unsaved(k)' \subseteq Unsaved(k)
  BY <1>1 DEF Unsaved, Used, Keys
<1>3. Unseen' \subseteq Unseen
  <2>1. \A n \in Nat : Reachable(n)' => Reachable(n)
    BY <1>1 DEF Reachable, Keys
  <2>2. \A n \in Nat : Hooked(n) => Hooked(n)'
    BY DEF Hooked
  <2>3. Unseen' \subseteq Unseen \cup ({0} \ {0})
    BY <2>1, <2>2, UnseenStep
  <2>. QED  BY <2>3
<1>. QED  BY <1>2, <1>3, Free DEF CostInv

LEMMA BootCost == ASSUME Inv, Inv', CostInv, Boot  PROVE CostInv'
BY QuietCost DEF Boot

LEMMA StopCost == ASSUME Inv, Inv', CostInv, Stop  PROVE CostInv'
BY QuietCost DEF Stop

LEMMA HookReadsCost == ASSUME Inv, Inv', CostInv, HookReads  PROVE CostInv'
BY QuietCost DEF HookReads

\* What Open puts into the map is saved.
LEMMA OpenCost == ASSUME Inv, Inv', CostInv, Open  PROVE CostInv'
<1>u. UNCHANGED <<file, hook, minted, faults, crashes, history>> /\ phase = "booting"
  BY DEF Open
<1>1. CASE ~Decodes
  BY <1>1, <1>u, QuietCost DEF Open
<1>2. CASE Decodes
  <2>. SUFFICES ASSUME ~history'.early
                PROVE  /\ \A k \in {"device", "signing"} : Unsaved(k)' \subseteq Unsaved(k)
                       /\ Unseen' \subseteq Unseen
    BY <1>u, Free
  <2>1. values' = file.values /\ Kept(file.values) \subseteq history.kept
    BY <1>2, <1>u, MergedFile DEF Open, Inv, StepInv, FileInv
  <2>2. \A k \in Keys : values'[k] = 0 \/ Pair(k, values'[k]) \in history.kept
    BY <2>1, KeptMember
  <2>3. \A k \in {"device", "signing"} : Unsaved(k)' \subseteq Unsaved(k)
    BY <1>u, <2>2 DEF Unsaved, Used, Keys
  <2>4. Unseen' \subseteq Unseen \cup ({0} \ {0})
    <3>1. \A n \in Nat : Reachable(n)' => Reachable(n)
      BY <1>u, <2>2 DEF Reachable, Keys
    <3>2. \A n \in Nat : Hooked(n) => Hooked(n)'
      BY <1>u DEF Hooked
    <3>. QED  BY <1>u, <3>1, <3>2, UnseenStep
  <2>. QED  BY <1>u, <2>3, <2>4 DEF CostInv
<1>. QED  BY <1>1, <1>2

\* A save of the map as it is, at the end of the process.
LEMMA CloseCost == ASSUME Inv, Inv', CostInv, Close  PROVE CostInv'
<1>1. PICK ok \in BOOLEAN : Save(values, ok)
  BY DEF Close
<1>2. values \in Values /\ values' = Empty /\ hook.at # "log" /\ crashes' = crashes
  BY DEF Close, Inv, StorageType, StepInv
<1>3. CASE file' \in {file, Torn} /\ faults' = faults + 1 /\ history' = history
  <2>1. \A k \in Keys : values'[k] = 0
    BY <1>2 DEF Empty
  <2>2. \A k \in {"device", "signing"} : Unsaved(k)' \subseteq Unsaved(k)
    BY <1>3, <2>1 DEF Unsaved, Used, Keys
  <2>3. Unseen' \subseteq Unseen \cup ({0} \ {0})
    <3>1. \A n \in Nat : Reachable(n)' => Reachable(n)
      BY <1>3, <2>1 DEF Reachable, Keys
    <3>2. \A n \in Nat : Hooked(n) => Hooked(n)'
      BY <1>2 DEF Hooked
    <3>. QED  BY <1>3, <3>1, <3>2, UnseenStep
  <2>. QED  BY <1>2, <1>3, <2>2, <2>3, Charged DEF CostInv
<1>4. CASE /\ file' = Whole(values) /\ faults' = faults
           /\ history'.kept = history.kept \cup Kept(values)
  <2>1. /\ history'.devices = history.devices /\ history'.signings = history.signings
        /\ history'.demanded = history.demanded /\ history'.shown = history.shown
        /\ (history'.early <=> history.early)
    BY <1>1, <1>2, SaveTyped, HistoryTyped DEF Inv
  <2>2. \A k \in Keys : values'[k] = 0
    BY <1>2 DEF Empty
  <2>3. \A k \in {"device", "signing"} : Unsaved(k)' \subseteq Unsaved(k)
    BY <1>4, <2>1, <2>2 DEF Unsaved, Used, Keys
  <2>4. Unseen' \subseteq Unseen \cup ({0} \ {0})
    <3>1. \A n \in Nat : Reachable(n)' => Reachable(n)
      BY <1>4, <2>2, KeptMember DEF Reachable, Keys
    <3>2. \A n \in Nat : Hooked(n) => Hooked(n)'
      BY <1>2 DEF Hooked
    <3>. QED  BY <2>1, <3>1, <3>2, UnseenStep
  <2>. QED  BY <1>2, <1>4, <2>1, <2>3, <2>4, Free DEF CostInv
<1>. QED  BY <1>1, <1>2, <1>3, <1>4, SaveEffect DEF Inv

\* A kill costs the password the hook was about to show.
LEMMA KilledCost ==
  ASSUME Inv, Inv', CostInv, history' = history, values' = Empty, hook' = Idle,
         \/ faults' = faults + 1 /\ crashes' = crashes
         \/ faults' = faults /\ crashes' = crashes + 1
  PROVE  CostInv'
<1>1. \A k \in Keys : values'[k] = 0
  BY DEF Empty
<1>2. \A k \in {"device", "signing"} : Unsaved(k)' \subseteq Unsaved(k)
  BY <1>1 DEF Unsaved, Used, Keys
<1>3. Unseen' \subseteq Unseen \cup ({hook.password} \ {0})
  <2>1. \A n \in Nat : Reachable(n)' => Reachable(n)
    BY <1>1 DEF Reachable, Keys
  <2>2. \A n \in Nat : Hooked(n) => n = hook.password
    BY DEF Hooked
  <2>. QED  BY <2>1, <2>2, UnseenStep
<1>4. /\ Unsaved("device")' \subseteq Unsaved("device") \cup ({0} \ {0})
      /\ Unsaved("signing")' \subseteq Unsaved("signing") \cup ({0} \ {0})
  BY <1>2
<1>. QED  BY <1>3, <1>4, Charged DEF CostInv

LEMMA CrashCost == ASSUME Inv, Inv', CostInv, Crash  PROVE CostInv'
BY KilledCost DEF Crash

LEMMA CrashInSaveCost == ASSUME Inv, Inv', CostInv, CrashInSave  PROVE CostInv'
BY KilledCost DEF CrashInSave

\* The values that are used are those of the map.
LEMMA UsedCost ==
  ASSUME Inv, Inv', CostInv, values' = values, hook' = hook,
         faults' = faults, crashes' = crashes,
         history'.demanded = history.demanded, history'.shown = history.shown,
         history'.kept = history.kept, history'.early <=> history.early,
         history'.devices \subseteq history.devices \cup ({values["device"]} \ {0}),
         history'.signings \subseteq history.signings \cup ({values["signing"]} \ {0})
  PROVE  CostInv'
<1>1. \A k \in {"device", "signing"} : Unsaved(k)' \subseteq Unsaved(k)
  BY DEF Unsaved, Used
<1>2. Unseen' \subseteq Unseen
  BY DEF Unseen, Reachable, Hooked
<1>. QED  BY <1>1, <1>2, Free DEF CostInv

LEMMA DeviceGetCost == ASSUME Inv, Inv', CostInv, DeviceGet  PROVE CostInv'
<1>1. /\ history'.devices = history.devices \cup {values["device"]}
      /\ history'.signings = history.signings /\ history'.demanded = history.demanded
      /\ history'.shown = history.shown /\ history'.kept = history.kept
      /\ (history'.early <=> history.early)
  BY DEF DeviceGet, Inv, StorageType
<1>. QED  BY <1>1, UsedCost DEF DeviceGet

LEMMA SignCost == ASSUME Inv, Inv', CostInv, Sign  PROVE CostInv'
<1>1. /\ history'.signings = history.signings \cup {values["signing"]}
      /\ history'.devices = history.devices /\ history'.demanded = history.demanded
      /\ history'.shown = history.shown /\ history'.kept = history.kept
      /\ (history'.early <=> history.early)
  BY DEF Sign, Inv, StorageType
<1>. QED  BY <1>1, UsedCost DEF Sign

\* What a Set of a free key does to the map and to what was ever saved.
LEMMA SetEffect ==
  ASSUME Inv, NEW k \in Keys, NEW ok \in BOOLEAN, Set(k, ok), values[k] = 0
  PROVE  /\ minted' \in Nat \ {0} /\ values'[k] = minted'
         /\ \A j \in Keys \ {k} : values'[j] = values[j]
         /\ history'.devices = history.devices /\ history'.signings = history.signings
         /\ history'.demanded = history.demanded /\ history'.shown = history.shown
         /\ (history'.early <=> history.early)
         /\ history.kept \subseteq history'.kept
         /\ IF ok THEN /\ faults' = faults
                       /\ Pair(k, minted') \in history'.kept
                       /\ history'.kept = history.kept \cup Kept(values')
                  ELSE faults' = faults + 1 /\ history'.kept = history.kept
<1>t. /\ minted' \in 1..MaxValue /\ values' = [values EXCEPT ![k] = minted']
      /\ values' \in Values /\ Save(values', ok)
      /\ history' = [history EXCEPT !.kept = history'.kept]
      /\ history'.kept \in SUBSET [key : Keys, value : Nat]
  BY SetTyped DEF Inv
<1>1. minted' \in Nat \ {0} /\ values'[k] = minted' /\ \A j \in Keys \ {k} : values'[j] = values[j]
  BY <1>t, KeyValueAssumption DEF Inv, StorageType, Values
<1>2. /\ history'.devices = history.devices /\ history'.signings = history.signings
      /\ history'.demanded = history.demanded /\ history'.shown = history.shown
      /\ (history'.early <=> history.early)
  BY <1>t, HistoryTyped DEF Inv
<1>3. CASE ok
  <2>1. faults' = faults /\ history' = [history EXCEPT !.kept = history.kept \cup Kept(values')]
    BY <1>t, <1>3 DEF Save
  <2>2. history'.kept = history.kept \cup Kept(values')
    BY <2>1 DEF Inv, StorageType
  <2>3. Pair(k, minted') \in Kept(values')
    BY <1>1, KeptMember
  <2>. QED  BY <1>1, <1>2, <1>3, <2>1, <2>2, <2>3
<1>4. CASE ~ok
  <2>1. faults' = faults + 1 /\ history' = history
    BY <1>t, <1>4 DEF Save
  <2>. QED  BY <1>1, <1>2, <1>4, <2>1
<1>. QED  BY <1>3, <1>4

\* A failed Set of the identity or of the signing key costs that value.
LEMMA OtherSetCost ==
  ASSUME Inv, Inv', CostInv, NEW k \in {"device", "signing"}, NEW ok \in BOOLEAN,
         Set(k, ok), values[k] = 0, hook' = hook, crashes' = crashes
  PROVE  CostInv'
<1>k. k \in Keys /\ "password" \in Keys \ {k} /\ \A j \in {"device", "signing"} : j \in Keys
  BY DEF Keys
<1>s. /\ minted' \in Nat \ {0} /\ values'[k] = minted'
      /\ \A j \in Keys \ {k} : values'[j] = values[j]
      /\ history'.devices = history.devices /\ history'.signings = history.signings
      /\ history'.demanded = history.demanded /\ history'.shown = history.shown
      /\ (history'.early <=> history.early)
      /\ history.kept \subseteq history'.kept
      /\ IF ok THEN /\ faults' = faults
                    /\ Pair(k, minted') \in history'.kept
                    /\ history'.kept = history.kept \cup Kept(values')
               ELSE faults' = faults + 1 /\ history'.kept = history.kept
  BY <1>k, SetEffect
<1>p. values'["password"] = values["password"]
  BY <1>k, <1>s
<1>1. Unseen' \subseteq Unseen \cup ({0} \ {0})
  <2>1. \A n \in Nat : Pair("password", n) \in history'.kept =>
          Pair("password", n) \in history.kept \/ n = values["password"]
    BY <1>k, <1>s, <1>p, KeptMember
  <2>2. \A n \in Nat : Reachable(n)' => Reachable(n)
    BY <1>p, <2>1 DEF Reachable
  <2>3. \A n \in Nat : Hooked(n) => Hooked(n)'
    BY DEF Hooked
  <2>. QED  BY <1>s, <2>2, <2>3, UnseenStep
<1>2. ASSUME NEW j \in {"device", "signing"}, j # k
      PROVE  Unsaved(j)' \subseteq Unsaved(j) \cup ({0} \ {0})
  <2>1. Used(j)' \subseteq Used(j) \cup ({values[j]} \ {0})
    BY <1>s DEF Used
  <2>2. values'[j] = values[j]
    BY <1>k, <1>s, <1>2
  <2>. QED  BY <1>s, <2>1, <2>2, UnsavedStep
<1>3. Used(k)' \subseteq Used(k) \cup ({values[k]} \ {0})
  BY <1>s DEF Used
<1>4. CASE ok
  <2>1. Unsaved(k)' \subseteq Unsaved(k) \cup ({0} \ {0})
    BY <1>s, <1>3, <1>4, UnsavedStep
  <2>2. \A j \in {"device", "signing"} : Unsaved(j)' \subseteq Unsaved(j)
    BY <1>2, <2>1
  <2>. QED  BY <1>1, <1>4, <1>s, <2>2, Free DEF CostInv
<1>5. CASE ~ok
  <2>1. Unsaved(k)' \subseteq Unsaved(k) \cup ({minted'} \ {0})
    BY <1>s, <1>3, UnsavedStep
  <2>2. CASE k = "device"
    <3>1. Unsaved("signing")' \subseteq Unsaved("signing") \cup ({0} \ {0})
      BY <1>2, <2>2
    <3>. QED  BY <1>1, <1>5, <1>s, <2>1, <2>2, <3>1, Charged DEF CostInv
  <2>3. CASE k = "signing"
    <3>1. Unsaved("device")' \subseteq Unsaved("device") \cup ({0} \ {0})
      BY <1>2, <2>3
    <3>. QED  BY <1>1, <1>5, <1>s, <2>1, <2>3, <3>1, Charged DEF CostInv
  <2>. QED  BY <2>2, <2>3
<1>. QED  BY <1>4, <1>5

LEMMA DeviceCreateCost == ASSUME Inv, Inv', CostInv, DeviceCreate  PROVE CostInv'
BY OtherSetCost DEF DeviceCreate, SetDevice

LEMMA SigningKeyCost == ASSUME Inv, Inv', CostInv, SigningKey  PROVE CostInv'
BY OtherSetCost DEF SigningKey

\* The password the hook saved is the one it shows next; one it did not save
\* stays in the map until the process ends, and that end saves it.
LEMMA HookSetsCost == ASSUME Inv, Inv', CostInv, HookSets  PROVE CostInv'
<1>1. PICK ok \in BOOLEAN :
        /\ Set("password", ok)
        /\ hook' = IF ok THEN [at |-> "log", password |-> minted'] ELSE Idle
  BY DEF HookSets
<1>2. hook.at = "set" /\ crashes' = crashes /\ "password" \in Keys
  BY DEF HookSets, Keys
<1>0. CASE history.early
  <2>1. history'.early
    BY <1>0, <1>1, <1>2, SetTyped, HistoryTyped DEF Inv
  <2>. QED  BY <2>1 DEF CostInv
<1>3. CASE ~history.early
  <2>v. values["password"] = 0
    BY <1>2, <1>3 DEF Inv, StepInv
  <2>s. /\ minted' \in Nat \ {0} /\ values'["password"] = minted'
        /\ \A j \in Keys \ {"password"} : values'[j] = values[j]
        /\ history'.devices = history.devices /\ history'.signings = history.signings
        /\ history'.demanded = history.demanded /\ history'.shown = history.shown
        /\ (history'.early <=> history.early)
        /\ history.kept \subseteq history'.kept
        /\ IF ok THEN /\ faults' = faults
                      /\ Pair("password", minted') \in history'.kept
                      /\ history'.kept = history.kept \cup Kept(values')
                 ELSE faults' = faults + 1 /\ history'.kept = history.kept
    BY <1>1, <1>2, <2>v, SetEffect
  <2>1. \A j \in {"device", "signing"} : Unsaved(j)' \subseteq Unsaved(j)
    BY <2>s DEF Unsaved, Used, Keys
  <2>2. \A n \in Nat : Pair("password", n) \in history'.kept =>
          Pair("password", n) \in history.kept \/ n = minted'
    BY <1>2, <2>s, KeptMember
  <2>3. \A n \in Nat : Reachable(n)' => Reachable(n) \/ n = minted'
    BY <2>2, <2>s DEF Reachable
  <2>4. \A n \in Nat : ~Hooked(n)
    BY <1>2 DEF Hooked
  <2>5. CASE ok
    <3>1. \A n \in Nat : n = minted' => Hooked(n)'
      BY <1>1, <2>5 DEF Hooked
    <3>2. \A n \in Nat : Reachable(n)' => Reachable(n) \/ Hooked(n)'
      BY <2>3, <3>1
    <3>3. Unseen' \subseteq Unseen \cup ({0} \ {0})
      BY <2>s, <2>4, <3>2, UnseenStep
    <3>. QED  BY <1>2, <2>5, <2>s, <2>1, <3>3, Free DEF CostInv
  <2>6. CASE ~ok
    <3>1. Unseen' \subseteq Unseen \cup ({minted'} \ {0})
      BY <2>s, <2>3, <2>4, UnseenStep
    <3>2. /\ Unsaved("device")' \subseteq Unsaved("device") \cup ({0} \ {0})
          /\ Unsaved("signing")' \subseteq Unsaved("signing") \cup ({0} \ {0})
      BY <2>1
    <3>. QED  BY <1>2, <2>6, <2>s, <3>1, <3>2, Charged DEF CostInv
  <2>. QED  BY <2>5, <2>6
<1>. QED  BY <1>0, <1>3

LEMMA HookLogsCost == ASSUME Inv, Inv', CostInv, HookLogs  PROVE CostInv'
<1>u. /\ UNCHANGED <<values, faults, crashes>> /\ hook' = Idle
      /\ history'.shown = history.shown \cup {hook.password}
      /\ history'.devices = history.devices /\ history'.demanded = history.demanded
      /\ history'.signings = history.signings /\ history'.kept = history.kept
      /\ (history'.early <=> history.early)
  BY DEF HookLogs, Logged, Inv, StorageType
<1>1. \A k \in {"device", "signing"} : Unsaved(k)' \subseteq Unsaved(k)
  BY <1>u DEF Unsaved, Used
<1>2. \A n \in Nat : Reachable(n)' => Reachable(n)
  BY <1>u DEF Reachable
<1>3. \A n \in Nat : Hooked(n) => n \in history'.shown
  BY <1>u DEF Hooked
<1>4. Unseen' \subseteq Unseen \cup ({0} \ {0})
  BY <1>u, <1>2, <1>3, UnseenStep
<1>. QED  BY <1>u, <1>1, <1>4, Free DEF CostInv

\* A password that is asked for is the one of the map, and no hook is about to
\* show it.
LEMMA RequestReadsCost == ASSUME Inv, Inv', CostInv, RequestReads  PROVE CostInv'
<1>u. /\ UNCHANGED <<phase, values, file, hook, minted, faults, crashes>>
      /\ history' = [history EXCEPT !.demanded = history'.demanded,
                                    !.early = history.early \/ phase # "up"]
      /\ \/ history'.demanded = history.demanded
         \/ values["password"] # 0 /\ history'.demanded = history.demanded \cup {values["password"]}
  BY DEF RequestReads, Asked, Inv, StorageType
<1>h. /\ history'.shown = history.shown /\ history'.devices = history.devices
      /\ history'.signings = history.signings /\ history'.kept = history.kept
      /\ (history'.early <=> history.early \/ phase # "up")
  BY <1>u DEF Inv, StorageType
<1>. SUFFICES ASSUME ~history'.early
              PROVE  /\ \A k \in {"device", "signing"} : Unsaved(k)' \subseteq Unsaved(k)
                     /\ Unseen' \subseteq Unseen
  BY <1>u, <1>h, Free
<1>1. hook.at # "log" /\ ~history.early
  BY <1>h DEF Inv, StepInv
<1>2. \A k \in {"device", "signing"} : Unsaved(k)' \subseteq Unsaved(k)
  BY <1>u, <1>h DEF Unsaved, Used
<1>3. \A n \in Nat : Reachable(n)' => Reachable(n)
  BY <1>u, <1>h DEF Reachable
<1>4. \A n \in Nat : Hooked(n) => Hooked(n)'
  BY <1>1 DEF Hooked
<1>5. Unseen' \subseteq Unseen \cup ({0} \ {0})
  BY <1>u, <1>h, <1>1, <1>3, <1>4, UnseenStep
<1>. QED  BY <1>u, <1>1, <1>2, <1>5 DEF CostInv

\* A request that creates the password came early.
LEMMA RequestSetsCost == ASSUME Inv, Inv', CostInv, RequestSets  PROVE CostInv'
<1>1. PICK ok \in BOOLEAN : Set("password", ok)
  BY DEF RequestSets
<1>2. history'.early
  BY <1>1, SetTyped, HistoryTyped DEF RequestSets, Inv, StepInv, Keys
<1>. QED  BY <1>2 DEF CostInv

LEMMA InitCost == Init => CostInv
<1>. SUFFICES ASSUME Init  PROVE CostInv
  OBVIOUS
<1>1. Unsaved("device") = {} /\ Unsaved("signing") = {} /\ Unseen = {}
  BY DEF Init, Unsaved, Used, Unseen, Reachable, Empty, Keys
<1>2. IsFiniteSet({}) /\ Cardinality({}) = 0
  BY FS_EmptySet
<1>3. faults = 0 /\ faults + crashes = 0
  BY DEF Init
<1>4. \A k \in {"device", "signing"} :
        IsFiniteSet(Unsaved(k)) /\ Cardinality(Unsaved(k)) <= faults
  BY <1>1, <1>2, <1>3
<1>5. IsFiniteSet(Unseen) /\ Cardinality(Unseen) <= faults + crashes
  BY <1>1, <1>2, <1>3
<1>. QED  BY <1>4, <1>5 DEF CostInv

LEMMA NextCost == Inv /\ Inv' /\ CostInv /\ [Next]_vars => CostInv'
<1>. SUFFICES ASSUME Inv, Inv', CostInv, [Next]_vars  PROVE CostInv'
  OBVIOUS
<1>1. CASE UNCHANGED vars
  BY <1>1, QuietCost DEF vars
<1>2. CASE Next
  BY <1>2, BootCost, OpenCost, StopCost, CloseCost, CrashCost, CrashInSaveCost, DeviceGetCost,
     DeviceCreateCost, SigningKeyCost, SignCost, HookReadsCost, HookSetsCost, HookLogsCost,
     RequestReadsCost, RequestSetsCost DEF Next
<1>. QED  BY <1>1, <1>2

-----------------------------------------------------------------------------
(* The theorems.                                                           *)

\* The invariant holds in every reachable state: what the map, the file and
\* the readers know of each other over any restarts (storage/service.go).
THEOREM InvCorrect == Spec => []Inv
BY InitInv, NextInv, PTL DEF Spec

\* The variables have their types, and a process that is up has a password.
THEOREM StorageTypeCorrect == Spec => []StorageType
<1>1. Inv => StorageType
  BY DEF Inv
<1>. QED  BY <1>1, InvCorrect, PTL

\* What a whole file once held is in every whole file after it, however many
\* saves fail and whenever the process is killed (storage/service.go:72-120).
THEOREM SavedStaysCorrect == Spec => []SavedStays
<1>1. Inv => SavedStays
  BY DEF Inv, FileInv, SavedStays
<1>. QED  BY <1>1, InvCorrect, PTL

\* In every reachable state a failed save has left at most one value of a key
\* in use that is not saved and at most one password unseen, and a kill at
\* most one password unseen (auth/service.go:60-109, devices/service.go:43-80).
THEOREM CostInvCorrect == Spec => []CostInv
BY InitCost, NextCost, InvCorrect, PTL DEF Spec

\* Of the values of a key that are in use, all but one were never saved, so
\* that there are as many as failed saves, and one more.
LEMMA FewUsed ==
  ASSUME Inv, CostInv, ~history.early, NEW k \in {"device", "signing"}
  PROVE  Cardinality(Used(k)) <= 1 + faults
<1>. DEFINE S == {d \in Used(k) : Pair(k, d) \in history.kept}
<1>1. PICK v \in Values : history.kept \subseteq Kept(v)
  BY DEF Inv, OneSaved
<1>2. \A d \in S : d = v[k]
  BY <1>1, KeptMember DEF Keys
<1>3. Used(k) \subseteq Unsaved(k) \cup {v[k]}
  BY <1>2 DEF Unsaved
<1>4. /\ IsFiniteSet(Unsaved(k)) /\ Cardinality(Unsaved(k)) <= faults
      /\ faults \in Nat /\ 1 + faults \in Nat /\ faults + 1 <= 1 + faults
  BY KeyValueAssumption DEF CostInv, Inv, StorageType
<1>. QED  BY <1>3, <1>4, OneMore

\* The device has one identity and one signing key, and each save that fails
\* or is cut off costs at most one more, unless a request came before Open
\* had read the file (devices/service.go:43-80).
THEOREM OneIdentityCorrect == Spec => []OneIdentity
<1>1. Inv /\ CostInv => OneIdentity
  BY FewUsed DEF OneIdentity, Used
<1>. QED  BY <1>1, InvCorrect, CostInvCorrect, PTL

\* Of the passwords that are asked for, each save that fails and each kill
\* costs at most one that was not shown, unless a request came first
\* (auth/service.go:60-109).
THEOREM DemandedWasShownCorrect == Spec => []DemandedWasShown
<1>1. ASSUME Inv, CostInv  PROVE DemandedWasShown
  <2>. SUFFICES ASSUME ~history.early
                PROVE  Cardinality(history.demanded \ history.shown) <= faults + crashes
    BY DEF DemandedWasShown
  <2>1. /\ IsFiniteSet(Unseen) /\ Cardinality(Unseen) <= faults + crashes
        /\ faults + crashes \in Nat /\ faults + crashes <= faults + crashes
    BY <1>1, KeyValueAssumption DEF CostInv, Inv, StorageType
  <2>2. history.demanded \ history.shown \subseteq Unseen
    BY <1>1 DEF CostInv, Unseen, Inv, StorageType
  <2>. QED  BY <2>1, <2>2, SameCount
<1>. QED  BY <1>1, InvCorrect, CostInvCorrect, PTL
=============================================================================
