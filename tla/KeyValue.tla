------------------------------ MODULE KeyValue ------------------------------
(***************************************************************************)
(* The key-value storage (internal/storage): a map and a JSON file behind  *)
(* one mutex, and its three get-or-create users: the device identity, the  *)
(* API password and the signing key of the webhooks, across restarts.      *)
(*                                                                         *)
(* The three keys of the device are one here: SetMulti stores them under   *)
(* one lock, and the mutex of devices.Service keeps its readers apart.     *)
(***************************************************************************)
EXTENDS Integers, FiniteSets

CONSTANTS MaxValue,  \* bound: how many values are generated
          Faults,    \* bound: how many saves fail or are cut off
          Crashes    \* bound: how often the process is killed between saves

ASSUME KeyValueAssumption == MaxValue \in Nat /\ Faults \in Nat /\ Crashes \in Nat

VARIABLES phase,    \* of the process
          values,   \* Service.values
          file,     \* the JSON file
          hook,     \* auth's OnStart hook: its step and its password
          request,  \* a request that resolves the password
          minted,   \* how many values were generated
          faults, crashes,
          history   \* what an observer sees, see Init

vars == <<phase, values, file, hook, request, minted, faults, crashes, history>>

Keys == {"device", "password", "signing"}
Empty == [k \in Keys |-> 0]
Absent == [kind |-> "absent", values |-> Empty]
Torn == [kind |-> "torn", values |-> Empty]
Whole(v) == [kind |-> "whole", values |-> v]
Idle == [at |-> "idle", password |-> 0]

-----------------------------------------------------------------------------
(* Set, SetMulti and saveLocked. *)

Stored(k, v) == [values EXCEPT ![k] = v]

Kept(v) == {[key |-> k, value |-> v[k]] : k \in {x \in Keys : v[x] # 0}}

\* The file is truncated before it is written: a save that fails leaves the
\* old file, or a torn one.
Save(v, ok) ==
  \/ /\ ok
     /\ file' = Whole(v)
     /\ history' = [history EXCEPT !.kept = @ \cup Kept(v)]
     /\ UNCHANGED faults
  \/ /\ ~ok /\ faults < Faults
     /\ faults' = faults + 1
     /\ file' \in {file, Torn}
     /\ UNCHANGED history

\* The new value is in the map before the old one is looked up, so the value
\* a failed Set puts back is the new one.
Set(k, ok) ==
  /\ minted < MaxValue
  /\ minted' = minted + 1
  /\ values' = Stored(k, minted + 1)
  /\ Save(values', ok)

-----------------------------------------------------------------------------
(* Start and stop. *)

Boot ==
  /\ phase = "down"
  /\ phase' = "booting"
  /\ values' = Empty
  /\ UNCHANGED <<file, hook, request, minted, faults, crashes, history>>

\* Mutant: a torn file is taken for an empty one.
Decodes_Bug == TRUE
Decodes == file.kind # "torn"

\* Decoding adds the keys of the file to what the map holds already.
Merged == [k \in Keys |-> IF file.values[k] # 0 THEN file.values[k] ELSE values[k]]

Open ==
  /\ phase = "booting"
  /\ IF Decodes
     THEN phase' = "opened" /\ values' = Merged
     ELSE phase' = "down" /\ values' = Empty
  /\ request' = IF Decodes THEN request ELSE Idle
  /\ UNCHANGED <<file, hook, minted, faults, crashes, history>>

Stop ==
  /\ phase = "up"
  /\ phase' = "stopping"
  /\ UNCHANGED <<values, file, hook, request, minted, faults, crashes, history>>

Close ==
  /\ phase = "stopping"
  /\ \E ok \in BOOLEAN : Save(values, ok)
  /\ phase' = "down"
  /\ values' = Empty /\ hook' = Idle /\ request' = Idle
  /\ UNCHANGED <<minted, crashes>>

Crash ==
  /\ phase # "down" /\ crashes < Crashes
  /\ crashes' = crashes + 1
  /\ phase' = "down"
  /\ values' = Empty /\ hook' = Idle /\ request' = Idle
  /\ UNCHANGED <<file, minted, faults, history>>

\* The process is killed between the truncation and the end of a save.
CrashInSave ==
  /\ phase = "stopping" \/ hook.at = "set" \/ request.at = "set"
       \/ (phase = "up" /\ 0 \in {values["device"], values["signing"]})
  /\ faults < Faults
  /\ faults' = faults + 1
  /\ file' = Torn
  /\ phase' = "down"
  /\ values' = Empty /\ hook' = Idle /\ request' = Idle
  /\ UNCHANGED <<minted, crashes, history>>

-----------------------------------------------------------------------------
(* The device identity and the signing key. *)

\* devices.Get: a failed save is logged, the new identity is used all the same,
\* by this caller and every later one.
DeviceGet ==
  /\ phase \in {"opened", "up"}
  /\ values["device"] # 0
  /\ history' = [history EXCEPT !.devices = @ \cup {values["device"]}]
  /\ UNCHANGED <<phase, values, file, hook, request, minted, faults, crashes>>

\* Mutant: the identity is kept in the map only.
SetDevice_Bug(ok) ==
  /\ minted < MaxValue
  /\ minted' = minted + 1
  /\ values' = Stored("device", minted + 1)
  /\ UNCHANGED <<file, faults, history>>

SetDevice(ok) == Set("device", ok)

DeviceCreate ==
  /\ phase \in {"opened", "up"}
  /\ values["device"] = 0
  /\ \E ok \in BOOLEAN : SetDevice(ok)
  /\ UNCHANGED <<phase, hook, request, crashes>>

\* webhooks.Run ends with the error of a failed save, which stops the process.
SigningKey ==
  /\ phase = "up" /\ values["signing"] = 0
  /\ \E ok \in BOOLEAN : Set("signing", ok) /\ phase' = IF ok THEN "up" ELSE "stopping"
  /\ UNCHANGED <<hook, request, crashes>>

Sign ==
  /\ phase = "up" /\ values["signing"] # 0
  /\ history' = [history EXCEPT !.signings = @ \cup {values["signing"]}]
  /\ UNCHANGED <<phase, values, file, hook, request, minted, faults, crashes>>

-----------------------------------------------------------------------------
(* The password: ensureCredentials reads it and, without a lock, creates it. *)

\* A password that is generated is written to the log, one that is found is not.
NeedsPassword == values["password"] = 0

HookReads ==
  /\ phase = "opened" /\ hook.at = "idle"
  /\ IF NeedsPassword
     THEN hook' = [hook EXCEPT !.at = "set"] /\ UNCHANGED phase
     ELSE phase' = "up" /\ UNCHANGED hook
  /\ UNCHANGED <<values, file, request, minted, faults, crashes, history>>

\* An error ends the start, and the hooks that ran are stopped again.
HookSets ==
  /\ hook.at = "set"
  /\ \E ok \in BOOLEAN :
       /\ Set("password", ok)
       /\ hook' = IF ok THEN [at |-> "log", password |-> minted'] ELSE Idle
       /\ phase' = IF ok THEN phase ELSE "stopping"
  /\ UNCHANGED <<request, crashes>>

\* Mutant: the line is left out.
Logged_Bug == history.shown

Logged == history.shown \cup {hook.password}

HookLogs ==
  /\ hook.at = "log"
  /\ history' = [history EXCEPT !.shown = Logged]
  /\ hook' = Idle
  /\ phase' = "up"
  /\ UNCHANGED <<values, file, request, minted, faults, crashes>>

\* The HTTP server is a hook of its own: a request may come before the one of
\* the storage or of auth has run.
Asked(v) ==
  history' = [history EXCEPT !.demanded = @ \cup {v}, !.early = @ \/ phase # "up"]

RequestReads ==
  /\ phase \in {"booting", "opened", "up"} /\ request.at = "idle"
  /\ IF values["password"] # 0
     THEN Asked(values["password"]) /\ UNCHANGED request
     ELSE /\ request' = [request EXCEPT !.at = "set"]
          /\ history' = [history EXCEPT !.early = @ \/ phase # "up"]
  /\ UNCHANGED <<phase, values, file, hook, minted, faults, crashes>>

RequestSets ==
  /\ request.at = "set" /\ phase # "stopping"
  /\ \E ok \in BOOLEAN : Set("password", ok)
  /\ request' = Idle
  /\ UNCHANGED <<phase, hook, crashes>>

-----------------------------------------------------------------------------
Init ==
  /\ phase = "down"
  /\ values = Empty
  /\ file = Absent
  /\ hook = Idle /\ request = Idle
  /\ minted = 0 /\ faults = 0 /\ crashes = 0
  \* the identities and keys used, the passwords asked for and logged, what
  \* was ever saved, and whether a request came before the hooks were done
  /\ history = [devices |-> {}, signings |-> {}, demanded |-> {}, shown |-> {},
                kept |-> {}, early |-> FALSE]

Next ==
  \/ Boot \/ Open \/ Stop \/ Close \/ Crash \/ CrashInSave
  \/ DeviceGet \/ DeviceCreate \/ SigningKey \/ Sign
  \/ HookReads \/ HookSets \/ HookLogs \/ RequestReads \/ RequestSets

Spec == Init /\ [][Next]_vars

-----------------------------------------------------------------------------
Values == [Keys -> 0..MaxValue]

StorageType ==
  /\ phase \in {"down", "booting", "opened", "up", "stopping"}
  /\ values \in Values
  /\ file \in [kind : {"absent", "torn", "whole"}, values : Values]
  /\ hook \in [at : {"idle", "set", "log"}, password : 0..MaxValue]
  /\ request \in [at : {"idle", "set"}, password : {0}]
  /\ phase = "up" => values["password"] # 0
  /\ minted \in 0..MaxValue /\ faults \in 0..Faults /\ crashes \in 0..Crashes
  /\ history \in [devices : SUBSET Nat, signings : SUBSET Nat, demanded : SUBSET Nat,
                  shown : SUBSET Nat, kept : SUBSET [key : Keys, value : Nat],
                  early : BOOLEAN]

\* The device has one identity and one signing key for good, over restarts and
\* crashes; each save that fails or is cut off costs at most one more, unless a
\* request came before Open had read the file (devices/service.go:43-80,
\* storage/service.go:50-120).
OneIdentity ==
  ~history.early =>
    /\ Cardinality(history.devices) <= 1 + faults
    /\ Cardinality(history.signings) <= 1 + faults

\* What a whole file once held is in every whole file after it, failed saves
\* or not (storage/service.go:72-120).
SavedStays ==
  file.kind = "whole" /\ ~history.early => history.kept \subseteq Kept(file.values)

\* A password that is asked for was written to the log when it was generated,
\* but for one at most for each save that failed and each time the process was
\* killed, unless a request came first (auth/service.go:60-109).
DemandedWasShown ==
  ~history.early => Cardinality(history.demanded \ history.shown) <= faults + crashes
=============================================================================
