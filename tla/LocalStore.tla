------------------------------ MODULE LocalStore ------------------------------
(***************************************************************************)
(* The broker's two files under %LOCALAPPDATA%\ViewsExplorerWelcome:       *)
(* preferences.json (PreferencesStore) and snapshot-cache.json             *)
(* (SnapshotCache). Both are written to a temporary name and moved over    *)
(* the old file. The broker handles one request at a time, so the two      *)
(* saves never overlap, but it may be killed between any two steps; the    *)
(* page reads the cache file at any time.                                  *)
(***************************************************************************)
CONSTANTS
    Keys, Values,     \* the preferences an update may name, and their values
    Defaults,         \* new PreferencesSnapshot()
    Snapshots         \* the snapshots a collection may give

ASSUME StoreAssumption == Defaults \in [Keys -> Values]

PreferencesFile == "preferences"
CacheFile       == "snapshot-cache"
Files           == {PreferencesFile, CacheFile}

NoFile   == [what |-> "none"]
Torn     == [what |-> "torn"]      \* created or cut short, not a whole document
Preferences(p) == [what |-> "preferences", values |-> p]
Snapshot(n)    == [what |-> "snapshot", snapshot |-> n]

PreferencesDocs == {Preferences(p) : p \in [Keys -> Values]}
SnapshotDocs    == {Snapshot(n) : n \in Snapshots}
Contents == {NoFile, Torn} \cup PreferencesDocs \cup SnapshotDocs

(* An update names some preferences; "unsupported" stands for a payload    *)
(* with a name or a value the switch does not know.                        *)
Updates == UNION {[D -> Values] : D \in SUBSET Keys}

VARIABLES
    file,     \* content of each file under its final name
    tmp,      \* content of each file's ".tmp"
    pc,       \* "idle", or the step of the save in progress
    saving,   \* which file is being saved
    data,     \* the document being saved
    update,   \* the names and values of the last update request
    before,   \* the preferences file when that request began
    misread,  \* its read failed: ReadAllText threw on the file
    reply     \* what the last update was answered: "none" before that

vars == <<file, tmp, pc, saving, data, update, before, misread, reply>>

TypeOK ==
    /\ file \in [Files -> Contents]
    /\ tmp \in [Files -> Contents]
    /\ pc \in {"idle", "create", "write", "move"}
    /\ saving \in Files
    /\ data \in Contents
    /\ update \in Updates
    /\ before \in Contents
    /\ misread \in BOOLEAN
    /\ reply \in {"none", "accepted", "rejected"}

(* A first start, or the files some earlier broker left behind.            *)
Init ==
    /\ file = [f \in Files |-> NoFile]
    /\ tmp \in [Files -> {NoFile, Torn}]
    /\ pc = "idle"
    /\ saving = PreferencesFile
    /\ data = NoFile
    /\ update = [k \in {} |-> Defaults[k]]
    /\ before = NoFile
    /\ misread = FALSE
    /\ reply = "none"

-----------------------------------------------------------------------------
(* PreferencesStore.Load on a readable file: a missing file and one that   *)
(* does not parse both give the defaults.                                  *)
Loaded(c) == IF c \in PreferencesDocs THEN c.values ELSE Defaults

MergedFromDefaults(p, u) ==                                         \* mutant
    [k \in Keys |-> IF k \in DOMAIN u THEN u[k] ELSE Defaults[k]]
Merged(p, u) == [k \in Keys |-> IF k \in DOMAIN u THEN u[k] ELSE p[k]]

(* TryUpdatePreferences, up to the call of TrySave. A read that fails is   *)
(* taken for a missing file.                                               *)
BeginUpdate(u) ==
    /\ pc = "idle"
    /\ misread' \in BOOLEAN
    /\ data' = Preferences(Merged(IF misread' THEN Defaults
                                             ELSE Loaded(file[PreferencesFile]), u))
    /\ saving' = PreferencesFile
    /\ pc' = "create"
    /\ update' = u
    /\ before' = file[PreferencesFile]
    /\ reply' = "none"
    /\ UNCHANGED <<file, tmp>>

(* An unsupported name or value anywhere in the payload: nothing is saved. *)
RejectUpdate(u) ==
    /\ pc = "idle"
    /\ update' = u
    /\ before' = file[PreferencesFile]
    /\ reply' = "rejected"
    /\ UNCHANGED <<file, tmp, pc, saving, data, misread>>

(* A snapshot was collected: snapshotCache.TrySave.                        *)
BeginCache(n) ==
    /\ pc = "idle"
    /\ data' = Snapshot(n)
    /\ saving' = CacheFile
    /\ pc' = "create"
    /\ UNCHANGED <<file, tmp, update, before, misread, reply>>

(* CreateDirectory and the opening half of WriteAllText.                   *)
CreateTmpInPlace ==                                                 \* mutant
    /\ pc = "create"
    /\ file' = [file EXCEPT ![saving] = Torn]
    /\ pc' = "write"
    /\ UNCHANGED <<tmp, saving, data, update, before, misread, reply>>

CreateTmp ==
    /\ pc = "create"
    /\ tmp' = [tmp EXCEPT ![saving] = Torn]
    /\ pc' = "write"
    /\ UNCHANGED <<file, saving, data, update, before, misread, reply>>

WriteTmp ==
    /\ pc = "write"
    /\ tmp' = [tmp EXCEPT ![saving] = data]
    /\ pc' = "move"
    /\ UNCHANGED <<file, saving, data, update, before, misread, reply>>

(* The answer of TryUpdatePreferences; TrySave of the cache answers none.  *)
Answer(a) == reply' = IF saving = PreferencesFile THEN a ELSE reply

(* File.Move with overwrite.                                               *)
Move ==
    /\ pc = "move"
    /\ file' = [file EXCEPT ![saving] = tmp[saving]]
    /\ tmp' = [tmp EXCEPT ![saving] = NoFile]
    /\ pc' = "idle"
    /\ Answer("accepted")
    /\ UNCHANGED <<saving, data, update, before, misread>>

(* Any step may throw; the half-written temporary file stays.              *)
SaveFailsSilently ==                                                \* mutant
    /\ pc # "idle"
    /\ pc' = "idle"
    /\ Answer("accepted")
    /\ UNCHANGED <<file, tmp, saving, data, update, before, misread>>

SaveNotReset ==                                                     \* mutant
    /\ pc # "idle"
    /\ pc' = "failed"
    /\ Answer("rejected")
    /\ UNCHANGED <<file, tmp, saving, data, update, before, misread>>

SaveFails ==
    /\ pc # "idle"
    /\ pc' = "idle"
    /\ Answer("rejected")
    /\ UNCHANGED <<file, tmp, saving, data, update, before, misread>>

(* The broker process is killed and started again.                         *)
Crash ==
    /\ pc # "idle"
    /\ pc' = "idle"
    /\ UNCHANGED <<file, tmp, saving, data, update, before, misread, reply>>

Next ==
    \/ \E u \in Updates : BeginUpdate(u) \/ RejectUpdate(u)
    \/ \E n \in Snapshots : BeginCache(n)
    \/ CreateTmp \/ WriteTmp \/ Move \/ SaveFails \/ Crash

Spec == Init /\ [][Next]_vars

-----------------------------------------------------------------------------
(* No reader, in the broker or on the page, ever finds a torn document     *)
(* under a final name, whenever the broker is killed and whichever step    *)
(* of a save fails.                                                        *)
NeverTorn == \A f \in Files : file[f] # Torn

(* An accepted update is in the file, whole; a rejected one, whatever made *)
(* it fail, left the file as it found it.                                  *)
AnswerMatchesFile ==
    /\ reply = "accepted" =>
          \A k \in DOMAIN update : Loaded(file[PreferencesFile])[k] = update[k]
    /\ reply = "rejected" => file[PreferencesFile] = before

(* A preference changes only by an update that names it, or falls back to  *)
(* its default with an update whose read of the file failed: no crash, no  *)
(* half-made save and no earlier update loses another preference.          *)
OthersSurvive ==
    [][\A k \in Keys :
          Loaded(file[PreferencesFile])'[k] # Loaded(file[PreferencesFile])[k]
          => \/ k \in DOMAIN update
             \/ misread /\ Loaded(file[PreferencesFile])'[k] = Defaults[k]]_vars
===============================================================================
