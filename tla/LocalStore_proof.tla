---------------------------- MODULE LocalStore_proof ----------------------------
(* Proofs about the broker's files, for any preferences and snapshots.     *)
EXTENDS LocalStore, TLAPS

USE StoreAssumption DEF Files, PreferencesFile, CacheFile

(* What holds of a save in progress: the document is whole, the temporary   *)
(* file holds it once written, and an update's document was merged from     *)
(* the file as it still is, unless the read failed.                         *)
SaveInv ==
    /\ pc # "idle" => data \in PreferencesDocs \cup SnapshotDocs
    /\ pc = "move" => tmp[saving] = data
    /\ pc # "idle" /\ saving = PreferencesFile =>
          /\ before = file[PreferencesFile]
          /\ reply = "none"
          /\ \E p \in [Keys -> Values] :
                /\ data = Preferences(Merged(p, update))
                /\ p = IF misread THEN Defaults ELSE Loaded(file[PreferencesFile])

IInv == TypeOK /\ NeverTorn /\ AnswerMatchesFile /\ SaveInv

-----------------------------------------------------------------------------
(* Reading gives values for every preference, and merging keeps them so.    *)
LEMMA LoadedType == ASSUME NEW c \in Contents PROVE Loaded(c) \in [Keys -> Values]
BY DEF Loaded, PreferencesDocs, Preferences

(* A merged document has the named values and keeps the others.             *)
LEMMA MergedType ==
    ASSUME NEW p \in [Keys -> Values], NEW u \in Updates
    PROVE  /\ Merged(p, u) \in [Keys -> Values]
           /\ \A k \in DOMAIN u : k \in Keys /\ Merged(p, u)[k] = u[k]
           /\ \A k \in Keys \ DOMAIN u : Merged(p, u)[k] = p[k]
<1>1. PICK D \in SUBSET Keys : u \in [D -> Values] BY DEF Updates
<1> QED BY <1>1 DEF Merged

(* What was written is what is read.                                        *)
LEMMA LoadedPreferences ==
    ASSUME NEW p \in [Keys -> Values]
    PROVE  /\ Preferences(p) \in PreferencesDocs
           /\ Loaded(Preferences(p)) = p
BY DEF Loaded, PreferencesDocs, Preferences

(* The kinds of content are told apart by their tag.                        *)
LEMMA WholeIsNotTorn == Torn \notin PreferencesDocs \cup SnapshotDocs
BY DEF Torn, PreferencesDocs, SnapshotDocs, Preferences, Snapshot

(* The invariant holds of the files a broker may find.                      *)
LEMMA InitIInv == Init => IInv
<1> SUFFICES ASSUME Init PROVE IInv OBVIOUS
<1>1. [k \in {} |-> Defaults[k]] \in Updates
  <2>1. [k \in {} |-> Defaults[k]] \in [{} -> Values] OBVIOUS
  <2> QED BY <2>1 DEF Updates
<1>2. TypeOK BY <1>1 DEF Init, TypeOK, Contents
<1>3. NeverTorn BY DEF Init, NeverTorn, NoFile, Torn
<1>4. AnswerMatchesFile BY DEF Init, AnswerMatchesFile
<1>5. SaveInv BY DEF Init, SaveInv
<1> QED BY <1>2, <1>3, <1>4, <1>5 DEF IInv

(* An update starts from the file as it is, or from the defaults.           *)
LEMMA BeginUpdateIInv ==
    ASSUME IInv, NEW u \in Updates, BeginUpdate(u) PROVE IInv'
<1>1. file[PreferencesFile] \in Contents BY DEF IInv, TypeOK
<1>2. PICK p \in [Keys -> Values] :
          /\ data' = Preferences(Merged(p, u))
          /\ p = IF misread' THEN Defaults ELSE Loaded(file[PreferencesFile])
  BY <1>1, LoadedType DEF BeginUpdate
<1>3. data' \in PreferencesDocs BY <1>2, MergedType, LoadedPreferences
<1>4. TypeOK' BY <1>1, <1>3 DEF IInv, TypeOK, BeginUpdate, Contents
<1>5. NeverTorn' BY DEF IInv, NeverTorn, BeginUpdate
<1>6. AnswerMatchesFile' BY DEF AnswerMatchesFile, BeginUpdate
<1>7. SaveInv' BY <1>2, <1>3 DEF SaveInv, BeginUpdate
<1> QED BY <1>4, <1>5, <1>6, <1>7 DEF IInv

(* RejectUpdate keeps the invariant.                                        *)
LEMMA RejectUpdateIInv ==
    ASSUME IInv, NEW u \in Updates, RejectUpdate(u) PROVE IInv'
<1>1. TypeOK' BY DEF IInv, TypeOK, RejectUpdate
<1>2. NeverTorn' BY DEF IInv, NeverTorn, RejectUpdate
<1>3. AnswerMatchesFile' BY DEF AnswerMatchesFile, RejectUpdate
<1>4. SaveInv' BY DEF SaveInv, RejectUpdate
<1> QED BY <1>1, <1>2, <1>3, <1>4 DEF IInv

(* BeginCache keeps the invariant.                                          *)
LEMMA BeginCacheIInv ==
    ASSUME IInv, NEW n \in Snapshots, BeginCache(n) PROVE IInv'
<1>1. data' \in SnapshotDocs BY DEF BeginCache, SnapshotDocs
<1>2. TypeOK' BY <1>1 DEF IInv, TypeOK, BeginCache, Contents
<1>3. NeverTorn' BY DEF IInv, NeverTorn, BeginCache
<1>4. AnswerMatchesFile' BY DEF IInv, AnswerMatchesFile, BeginCache
<1>5. SaveInv' BY <1>1 DEF SaveInv, BeginCache
<1> QED BY <1>2, <1>3, <1>4, <1>5 DEF IInv

(* CreateTmp keeps the invariant.                                           *)
LEMMA CreateTmpIInv == ASSUME IInv, CreateTmp PROVE IInv'
<1>1. TypeOK' BY DEF IInv, TypeOK, CreateTmp, Contents
<1>2. NeverTorn' BY DEF IInv, NeverTorn, CreateTmp
<1>3. AnswerMatchesFile' BY DEF IInv, AnswerMatchesFile, CreateTmp
<1>4. SaveInv' BY DEF IInv, SaveInv, CreateTmp
<1> QED BY <1>1, <1>2, <1>3, <1>4 DEF IInv

(* WriteTmp keeps the invariant.                                            *)
LEMMA WriteTmpIInv == ASSUME IInv, WriteTmp PROVE IInv'
<1>1. TypeOK' BY DEF IInv, TypeOK, WriteTmp
<1>2. NeverTorn' BY DEF IInv, NeverTorn, WriteTmp
<1>3. AnswerMatchesFile' BY DEF IInv, AnswerMatchesFile, WriteTmp
<1>4. SaveInv' BY DEF IInv, SaveInv, WriteTmp, TypeOK
<1> QED BY <1>1, <1>2, <1>3, <1>4 DEF IInv

(* The step that matters: what is moved is the whole document.              *)
LEMMA MoveIInv == ASSUME IInv, Move PROVE IInv'
<1>0. saving \in Files /\ file \in [Files -> Contents] /\ tmp \in [Files -> Contents]
      /\ update \in Updates
  BY DEF IInv, TypeOK
<1>1. tmp[saving] = data /\ data \in PreferencesDocs \cup SnapshotDocs
  BY DEF IInv, SaveInv, Move
<1>2. TypeOK' BY <1>0 DEF IInv, TypeOK, Move, Answer, Contents
<1>3. NeverTorn'
  BY <1>0, <1>1, WholeIsNotTorn DEF IInv, NeverTorn, Move
<1>4. AnswerMatchesFile'
  <2>1. CASE saving = PreferencesFile
    <3>1. PICK p \in [Keys -> Values] : data = Preferences(Merged(p, update))
      BY <2>1 DEF IInv, SaveInv, Move
    <3>2. Merged(p, update) \in [Keys -> Values]
          /\ \A k \in DOMAIN update : Merged(p, update)[k] = update[k]
      BY <1>0, <3>1, MergedType
    <3>3. Loaded(data) = Merged(p, update) BY <3>1, <3>2, LoadedPreferences
    <3>4. file'[PreferencesFile] = data BY <1>0, <1>1, <2>1 DEF Move
    <3>5. Loaded(file'[PreferencesFile]) = Merged(p, update) BY <3>3, <3>4
    <3>6. reply' = "accepted" /\ update' = update BY <2>1 DEF Move, Answer
    <3> QED BY <3>2, <3>5, <3>6 DEF AnswerMatchesFile
  <2>2. CASE saving # PreferencesFile
    <3>1. file'[PreferencesFile] = file[PreferencesFile] BY <1>0, <2>2 DEF Move
    <3>2. UNCHANGED <<reply, update, before>> BY <2>2 DEF Move, Answer
    <3> QED BY <3>1, <3>2 DEF IInv, AnswerMatchesFile
  <2> QED BY <2>1, <2>2
<1>5. SaveInv' BY DEF SaveInv, Move
<1> QED BY <1>2, <1>3, <1>4, <1>5 DEF IInv

(* A save that fails has not touched the final name.                        *)
LEMMA SaveFailsIInv == ASSUME IInv, SaveFails PROVE IInv'
<1>1. TypeOK' BY DEF IInv, TypeOK, SaveFails, Answer
<1>2. NeverTorn' BY DEF IInv, NeverTorn, SaveFails
<1>3. AnswerMatchesFile'
  <2>1. CASE saving = PreferencesFile
    BY <2>1 DEF IInv, SaveInv, AnswerMatchesFile, SaveFails, Answer
  <2>2. CASE saving # PreferencesFile
    BY <2>2 DEF IInv, AnswerMatchesFile, SaveFails, Answer
  <2> QED BY <2>1, <2>2
<1>4. SaveInv' BY DEF SaveInv, SaveFails
<1> QED BY <1>1, <1>2, <1>3, <1>4 DEF IInv

(* Crash keeps the invariant.                                               *)
LEMMA CrashIInv == ASSUME IInv, Crash PROVE IInv'
<1>1. TypeOK' BY DEF IInv, TypeOK, Crash
<1>2. NeverTorn' BY DEF IInv, NeverTorn, Crash
<1>3. AnswerMatchesFile' BY DEF IInv, AnswerMatchesFile, Crash
<1>4. SaveInv' BY DEF SaveInv, Crash
<1> QED BY <1>1, <1>2, <1>3, <1>4 DEF IInv

(* So does a step that changes nothing.                                     *)
LEMMA StutterIInv == ASSUME IInv, UNCHANGED vars PROVE IInv'
BY DEF IInv, vars, TypeOK, NeverTorn, AnswerMatchesFile, SaveInv

(* IInv is inductive.                                                       *)
THEOREM Inductive == Spec => []IInv
<1>1. IInv /\ [Next]_vars => IInv'
  BY BeginUpdateIInv, RejectUpdateIInv, BeginCacheIInv, CreateTmpIInv, WriteTmpIInv,
     MoveIInv, SaveFailsIInv, CrashIInv, StutterIInv DEF Next
<1> QED BY InitIInv, <1>1, PTL DEF Spec

(* Every variable keeps its type.                                           *)
THEOREM TypeCorrect == Spec => []TypeOK
<1>1. IInv => TypeOK BY DEF IInv
<1> QED BY Inductive, <1>1, PTL

(* Neither file is ever torn, wherever a save stops.                        *)
THEOREM NeverTornHolds == Spec => []NeverTorn
<1>1. IInv => NeverTorn BY DEF IInv
<1> QED BY Inductive, <1>1, PTL

(* The answer to an update tells what became of the file.                   *)
THEOREM AnswerMatchesFileHolds == Spec => []AnswerMatchesFile
<1>1. IInv => AnswerMatchesFile BY DEF IInv
<1> QED BY Inductive, <1>1, PTL

(* An update changes only what it names, unless it could not read the rest. *)
THEOREM OthersSurviveHolds == Spec => OthersSurvive
<1> DEFINE P == file[PreferencesFile]
           Changes == \A k \in Keys :
                          Loaded(P)'[k] # Loaded(P)[k] =>
                              \/ k \in DOMAIN update
                              \/ misread /\ Loaded(P)'[k] = Defaults[k]
<1>1. IInv /\ [Next]_vars => [Changes]_vars
  <2> SUFFICES ASSUME IInv, Next PROVE Changes BY DEF OthersSurvive
  <2>1. CASE Move
    <3>0. saving \in Files /\ file \in [Files -> Contents] /\ update \in Updates
      BY DEF IInv, TypeOK
    <3>1. CASE saving = PreferencesFile
      <4>1. PICK p \in [Keys -> Values] :
                /\ data = Preferences(Merged(p, update))
                /\ p = IF misread THEN Defaults ELSE Loaded(P)
        BY <2>1, <3>1 DEF IInv, SaveInv, Move
      <4>2. P' = data BY <2>1, <3>0, <3>1 DEF Move, IInv, SaveInv
      <4>3. Merged(p, update) \in [Keys -> Values]
            /\ \A k \in Keys \ DOMAIN update : Merged(p, update)[k] = p[k]
        BY <3>0, <4>1, MergedType
      <4>4. Loaded(P)' = Merged(p, update) BY <4>1, <4>2, <4>3, LoadedPreferences
      <4> QED BY <4>1, <4>3, <4>4
    <3>2. CASE saving # PreferencesFile
      <4>1. P' = P BY <2>1, <3>0, <3>2 DEF Move
      <4> QED BY <4>1
    <3> QED BY <3>1, <3>2
  <2>2. CASE ~Move
    <3>1. P' = P
      BY <2>2 DEF Next, BeginUpdate, RejectUpdate, BeginCache, CreateTmp, WriteTmp,
                  SaveFails, Crash
    <3> QED BY <3>1
  <2> QED BY <2>1, <2>2
<1> QED BY Inductive, <1>1, PTL DEF Spec, OthersSurvive
=============================================================================
