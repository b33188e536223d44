---------------------------- MODULE StartupProofs ----------------------------
(***************************************************************************)
(* The configuration, and the start of the server that is given it.        *)
(*                                                                         *)
(* Reload against the getters, for any number of threads and any files:    *)
(* ConfigWhole is not inductive, for while the lock is held the            *)
(* configuration is a mixture.  CopyInv says which: the fields copied so   *)
(* far are those of the new object, which has been validated, and the      *)
(* owner of the lock is the call that copies.                              *)
(*                                                                         *)
(* The start, for any options and any clients: NoClientForgotten needs to  *)
(* know which descriptor belongs to which thread from the loop over the    *)
(* threads on (AssignInv, SocketsInv), ReadyForConnections that nobody but *)
(* the main loop accepts, and not before Run (AssignInv, AcceptInv), and   *)
(* that a client is accepted once (ClientsOnce).                           *)
(***************************************************************************)
EXTENDS ServerConfig, ServerStartup, SequenceTheorems, TLAPS
-------------------------------------------------------------------------------
(* ServerConfig *)

Locked == {"copy", "json", "unlock"}

LockInv ==
  /\ \A r \in Reloaders : mutex_ = r <=> reload[r] \in Locked
  /\ \A r \in Reloaders : reload[r] = "copy" => copied < Len(FieldOrder)
  /\ \A r \in Reloaders : reload[r] \in {"json", "unlock"} => copied = Len(FieldOrder)

CopyInv ==
  \A r \in Reloaders :
    /\ reload[r] \in Locked =>
         \A n \in 1 .. copied :
           config[FieldOrder[n]] = LoadFromFile(new_config_obj[r])[FieldOrder[n]]
    /\ reload[r] = "unlock" => original_json_ = JsonOf(new_config_obj[r])
    /\ reload[r] \in Locked \cup {"lock"} => Validate(LoadFromFile(new_config_obj[r]))

SeenWhole ==
  /\ mutex_ = None => \E file \in Files \cup {None} : /\ config = LoadFromFile(file)
                                                     /\ original_json_ = JsonOf(file)
  /\ \A q \in Readers : \E file \in Files \cup {None} :
       got[q].values = Section(LoadFromFile(file), got[q].section)
-------------------------------------------------------------------------------
LEMMA FieldFacts ==
  /\ Len(FieldOrder) \in Nat /\ Len(FieldOrder) > 0
  /\ \A n \in 1 .. Len(FieldOrder) : FieldOrder[n] \in Fields
  /\ \A f \in Fields : Defaults[f] \in Int
<1>1. Len(FieldOrder) = 17
  BY DEF FieldOrder, server_, limits_, logging_, static_, metrics_
<1>2. \A n \in 1 .. 17 : Defaults[FieldOrder[n]] \in Int
  BY DEF FieldOrder, Defaults, KB, MB, server_, limits_, logging_, static_, metrics_
<1> QED
  BY <1>1, <1>2 DEF Fields

\* A load gives every field a number.
LEMMA LoadType == \A file \in Files \cup {None} : /\ LoadFromFile(file) \in [Fields -> Int]
                                                 /\ JsonOf(file) \in Files \cup {None}
<1>1. ASSUME NEW file \in Files \cup {None}
      PROVE  LoadFromFile(file) \in [Fields -> Int]
  <2>1. CASE file # None /\ Content[file].json
    <3>1. file \in Files
      BY <2>1
    <3>2. \A f \in Fields : f \in DOMAIN Content[file].keys => Content[file].keys[f] \in Int
      BY <3>1, ContentAssumption
    <3>3. LoadFromFile(file) = LoadFromJsonObject(Content[file].keys)
      BY <2>1 DEF LoadFromFile
    <3>4. \A n \in Int : AsInt(n) \in Int
      BY ContentAssumption DEF AsInt
    <3> QED
      BY <3>2, <3>3, <3>4, FieldFacts DEF LoadFromJsonObject
  <2>2. CASE ~(file # None /\ Content[file].json)
    BY <2>2, FieldFacts DEF LoadFromFile
  <2> QED
    BY <2>1, <2>2
<1> QED
  BY <1>1 DEF JsonOf

LEMMA ConfigInitially ==
  ConfigInit => ConfigTypeOK /\ ReloadExclusive /\ LockInv /\ CopyInv /\ SeenWhole
<1> SUFFICES ASSUME ConfigInit
             PROVE  ConfigTypeOK /\ ReloadExclusive /\ LockInv /\ CopyInv /\ SeenWhole
  OBVIOUS
<1>1. PICK file \in Files \cup {None} : config = LoadFromFile(file) /\ original_json_ = JsonOf(file)
  BY DEF ConfigInit
<1>2. /\ reloading_ = FALSE /\ mutex_ = None /\ copied = 0
      /\ reload = [r \in Reloaders |-> "idle"]
      /\ new_config_obj = [r \in Reloaders |-> None]
      /\ got = [q \in Readers |-> [section |-> server_, values |-> Section(config, server_)]]
  BY DEF ConfigInit
<1>3. \A r \in Reloaders : reload[r] = "idle" /\ r # None
  BY <1>2, ContentAssumption
<1>4. ConfigTypeOK
  <2>1. config \in [Fields -> Int] /\ original_json_ \in Files \cup {None}
    BY <1>1, LoadType
  <2>2. /\ reload \in [Reloaders -> ReloadPCs]
        /\ new_config_obj \in [Reloaders -> Files \cup {None}]
        /\ DOMAIN got = Readers
    BY <1>2 DEF ReloadPCs
  <2>3. copied \in 0 .. Len(FieldOrder)
    BY <1>2, FieldFacts
  <2> QED
    BY <1>2, <2>1, <2>2, <2>3 DEF ConfigTypeOK
<1>5. ReloadExclusive
  BY <1>2, <1>3 DEF ReloadExclusive
<1>6. LockInv /\ CopyInv
  BY <1>2, <1>3 DEF LockInv, CopyInv, Locked
<1>7. SeenWhole
  <2>1. \A q \in Readers : got[q].section = server_ /\ got[q].values = Section(config, server_)
    BY <1>2
  <2> QED
    BY <1>1, <2>1 DEF SeenWhole
<1> QED
  BY <1>4, <1>5, <1>6, <1>7

LEMMA ConfigTypeStep == ConfigTypeOK /\ LockInv /\ [ConfigNext]_configVars => ConfigTypeOK'
<1> SUFFICES ASSUME ConfigTypeOK, LockInv, [ConfigNext]_configVars
             PROVE  ConfigTypeOK'
  OBVIOUS
<1> USE DEF ConfigTypeOK
<1>p. \A r \in Reloaders, x \in ReloadPCs : [reload EXCEPT ![r] = x] \in [Reloaders -> ReloadPCs]
  OBVIOUS
<1>1. ASSUME NEW r \in Reloaders, ReloadBegin(r)
      PROVE  ConfigTypeOK'
  BY <1>1, <1>p DEF ReloadBegin, Step, ReloadPCs
<1>2. ASSUME NEW r \in Reloaders, NEW file \in Files, ReloadLoad(r, file)
      PROVE  ConfigTypeOK'
  BY <1>2, <1>p DEF ReloadLoad, Step, ReloadPCs
<1>3. ASSUME NEW r \in Reloaders, ReloadValidate(r)
      PROVE  ConfigTypeOK'
  BY <1>3, <1>p DEF ReloadValidate, Step, ReloadPCs
<1>4. ASSUME NEW r \in Reloaders, ReloadLock(r)
      PROVE  ConfigTypeOK'
  BY <1>4, <1>p, FieldFacts DEF ReloadLock, Step, ReloadPCs
<1>5. ASSUME NEW r \in Reloaders, ReloadCopy(r)
      PROVE  ConfigTypeOK'
  <2> DEFINE f == FieldOrder[copied + 1]
             new == LoadFromFile(new_config_obj[r])
  <2>1. /\ reload[r] = "copy"
        /\ reload' = [reload EXCEPT ![r] = IF copied + 1 = Len(FieldOrder) THEN "json" ELSE "copy"]
        /\ config' = [config EXCEPT ![f] = new[f]]
        /\ copied' = copied + 1
        /\ UNCHANGED <<original_json_, reloading_, mutex_, new_config_obj, got>>
    BY <1>5 DEF ReloadCopy, Step
  <2>2. copied + 1 \in 1 .. Len(FieldOrder)
    BY <2>1, FieldFacts DEF LockInv
  <2>3. f \in Fields /\ new[f] \in Int
    <3>1. new \in [Fields -> Int]
      BY LoadType
    <3> QED
      BY <2>2, <3>1, FieldFacts
  <2>4. config' \in [Fields -> Int]
    BY <2>1, <2>3
  <2>5. reload' \in [Reloaders -> ReloadPCs]
    BY <2>1, <1>p DEF ReloadPCs
  <2>6. copied' \in 0 .. Len(FieldOrder)
    BY <2>1, <2>2, FieldFacts
  <2> QED
    BY <2>1, <2>4, <2>5, <2>6
<1>6. ASSUME NEW r \in Reloaders, ReloadJson(r)
      PROVE  ConfigTypeOK'
  <2>1. JsonOf(new_config_obj[r]) \in Files \cup {None}
    BY LoadType
  <2> QED
    BY <1>6, <1>p, <2>1 DEF ReloadJson, Step, ReloadPCs
<1>7. ASSUME NEW r \in Reloaders, ReloadUnlock(r)
      PROVE  ConfigTypeOK'
  BY <1>7, <1>p DEF ReloadUnlock, Step, ReloadPCs
<1>8. ASSUME NEW r \in Reloaders, ReloadReset(r)
      PROVE  ConfigTypeOK'
  BY <1>8, <1>p DEF ReloadReset, Step, ReloadPCs
<1>9. ASSUME NEW q \in Readers, NEW s \in Sections, GetOptions(q, s)
      PROVE  ConfigTypeOK'
  BY <1>9 DEF GetOptions
<1>10. CASE UNCHANGED configVars
  BY <1>10 DEF configVars
<1> QED
  BY <1>1, <1>2, <1>3, <1>4, <1>5, <1>6, <1>7, <1>8, <1>9, <1>10 DEF ConfigNext, Reload

\* The flag and the one call that has set it.
LEMMA ExclusiveStep ==
  ConfigTypeOK /\ ReloadExclusive /\ [ConfigNext]_configVars => ReloadExclusive'
<1> SUFFICES ASSUME ConfigTypeOK, ReloadExclusive, [ConfigNext]_configVars
             PROVE  ReloadExclusive'
  OBVIOUS
<1>t. reload \in [Reloaders -> ReloadPCs] /\ reloading_ \in BOOLEAN
  BY DEF ConfigTypeOK
<1>m. ASSUME NEW r \in Reloaders, NEW from, NEW to, Step(r, from, to),
             from # "idle", to # "idle", reloading_' = reloading_
      PROVE  ReloadExclusive'
  BY <1>t, <1>m DEF Step, ReloadExclusive
<1>1. ASSUME NEW r \in Reloaders, ReloadBegin(r)
      PROVE  ReloadExclusive'
  <2>1. CASE reloading_
    <3>1. reload' = reload /\ reloading_' = reloading_
      BY <1>1, <1>t, <2>1 DEF ReloadBegin, Step
    <3> QED
      BY <3>1 DEF ReloadExclusive
  <2>2. CASE ~reloading_
    BY <1>1, <1>t, <2>2 DEF ReloadBegin, Step, ReloadExclusive
  <2> QED
    BY <2>1, <2>2
<1>2. ASSUME NEW r \in Reloaders, NEW file \in Files, ReloadLoad(r, file)
      PROVE  ReloadExclusive'
  BY <1>2, <1>m DEF ReloadLoad
<1>3. ASSUME NEW r \in Reloaders, ReloadValidate(r)
      PROVE  ReloadExclusive'
  BY <1>3, <1>m DEF ReloadValidate
<1>4. ASSUME NEW r \in Reloaders, ReloadLock(r)
      PROVE  ReloadExclusive'
  BY <1>4, <1>m DEF ReloadLock
<1>5. ASSUME NEW r \in Reloaders, ReloadCopy(r)
      PROVE  ReloadExclusive'
  BY <1>5, <1>m DEF ReloadCopy
<1>6. ASSUME NEW r \in Reloaders, ReloadJson(r)
      PROVE  ReloadExclusive'
  BY <1>6, <1>m DEF ReloadJson
<1>7. ASSUME NEW r \in Reloaders, ReloadUnlock(r)
      PROVE  ReloadExclusive'
  BY <1>7, <1>m DEF ReloadUnlock
<1>8. ASSUME NEW r \in Reloaders, ReloadReset(r)
      PROVE  ReloadExclusive'
  BY <1>8, <1>t DEF ReloadReset, Step, ReloadExclusive
<1>9. CASE UNCHANGED <<reload, reloading_>>
  BY <1>9 DEF ReloadExclusive
<1>10. ASSUME NEW q \in Readers, NEW s \in Sections, GetOptions(q, s)
       PROVE  ReloadExclusive'
  BY <1>9, <1>10 DEF GetOptions
<1> QED
  BY <1>1, <1>2, <1>3, <1>4, <1>5, <1>6, <1>7, <1>8, <1>9, <1>10 DEF ConfigNext, Reload, configVars

\* The owner of the lock, and how far it has come.
LEMMA LockStep ==
  ConfigTypeOK /\ LockInv /\ ReloadExclusive /\ [ConfigNext]_configVars => LockInv'
<1> SUFFICES ASSUME ConfigTypeOK, LockInv, ReloadExclusive, [ConfigNext]_configVars
             PROVE  LockInv'
  OBVIOUS
<1>t. /\ reload \in [Reloaders -> ReloadPCs]
      /\ mutex_ \in Reloaders \cup {None}
      /\ copied \in 0 .. Len(FieldOrder)
      /\ None \notin Reloaders
      /\ Len(FieldOrder) \in Nat /\ Len(FieldOrder) > 0
  BY ContentAssumption, FieldFacts DEF ConfigTypeOK
<1>e. \A r1, r2 \in Reloaders : reload[r1] # "idle" /\ reload[r2] # "idle" => r1 = r2
  BY DEF ReloadExclusive
<1>m. ASSUME NEW r \in Reloaders, NEW from, NEW to, Step(r, from, to),
             from \notin Locked, to \notin Locked, UNCHANGED <<mutex_, copied>>
      PROVE  LockInv'
  BY <1>t, <1>m DEF Step, LockInv, Locked
<1>1. ASSUME NEW r \in Reloaders, ReloadBegin(r)
      PROVE  LockInv'
  BY <1>1, <1>m DEF ReloadBegin, Locked
<1>2. ASSUME NEW r \in Reloaders, NEW file \in Files, ReloadLoad(r, file)
      PROVE  LockInv'
  BY <1>2, <1>m DEF ReloadLoad, Locked
<1>3. ASSUME NEW r \in Reloaders, ReloadValidate(r)
      PROVE  LockInv'
  BY <1>3, <1>m DEF ReloadValidate, Locked
<1>4. ASSUME NEW r \in Reloaders, ReloadLock(r)
      PROVE  LockInv'
  BY <1>4, <1>t DEF ReloadLock, Step, LockInv, Locked
<1>5. ASSUME NEW r \in Reloaders, ReloadCopy(r)
      PROVE  LockInv'
  <2>1. /\ reload[r] = "copy"
        /\ reload' = [reload EXCEPT ![r] = IF copied + 1 = Len(FieldOrder) THEN "json" ELSE "copy"]
        /\ copied' = copied + 1
        /\ mutex_' = mutex_
    BY <1>5 DEF ReloadCopy, Step
  <2>2. copied < Len(FieldOrder)
    BY <2>1 DEF LockInv
  <2>3. \A v \in Reloaders : v # r => reload'[v] = reload[v] /\ reload[v] = "idle"
    BY <2>1, <1>t, <1>e
  <2> QED
    BY <2>1, <2>2, <2>3, <1>t DEF LockInv, Locked
<1>6. ASSUME NEW r \in Reloaders, ReloadJson(r)
      PROVE  LockInv'
  BY <1>6, <1>t DEF ReloadJson, Step, LockInv, Locked
<1>7. ASSUME NEW r \in Reloaders, ReloadUnlock(r)
      PROVE  LockInv'
  BY <1>7, <1>t DEF ReloadUnlock, Step, LockInv, Locked
<1>8. ASSUME NEW r \in Reloaders, ReloadReset(r)
      PROVE  LockInv'
  BY <1>8, <1>m DEF ReloadReset, Locked
<1>9. CASE UNCHANGED <<reload, mutex_, copied>>
  BY <1>9 DEF LockInv
<1>10. ASSUME NEW q \in Readers, NEW s \in Sections, GetOptions(q, s)
       PROVE  LockInv'
  BY <1>9, <1>10 DEF GetOptions
<1> QED
  BY <1>1, <1>2, <1>3, <1>4, <1>5, <1>6, <1>7, <1>8, <1>9, <1>10 DEF ConfigNext, Reload, configVars

\* What the call that holds the lock has copied is its own object's.
LEMMA CopyStep ==
  ConfigTypeOK /\ LockInv /\ ReloadExclusive /\ CopyInv /\ [ConfigNext]_configVars => CopyInv'
<1> SUFFICES ASSUME ConfigTypeOK, LockInv, ReloadExclusive, CopyInv, [ConfigNext]_configVars
             PROVE  CopyInv'
  OBVIOUS
<1>t. /\ reload \in [Reloaders -> ReloadPCs]
      /\ new_config_obj \in [Reloaders -> Files \cup {None}]
      /\ copied \in 0 .. Len(FieldOrder)
      /\ Len(FieldOrder) \in Nat
  BY FieldFacts DEF ConfigTypeOK
<1>e. \A r1, r2 \in Reloaders : reload[r1] # "idle" /\ reload[r2] # "idle" => r1 = r2
  BY DEF ReloadExclusive
<1>m. ASSUME NEW r \in Reloaders, NEW from, NEW to, Step(r, from, to),
             to \notin Locked \cup {"lock"},
             UNCHANGED <<config, copied, original_json_>>,
             \A v \in Reloaders : v # r => new_config_obj'[v] = new_config_obj[v]
      PROVE  CopyInv'
  <2>1. \A v \in Reloaders : v # r => reload'[v] = reload[v]
    BY <1>t, <1>m DEF Step
  <2>2. reload'[r] \notin Locked \cup {"lock"}
    BY <1>t, <1>m DEF Step
  <2> QED
    BY <1>m, <2>1, <2>2 DEF CopyInv, Locked
<1>1. ASSUME NEW r \in Reloaders, ReloadBegin(r)
      PROVE  CopyInv'
  BY <1>1, <1>m DEF ReloadBegin, Locked
<1>2. ASSUME NEW r \in Reloaders, NEW file \in Files, ReloadLoad(r, file)
      PROVE  CopyInv'
  BY <1>2, <1>t, <1>m DEF ReloadLoad, Locked
<1>3. ASSUME NEW r \in Reloaders, ReloadValidate(r)
      PROVE  CopyInv'
  BY <1>3, <1>t DEF ReloadValidate, Step, CopyInv, Locked
<1>4. ASSUME NEW r \in Reloaders, ReloadLock(r)
      PROVE  CopyInv'
  <2>1. /\ reload[r] = "lock"
        /\ reload' = [reload EXCEPT ![r] = "copy"]
        /\ copied' = 0
        /\ UNCHANGED <<config, original_json_, new_config_obj>>
    BY <1>4 DEF ReloadLock, Step
  <2>2. \A v \in Reloaders : reload'[v] \in Locked \cup {"lock"} => v = r
    BY <2>1, <1>t, <1>e DEF Locked
  <2>3. Validate(LoadFromFile(new_config_obj[r]))
    BY <2>1 DEF CopyInv
  <2> QED
    BY <2>1, <2>2, <2>3, <1>t DEF CopyInv, Locked
<1>5. ASSUME NEW r \in Reloaders, ReloadCopy(r)
      PROVE  CopyInv'
  <2> DEFINE f == FieldOrder[copied + 1]
             new == LoadFromFile(new_config_obj[r])
  <2>1. /\ reload[r] = "copy"
        /\ reload' = [reload EXCEPT ![r] = IF copied + 1 = Len(FieldOrder) THEN "json" ELSE "copy"]
        /\ config' = [config EXCEPT ![f] = new[f]]
        /\ copied' = copied + 1
        /\ new_config_obj' = new_config_obj
    BY <1>5 DEF ReloadCopy, Step
  <2>2. /\ copied + 1 \in 1 .. Len(FieldOrder)
        /\ \A n \in 1 .. copied : n \in 1 .. Len(FieldOrder) /\ config[FieldOrder[n]] = new[FieldOrder[n]]
    BY <2>1, <1>t DEF LockInv, CopyInv, Locked
  <2>3. \A n \in 1 .. copied' : n \in 1 .. copied \/ n = copied + 1
    BY <2>1, <1>t
  <2>4. \A g \in Fields : config'[g] = IF g = f THEN new[g] ELSE config[g]
    BY <2>1 DEF ConfigTypeOK
  <2>5. \A n \in 1 .. copied' : config'[FieldOrder[n]] = new[FieldOrder[n]]
    BY <2>2, <2>3, <2>4, FieldFacts
  <2>6. \A v \in Reloaders : reload'[v] \in Locked \cup {"lock"} => v = r
    BY <2>1, <1>t, <1>e DEF Locked
  <2>7. reload'[r] # "unlock"
    BY <2>1, <1>t
  <2>8. Validate(new)
    BY <2>1 DEF CopyInv, Locked
  <2> QED
    BY <2>1, <2>5, <2>6, <2>7, <2>8 DEF CopyInv, Locked
<1>6. ASSUME NEW r \in Reloaders, ReloadJson(r)
      PROVE  CopyInv'
  <2>1. /\ reload[r] = "json"
        /\ reload' = [reload EXCEPT ![r] = "unlock"]
        /\ original_json_' = JsonOf(new_config_obj[r])
        /\ UNCHANGED <<config, copied, new_config_obj>>
    BY <1>6 DEF ReloadJson, Step
  <2>2. \A v \in Reloaders : reload'[v] \in Locked \cup {"lock"} => v = r
    BY <2>1, <1>t, <1>e DEF Locked
  <2> QED
    BY <2>1, <2>2 DEF CopyInv, Locked
<1>7. ASSUME NEW r \in Reloaders, ReloadUnlock(r)
      PROVE  CopyInv'
  BY <1>7, <1>m DEF ReloadUnlock, Locked
<1>8. ASSUME NEW r \in Reloaders, ReloadReset(r)
      PROVE  CopyInv'
  BY <1>8, <1>t, <1>m DEF ReloadReset, Locked
<1>9. CASE UNCHANGED <<reload, config, copied, original_json_, new_config_obj>>
  BY <1>9 DEF CopyInv
<1>10. ASSUME NEW q \in Readers, NEW s \in Sections, GetOptions(q, s)
       PROVE  CopyInv'
  BY <1>9, <1>10 DEF GetOptions
<1> QED
  BY <1>1, <1>2, <1>3, <1>4, <1>5, <1>6, <1>7, <1>8, <1>9, <1>10 DEF ConfigNext, Reload, configVars

\* A call that has copied every field has made the configuration its object's.
LEMMA AllCopied ==
  ASSUME ConfigTypeOK, LockInv, CopyInv,
         NEW r \in Reloaders, reload[r] \in {"json", "unlock"}
  PROVE  config = LoadFromFile(new_config_obj[r])
<1> DEFINE new == LoadFromFile(new_config_obj[r])
<1>1. \A n \in 1 .. Len(FieldOrder) : config[FieldOrder[n]] = new[FieldOrder[n]]
  BY DEF LockInv, CopyInv, Locked
<1>2. \A f \in Fields : config[f] = new[f]
  BY <1>1 DEF Fields
<1>3. config \in [Fields -> Int] /\ new \in [Fields -> Int]
  BY LoadType DEF ConfigTypeOK
<1> QED
  BY <1>2, <1>3

\* What a reader can see is a whole file's.
LEMMA SeenStep ==
  /\ ConfigTypeOK /\ LockInv /\ CopyInv /\ SeenWhole
  /\ [ConfigNext]_configVars
  => SeenWhole'
<1> SUFFICES ASSUME ConfigTypeOK, LockInv, CopyInv, SeenWhole, [ConfigNext]_configVars
             PROVE  SeenWhole'
  OBVIOUS
<1>t. /\ None \notin Reloaders
      /\ new_config_obj \in [Reloaders -> Files \cup {None}]
  BY ContentAssumption DEF ConfigTypeOK
<1>l. ASSUME mutex_' # None, got' = got
      PROVE  SeenWhole'
  BY <1>l DEF SeenWhole
<1>m. ASSUME UNCHANGED <<config, original_json_, mutex_, got>>
      PROVE  SeenWhole'
  BY <1>m DEF SeenWhole
<1>1. ASSUME NEW r \in Reloaders, ReloadBegin(r) \/ ReloadValidate(r) \/ ReloadReset(r)
      PROVE  SeenWhole'
  BY <1>1, <1>m DEF ReloadBegin, ReloadValidate, ReloadReset
<1>2. ASSUME NEW r \in Reloaders, NEW file \in Files, ReloadLoad(r, file)
      PROVE  SeenWhole'
  BY <1>2, <1>m DEF ReloadLoad
<1>3. ASSUME NEW r \in Reloaders, ReloadLock(r)
      PROVE  SeenWhole'
  <2>1. mutex_' # None /\ got' = got
    BY <1>3, <1>t DEF ReloadLock
  <2> QED
    BY <2>1, <1>l
<1>4. ASSUME NEW r \in Reloaders, ReloadCopy(r) \/ ReloadJson(r)
      PROVE  SeenWhole'
  <2>1. reload[r] \in Locked /\ mutex_' = mutex_ /\ got' = got
    BY <1>4 DEF ReloadCopy, ReloadJson, Step, Locked
  <2>2. mutex_' # None
    BY <2>1, <1>t DEF LockInv
  <2> QED
    BY <2>1, <2>2, <1>l
<1>5. ASSUME NEW r \in Reloaders, ReloadUnlock(r)
      PROVE  SeenWhole'
  <2>1. reload[r] = "unlock" /\ UNCHANGED <<config, original_json_, got>>
    BY <1>5 DEF ReloadUnlock, Step
  <2>2. /\ config' = LoadFromFile(new_config_obj[r])
        /\ original_json_' = JsonOf(new_config_obj[r])
    BY <2>1, AllCopied DEF CopyInv
  <2>3. new_config_obj[r] \in Files \cup {None}
    BY <1>t
  <2> QED
    BY <2>1, <2>2, <2>3 DEF SeenWhole
<1>6. ASSUME NEW q \in Readers, NEW s \in Sections, GetOptions(q, s)
      PROVE  SeenWhole'
  <2>1. /\ mutex_ = None
        /\ got' = [got EXCEPT ![q] = [section |-> s, values |-> Section(config, s)]]
        /\ UNCHANGED <<config, original_json_, mutex_>>
    BY <1>6 DEF GetOptions
  <2>2. PICK file \in Files \cup {None} : config = LoadFromFile(file)
    BY <2>1 DEF SeenWhole
  <2>3. got'[q].section = s /\ got'[q].values = Section(LoadFromFile(file), s)
    BY <2>1, <2>2 DEF ConfigTypeOK
  <2>4. \A p \in Readers : p # q => got'[p] = got[p]
    BY <2>1 DEF ConfigTypeOK
  <2> QED
    BY <2>1, <2>3, <2>4 DEF SeenWhole
<1>7. CASE UNCHANGED configVars
  BY <1>7, <1>m DEF configVars
<1> QED
  BY <1>1, <1>2, <1>3, <1>4, <1>5, <1>6, <1>7 DEF ConfigNext, Reload

LEMMA ConfigInvariant ==
  ConfigSpec => [](ConfigTypeOK /\ ReloadExclusive /\ LockInv /\ CopyInv /\ SeenWhole)
BY ConfigInitially, ConfigTypeStep, ExclusiveStep, LockStep, CopyStep, SeenStep, PTL DEF ConfigSpec

\* Type correctness: every field always has a number (LoadFromJsonObject over
\* the defaults).
THEOREM ConfigTypes == ConfigSpec => []ConfigTypeOK
BY ConfigInvariant, PTL

\* At most one Reload is under way, and the flag says whether one is, however
\* calls begin, fail and return.
THEOREM ConfigReloadExclusive == ConfigSpec => []ReloadExclusive
BY ConfigInvariant, PTL

\* No getter returns, and no unlocked state holds, a mixture of two files, and
\* a reload installs only what Validate has accepted.
THEOREM ConfigAlwaysWhole == ConfigSpec => []ConfigWhole
<1>1. ConfigTypeOK /\ LockInv /\ CopyInv /\ SeenWhole => ConfigWhole
  <2> SUFFICES ASSUME ConfigTypeOK, LockInv, CopyInv, SeenWhole
               PROVE  ConfigWhole
    OBVIOUS
  <2>1. ASSUME NEW r \in Reloaders, reload[r] = "unlock"
        PROVE  Validate(config)
    BY <2>1, AllCopied DEF CopyInv, Locked
  <2> QED
    BY <2>1 DEF ConfigWhole, SeenWhole
<1> QED
  BY <1>1, ConfigInvariant, PTL
-------------------------------------------------------------------------------
(* ServerStartup *)

Reuse == opts.use_so_reuseport
Threads == IF opts.threads > 0 THEN opts.threads ELSE 0
Early == {"construct", "pool", "threw"}

\* Descriptors are numbered as they are created; a start that goes on has all
\* of them open, one that fails none.
SocketsInv ==
  /\ \A n \in 1 .. Len(socket_fds_) : socket_fds_[n] = n
  /\ main # "threw" => fds = 1 .. Len(socket_fds_)
  /\ main = "threw" /\ opts.ip_valid => fds = {}
  /\ main = "construct" /\ ~Reuse => socket_fds_ = <<>>
  /\ main \in {"pool", "assign"} => Reuse
  /\ main \notin {"construct", "threw"} =>
       Len(socket_fds_) > 0 /\ Len(socket_fds_) = IF Reuse THEN NumSockets ELSE 1

\* The second start of the pool comes with Start.
PoolInv ==
  /\ main \in Early => loops_ = 0
  /\ main = "assign" => loops_ = Threads
  /\ main \notin {"run", "loop"} => loops_ <= MaxThreads

\* A thread of the pool has its socket from the loop over the threads on, in
\* its queue or in its epoll; the main loop has one from Run on.
AssignInv ==
  /\ \A l \in Loops : functors[l] # NoOne =>
       l > 0 /\ Reuse /\ main \notin Early /\ functors[l] = SocketOf(l)
  /\ \A l \in Loops : l > 0 /\ registered[l] # NoOne =>
       Reuse /\ main \notin Early /\ registered[l] = SocketOf(l)
  /\ registered[0] # NoOne => ~Reuse /\ main = "loop" /\ registered[0] = 1
  /\ Reuse /\ main \notin Early \cup {"assign"} =>
       \A l \in 1 .. Threads : functors[l] # NoOne \/ registered[l] # NoOne
  /\ ~Reuse /\ main = "loop" => registered[0] = 1

\* Who accepts has a socket.
AcceptInv ==
  /\ \A l \in edge \cup accepting : registered[l] # NoOne
  /\ \A l \in Loops : cur[l] # NoOne => l \in accepting

\* The second part of NoClientForgotten.
VisitOwed ==
  \A s \in fds : backlog[s] # <<>> /\ (\E l \in Loops : registered[l] = s) =>
    \/ \E l \in Loops : registered[l] = s /\ l \in edge \cup accepting
    \/ s \in stalled

\* What main has done by now.
CallbackSet ==
  /\ main \in {"start", "run", "loop"} => on_message_ = "set"
  /\ main \in {"message", "messageset", "start", "run", "loop"} => plugins_ = "loaded"

\* A client waits in one place of one queue, or has been accepted.
ClientsOnce ==
  /\ \A s, t \in Sockets : \A m \in 1 .. Len(backlog[s]), n \in 1 .. Len(backlog[t]) :
       backlog[s][m] = backlog[t][n] => s = t /\ m = n
  /\ \A s \in Sockets : \A n \in 1 .. Len(backlog[s]) : callback[backlog[s][n]] = "none"
  /\ \A c \in connections_ : callback[c] # "none"
  /\ \A l \in Loops : cur[l] # NoOne => cur[l] \in connections_

\* In the traditional mode nothing is accepted before Run.
AcceptedLate == ~Reuse /\ main # "loop" => \A c \in Clients : callback[c] = "none"

StartupInv == /\ StartupTypeOK /\ SocketsInv /\ PoolInv /\ AssignInv /\ AcceptInv
              /\ VisitOwed /\ CallbackSet /\ ClientsOnce /\ AcceptedLate /\ ReadyForConnections
-------------------------------------------------------------------------------
LEMMA StartupNumbers ==
  ASSUME StartupTypeOK
  PROVE  /\ opts.use_so_reuseport \in BOOLEAN /\ opts.ip_valid \in BOOLEAN
         /\ opts.threads \in Int /\ NumSockets \in Int
         /\ opts.use_so_reuseport => NumSockets <= MaxSockets
         /\ Threads \in 0 .. MaxThreads
         /\ MaxThreads \in Nat /\ MaxSockets \in Nat /\ 1 \in Sockets
         /\ Loops \subseteq Nat /\ 0 \in Loops /\ Sockets \subseteq Nat
         /\ \A s \in Sockets : s # NoOne
         /\ \A c \in Clients : c # NoOne
<1>1. opts \in Options
  BY DEF StartupTypeOK
<1> QED
  BY <1>1, StartupAssumption DEF NumSockets, Threads, Loops, Sockets

\* The socket of a thread is one of those created.
LEMMA SocketInRange ==
  ASSUME StartupTypeOK, Len(socket_fds_) > 0, NEW l \in Nat, l > 0
  PROVE  /\ ((l - 1) % Len(socket_fds_)) + 1 \in 1 .. Len(socket_fds_)
         /\ SocketOf(l) \in Sockets
<1>1. socket_fds_ \in Seq(Sockets) /\ Len(socket_fds_) \in Nat
  BY DEF StartupTypeOK
<1>2. ((l - 1) % Len(socket_fds_)) \in 0 .. Len(socket_fds_) - 1
  BY <1>1
<1>3. ((l - 1) % Len(socket_fds_)) + 1 \in 1 .. Len(socket_fds_)
  BY <1>1, <1>2
<1>4. \A n \in 1 .. Len(socket_fds_) : socket_fds_[n] \in Sockets
  BY <1>1, ElementOfSeq
<1> QED
  BY <1>3, <1>4 DEF SocketOf

LEMMA StartupTypesStep ==
  ASSUME StartupInv, [StartupNext]_startupVars
  PROVE  StartupTypeOK'
<1>t. StartupTypeOK
  BY DEF StartupInv
<1>n. /\ opts.threads \in Int /\ Threads \in 0 .. MaxThreads /\ MaxThreads \in Nat
      /\ NumSockets \in Int /\ MaxSockets \in Nat
      /\ opts.use_so_reuseport => NumSockets <= MaxSockets
      /\ 1 \in Sockets /\ \A s \in Sockets : s # NoOne
      /\ \A c \in Clients : c # NoOne
  BY <1>t, StartupNumbers
<1>1. CASE SetupTraditionalMode
  <2>1. <<1>> \in Seq(Sockets)
    BY <1>n
  <2> QED
    BY <1>1, <1>t, <1>n, <2>1 DEF SetupTraditionalMode, Goto, StartupTypeOK, MainPCs, acceptVars,
       loopVars, pluginVars, connVars
<1>2. CASE CreateListenSocket
  <2>1. /\ socket_fds_ \in Seq(Sockets) /\ Len(socket_fds_) \in Nat
        /\ Len(socket_fds_) + 1 \in Sockets
    BY <1>2, <1>t, <1>n DEF CreateListenSocket, StartupTypeOK, Sockets
  <2> QED
    BY <1>2, <2>1, <1>t DEF CreateListenSocket, Goto, StartupTypeOK, MainPCs,
       acceptVars, loopVars, pluginVars, connVars
<1>3. CASE CreateFails
  BY <1>3, <1>t DEF CreateFails, CloseAll, Goto, StartupTypeOK, MainPCs, loopVars, pluginVars, connVars
<1>4. CASE AddressThrows
  BY <1>4, <1>t, <1>n DEF AddressThrows, Goto, StartupTypeOK, MainPCs, acceptVars, loopVars,
     pluginVars, connVars
<1>5. CASE StartPoolInConstructor \/ Start
  <2>1. loops_ \in 0 .. MaxThreads
    BY <1>5, <1>t, <1>n DEF StartPoolInConstructor, Start, Goto, StartupInv, PoolInv, StartupTypeOK, Loops
  <2>2. loops_' \in Loops
    BY <1>5, <1>n, <2>1 DEF StartPoolInConstructor, Start, PoolStart, Threads, Loops
  <2> QED
    BY <1>5, <2>2, <1>t DEF StartPoolInConstructor, Start, Goto, StartupTypeOK, MainPCs,
       acceptVars, loopVars, pluginVars, connVars
<1>6. ASSUME NEW l \in Loops, AssignSocket(l)
      PROVE  StartupTypeOK'
  <2>1. Len(socket_fds_) > 0 /\ l \in Nat /\ l > 0
    BY <1>6, <1>t DEF AssignSocket, StartupInv, SocketsInv, StartupTypeOK, Loops
  <2>2. SocketOf(l) \in Sockets
    BY <1>t, <2>1, SocketInRange
  <2> QED
    BY <1>6, <2>2, <1>t DEF AssignSocket, StartupTypeOK, mainVars, acceptVars, pluginVars, connVars
<1>7. CASE AssignDone \/ RegisterPlugin \/ LoadPlugins \/ SetOnMessage
  BY <1>7, <1>t DEF AssignDone, RegisterPlugin, LoadPlugins, SetOnMessage, Goto, StartupTypeOK,
     MainPCs, acceptVars, loopVars, pluginVars, connVars
<1>8. CASE Run
  <2>1. socket_fds_[1] \in Sockets /\ 0 \in Loops
    <3>1. Len(socket_fds_) > 0 /\ socket_fds_ \in Seq(Sockets) /\ Len(socket_fds_) \in Nat
      BY <1>8, <1>t DEF Run, Goto, StartupInv, SocketsInv, StartupTypeOK
    <3> QED
      BY <3>1, <1>t, ElementOfSeq, StartupNumbers
  <2> QED
    BY <1>8, <2>1, <1>t DEF Run, UpdateEvent, Goto, StartupTypeOK, MainPCs, pluginVars, connVars
<1>9. ASSUME NEW l \in Loops, RunRegistration(l)
      PROVE  StartupTypeOK'
  BY <1>9, <1>t DEF RunRegistration, UpdateEvent, StartupTypeOK, mainVars, pluginVars, connVars
<1>10. ASSUME NEW l \in Loops, Accept(l)
       PROVE  StartupTypeOK'
  <2>1. registered[l] \in Sockets
    BY <1>10, <1>t DEF Accept, StartupInv, AcceptInv, StartupTypeOK
  <2>2. backlog[registered[l]] \in Seq(Clients) /\ backlog[registered[l]] # <<>>
    BY <1>10, <2>1, <1>t DEF Accept, StartupTypeOK
  <2>3. Head(backlog[registered[l]]) \in Clients /\ Tail(backlog[registered[l]]) \in Seq(Clients)
    BY <2>2, HeadTailProperties
  <2> QED
    BY <1>10, <2>1, <2>3, <1>t DEF Accept, StartupTypeOK, mainVars, loopVars, pluginVars
<1>11. ASSUME NEW l \in Loops, HandOver(l)
       PROVE  StartupTypeOK'
  <2>1. cur[l] \in Clients
    BY <1>11, <1>t DEF HandOver, StartupTypeOK
  <2>2. told' \in [Clients -> Seq({"open", "close"})]
    BY <1>11, <2>1, <1>t DEF HandOver, Tell, StartupTypeOK
  <2> QED
    BY <1>11, <2>2, <1>t DEF HandOver, StartupTypeOK, mainVars, loopVars, pluginVars
<1>12. ASSUME NEW l \in Loops, AcceptBegin(l) \/ AcceptEnds(l) \/ AcceptFails(l)
       PROVE  StartupTypeOK'
  <2>1. l \in edge \cup accepting
    BY <1>12 DEF AcceptBegin, AcceptEnds, AcceptFails
  <2>2. registered[l] \in Sockets
    BY <2>1, <1>t DEF StartupInv, AcceptInv, StartupTypeOK
  <2> QED
    BY <1>12, <2>2, <1>t DEF AcceptBegin, AcceptEnds, AcceptFails, StartupTypeOK, mainVars,
       loopVars, pluginVars, connVars
<1>13. ASSUME NEW c \in Clients, RemoveConnection(c)
       PROVE  StartupTypeOK'
  <2>1. told' \in [Clients -> Seq({"open", "close"})]
    BY <1>13, <1>t DEF RemoveConnection, Tell, StartupTypeOK
  <2> QED
    BY <1>13, <2>1, <1>t DEF RemoveConnection, StartupTypeOK, mainVars, loopVars, pluginVars, acceptVars
<1>14. ASSUME NEW c \in Clients, NEW s \in Sockets, Connect(c, s)
       PROVE  StartupTypeOK'
  BY <1>14, <1>t DEF Connect, StartupTypeOK, mainVars, loopVars, pluginVars, connVars
<1>15. CASE UNCHANGED startupVars
  BY <1>15, <1>t DEF startupVars, StartupTypeOK, mainVars, loopVars, pluginVars, connVars, acceptVars
<1> QED
  BY <1>1, <1>2, <1>3, <1>4, <1>5, <1>6, <1>7, <1>8, <1>9, <1>10, <1>11, <1>12, <1>13, <1>14, <1>15
     DEF StartupNext, MainNext, Constructor, LoopNext

\* The descriptors and the threads of the pool, from one step of main to the next.
LEMMA SocketsStep ==
  ASSUME StartupInv, [StartupNext]_startupVars
  PROVE  SocketsInv' /\ PoolInv'
<1>t. StartupTypeOK /\ SocketsInv /\ PoolInv
  BY DEF StartupInv
<1>n. /\ opts.threads \in Int /\ Threads \in 0 .. MaxThreads /\ MaxThreads \in Nat
      /\ NumSockets \in Int /\ loops_ \in Nat
      /\ socket_fds_ \in Seq(Sockets) /\ Len(socket_fds_) \in Nat
  BY <1>t, StartupNumbers DEF StartupTypeOK, Loops
<1>1. CASE UNCHANGED mainVars
  BY <1>1, <1>t DEF mainVars, SocketsInv, PoolInv, Reuse, Threads, Early, NumSockets
<1>2. CASE SetupTraditionalMode
  <2>1. fds = {}
    BY <1>2, <1>t DEF SetupTraditionalMode, Goto, SocketsInv, Reuse
  <2>2. loops_ = 0 /\ loops_' = 0 /\ opts' = opts
    BY <1>2, <1>t DEF SetupTraditionalMode, Goto, PoolInv, Early
  <2>3. CASE main' = "plugin" /\ fds' = {1} /\ socket_fds_' = <<1>>
    BY <1>2, <2>2, <2>3, <1>n DEF SetupTraditionalMode, SocketsInv, PoolInv, Reuse, Early
  <2>4. CASE main' = "threw" /\ fds' = fds /\ socket_fds_' = socket_fds_
    BY <1>2, <2>1, <2>2, <2>4, <1>t, <1>n DEF SocketsInv, PoolInv, Early
  <2> QED
    BY <1>2, <2>3, <2>4 DEF SetupTraditionalMode, Goto
<1>3. CASE CreateListenSocket
  <2> DEFINE n == Len(socket_fds_)
  <2>1. /\ main = "construct" /\ Reuse /\ opts' = opts /\ loops_' = loops_
        /\ socket_fds_' = Append(socket_fds_, n + 1) /\ fds' = fds \cup {n + 1}
        /\ IF n + 1 = NumSockets THEN main' = "pool" ELSE main' = main
    BY <1>3 DEF CreateListenSocket, Goto, Reuse
  <2>2. Len(socket_fds_') = n + 1 /\ \A m \in 1 .. n + 1 : socket_fds_'[m] = m
    BY <2>1, <1>t, <1>n DEF SocketsInv
  <2>3. fds' = 1 .. n + 1
    BY <2>1, <1>t, <1>n DEF SocketsInv
  <2>4. loops_ = 0
    BY <2>1, <1>t DEF PoolInv, Early
  <2>5. Reuse' = Reuse /\ NumSockets' = NumSockets
    BY <2>1 DEF Reuse, NumSockets
  <2> QED
    BY <2>1, <2>2, <2>3, <2>4, <2>5, <1>n DEF SocketsInv, PoolInv, Early
<1>4. CASE CreateFails
  <2>1. fds = 1 .. Len(socket_fds_) /\ loops_ = 0
    BY <1>4, <1>t DEF CreateFails, Goto, SocketsInv, PoolInv, Early
  <2>2. \A s \in fds : s \in Range(socket_fds_)
    BY <2>1, <1>n, <1>t DEF SocketsInv, Range
  <2>3. fds' = {} /\ socket_fds_' = <<>>
    BY <1>4, <2>2 DEF CreateFails, CloseAll
  <2> QED
    BY <1>4, <2>1, <2>3, <1>n DEF CreateFails, Goto, SocketsInv, PoolInv, Early
<1>5. CASE AddressThrows
  BY <1>5, <1>t, <1>n DEF AddressThrows, Goto, SocketsInv, PoolInv, Early, Reuse, NumSockets
<1>6. CASE StartPoolInConstructor
  BY <1>6, <1>t, <1>n DEF StartPoolInConstructor, PoolStart, Goto, SocketsInv, PoolInv, Early, Reuse,
     NumSockets, Threads
<1>7. CASE Start
  BY <1>7, <1>t, <1>n DEF Start, Goto, SocketsInv, PoolInv, Early, Reuse, NumSockets, Threads
<1>8. CASE AssignDone \/ RegisterPlugin \/ LoadPlugins \/ SetOnMessage
  BY <1>8, <1>t, <1>n DEF AssignDone, RegisterPlugin, LoadPlugins, SetOnMessage, Goto, SocketsInv,
     PoolInv, Early, Reuse, NumSockets, Threads
<1>9. CASE Run
  BY <1>9, <1>t, <1>n DEF Run, Goto, SocketsInv, PoolInv, Early, Reuse, NumSockets, Threads
<1>10. ASSUME NEW l \in Loops, AssignSocket(l) \/ LoopNext(l)
       PROVE  UNCHANGED mainVars
  BY <1>10 DEF AssignSocket, LoopNext, RunRegistration, AcceptBegin, Accept, HandOver, AcceptEnds,
     AcceptFails
<1>11. ASSUME NEW c \in Clients, RemoveConnection(c) \/ \E s \in Sockets : Connect(c, s)
       PROVE  UNCHANGED mainVars
  BY <1>11 DEF RemoveConnection, Connect
<1> QED
  BY <1>1, <1>2, <1>3, <1>4, <1>5, <1>6, <1>7, <1>8, <1>9, <1>10, <1>11
     DEF StartupNext, MainNext, Constructor, startupVars

\* Which descriptor is registered where.
LEMMA AssignStep ==
  ASSUME StartupInv, [StartupNext]_startupVars
  PROVE  AssignInv'
<1>t. StartupTypeOK /\ SocketsInv /\ PoolInv /\ AssignInv
  BY DEF StartupInv
<1>n. /\ Threads \in 0 .. MaxThreads /\ Loops \subseteq Nat /\ 0 \in Loops /\ MaxThreads \in Nat
      /\ \A s \in Sockets : s # NoOne
      /\ functors \in [Loops -> Sockets \cup {NoOne}] /\ registered \in [Loops -> Sockets \cup {NoOne}]
  BY <1>t, StartupNumbers DEF StartupTypeOK
<1>1. CASE UNCHANGED <<opts, main, socket_fds_, loopVars>>
  BY <1>1, <1>t DEF loopVars, AssignInv, Reuse, Threads, Early, SocketOf
<1>2. CASE main \in {"construct"} /\ opts' = opts /\ UNCHANGED loopVars /\ main' \in {"threw", "construct", "pool", "plugin"}
           /\ (main' = "plugin" => ~Reuse)
  BY <1>2, <1>t DEF loopVars, AssignInv, Reuse, Early
<1>3. CASE SetupTraditionalMode \/ CreateListenSocket \/ CreateFails \/ AddressThrows
  BY <1>2, <1>3 DEF SetupTraditionalMode, CreateListenSocket, CreateFails, AddressThrows, Goto, Reuse
<1>4. CASE /\ UNCHANGED <<opts, socket_fds_, loopVars>>
           /\ main \notin Early \cup {"assign"} /\ main' \notin Early \cup {"assign"}
           /\ main # "loop" /\ main' # "loop"
  BY <1>4, <1>t DEF loopVars, AssignInv, Reuse, Threads, Early, SocketOf
<1>5. CASE RegisterPlugin \/ LoadPlugins \/ SetOnMessage \/ Start
  BY <1>4, <1>5 DEF RegisterPlugin, LoadPlugins, SetOnMessage, Start, Goto, Early
<1>6. CASE StartPoolInConstructor
  BY <1>6, <1>t DEF StartPoolInConstructor, Goto, loopVars, AssignInv, Reuse, Threads, Early, SocketOf, SocketsInv
<1>7. CASE AssignDone
  BY <1>7, <1>t DEF AssignDone, Goto, loopVars, AssignInv, Reuse, Threads, Early, SocketOf, PoolInv, SocketsInv
<1>8. ASSUME NEW l \in Loops, AssignSocket(l)
      PROVE  AssignInv'
  <2>1. l > 0 /\ main = "assign" /\ Reuse /\ UNCHANGED <<opts, main, socket_fds_, registered>>
    BY <1>8, <1>t, <1>n DEF AssignSocket, mainVars, SocketsInv
  <2>2. functors' = [functors EXCEPT ![l] = SocketOf(l)]
    BY <1>8 DEF AssignSocket
  <2>3. \A k \in Loops : SocketOf(k)' = SocketOf(k)
    BY <2>1 DEF SocketOf
  <2> QED
    BY <2>1, <2>2, <2>3, <1>t, <1>n DEF AssignInv, Reuse, Early
<1>9. CASE Run
  <2>1. main = "run" /\ main' = "loop" /\ UNCHANGED <<opts, socket_fds_, functors>>
    BY <1>9 DEF Run, Goto
  <2>2. CASE Reuse
    <3>1. UNCHANGED registered
      BY <1>9, <2>2 DEF Run, Reuse
    <3> QED
      BY <2>1, <2>2, <3>1, <1>t DEF AssignInv, Reuse, Early, Threads, SocketOf
  <2>3. CASE ~Reuse
    <3>1. socket_fds_[1] = 1
      BY <2>1, <2>3, <1>t DEF SocketsInv
    <3>2. registered' = [registered EXCEPT ![0] = 1]
      BY <1>9, <2>3, <3>1 DEF Run, UpdateEvent, Reuse
    <3> QED
      BY <2>1, <2>3, <3>2, <1>t, <1>n DEF AssignInv, Reuse, Early, Threads, SocketOf
  <2> QED
    BY <2>2, <2>3
<1>10. ASSUME NEW l \in Loops, RunRegistration(l)
       PROVE  AssignInv'
  <2>1. /\ l > 0 /\ Reuse /\ main \notin Early /\ functors[l] = SocketOf(l)
        /\ functors[l] # NoOne
    BY <1>10, <1>t DEF RunRegistration, AssignInv
  <2>2. UNCHANGED <<opts, main, socket_fds_>>
    BY <1>10 DEF RunRegistration, mainVars
  <2>3. /\ functors' = [functors EXCEPT ![l] = NoOne]
        /\ registered' = [registered EXCEPT ![l] = functors[l]]
    BY <1>10 DEF RunRegistration, UpdateEvent
  <2>4. Reuse' = Reuse /\ Threads' = Threads /\ \A k \in Loops : SocketOf(k)' = SocketOf(k)
    BY <2>2 DEF SocketOf, Reuse, Threads
  <2>5. 1 .. Threads \subseteq Loops
    BY <1>n DEF Loops
  <2>6. \A k \in Loops : functors'[k] # NoOne => k # l /\ functors'[k] = functors[k]
    BY <2>3, <1>n
  <2>7. \A k \in Loops : registered'[k] = IF k = l THEN functors[l] ELSE registered[k]
    BY <2>3, <1>n
  <2>8. \A k \in 1 .. Threads :
          functors[k] # NoOne \/ registered[k] # NoOne => functors'[k] # NoOne \/ registered'[k] # NoOne
    BY <2>1, <2>3, <2>5, <1>n
  <2>9. registered'[0] = registered[0]
    BY <2>1, <2>3, <1>n
  <2> QED
    BY <2>1, <2>2, <2>4, <2>6, <2>7, <2>8, <2>9, <1>t DEF AssignInv
<1>11. ASSUME NEW l \in Loops, AcceptBegin(l) \/ Accept(l) \/ HandOver(l) \/ AcceptEnds(l) \/ AcceptFails(l)
       PROVE  UNCHANGED <<opts, main, socket_fds_, loopVars>>
  BY <1>11 DEF AcceptBegin, Accept, HandOver, AcceptEnds, AcceptFails, mainVars
<1>12. ASSUME NEW c \in Clients, RemoveConnection(c) \/ \E s \in Sockets : Connect(c, s)
       PROVE  UNCHANGED <<opts, main, socket_fds_, loopVars>>
  BY <1>12 DEF RemoveConnection, Connect, mainVars
<1> QED
  BY <1>1, <1>3, <1>5, <1>6, <1>7, <1>8, <1>9, <1>10, <1>11, <1>12
     DEF StartupNext, MainNext, Constructor, LoopNext, startupVars, mainVars

\* A loop that accepts, or is about to, has a socket; and every queue that is
\* not empty is owed a visit.
LEMMA VisitStep ==
  ASSUME StartupInv, [StartupNext]_startupVars
  PROVE  AcceptInv' /\ VisitOwed'
<1>t. StartupTypeOK /\ AssignInv /\ AcceptInv /\ VisitOwed
  BY DEF StartupInv
<1>n. \A s \in Sockets : s # NoOne
  BY <1>t, StartupNumbers
<1>v. /\ fds \subseteq Sockets /\ edge \subseteq Loops /\ accepting \subseteq Loops
      /\ registered \in [Loops -> Sockets \cup {NoOne}] /\ functors \in [Loops -> Sockets \cup {NoOne}]
      /\ cur \in [Loops -> Clients \cup {NoOne}] /\ backlog \in [Sockets -> Seq(Clients)]
  BY <1>t DEF StartupTypeOK
<1>1. CASE UNCHANGED <<acceptVars, registered>> /\ fds' \subseteq fds
  BY <1>1, <1>t DEF acceptVars, AcceptInv, VisitOwed
<1>2. CASE main = "construct" /\ UNCHANGED <<edge, accepting, cur, registered, stalled>>
  <2>1. \A l \in Loops : registered[l] = NoOne
    <3>1. \A l \in Loops : l = 0 \/ l > 0
      BY <1>t, StartupNumbers
    <3> QED
      BY <1>2, <3>1, <1>t DEF AssignInv, Early
  <2>2. \A s \in fds' : s # NoOne
    BY <1>n, StartupTypesStep DEF StartupTypeOK
  <2> QED
    BY <1>2, <2>1, <2>2, <1>t DEF AcceptInv, VisitOwed
<1>3. CASE SetupTraditionalMode \/ CreateListenSocket \/ CreateFails \/ AddressThrows
  <2>1. main = "construct" /\ UNCHANGED <<edge, accepting, cur, registered, stalled>>
    BY <1>3 DEF SetupTraditionalMode, CreateListenSocket, CreateFails, AddressThrows, Goto, acceptVars, loopVars
  <2> QED
    BY <1>2, <2>1
<1>4. CASE \/ StartPoolInConstructor \/ AssignDone \/ RegisterPlugin \/ LoadPlugins \/ SetOnMessage
           \/ Start \/ \E l \in Loops : AssignSocket(l)
  <2>1. UNCHANGED <<acceptVars, registered>> /\ fds' = fds
    BY <1>4 DEF StartPoolInConstructor, AssignDone, RegisterPlugin, LoadPlugins, SetOnMessage, Start,
       AssignSocket, loopVars, mainVars
  <2> QED
    BY <1>1, <2>1
<1>5. ASSUME NEW l \in Loops, NEW s \in Sockets, UpdateEvent(l, s), l \notin accepting,
             UNCHANGED <<fds, backlog, accepting, cur, stalled>>,
             registered[l] = NoOne \/ registered[l] = s
      PROVE  AcceptInv' /\ VisitOwed'
  <2>1. \A k \in Loops : registered'[k] = IF k = l THEN s ELSE registered[k]
    BY <1>5, <1>v DEF UpdateEvent
  <2>2. edge' = IF backlog[s] # <<>> THEN edge \cup {l} ELSE edge
    BY <1>5 DEF UpdateEvent
  <2>3. AcceptInv'
    BY <1>5, <2>1, <2>2, <1>t, <1>n, <1>v DEF AcceptInv
  <2>4. ASSUME NEW r \in fds, backlog[r] # <<>>, NEW k \in Loops, registered'[k] = r
        PROVE  r \in stalled \/ \E j \in Loops : registered'[j] = r /\ j \in edge' \cup accepting
    <3>1. CASE r = s
      BY <3>1, <2>1, <2>2, <2>4
    <3>2. CASE r # s
      <4>1. registered[k] = r
        BY <3>2, <2>1, <2>4
      <4>2. r \in stalled \/ \E j \in Loops : registered[j] = r /\ j \in edge \cup accepting
        BY <4>1, <2>4, <1>t DEF VisitOwed
      <4> QED
        BY <4>2, <3>2, <1>5, <1>n, <1>v, <2>1, <2>2
    <3> QED
      BY <3>1, <3>2
  <2> QED
    BY <2>3, <2>4, <1>5 DEF VisitOwed
<1>6. CASE Run
  <2>1. CASE opts.use_so_reuseport
    BY <1>1, <1>6, <2>1 DEF Run, acceptVars
  <2>2. CASE ~opts.use_so_reuseport
    <3>1. /\ main = "run" /\ UpdateEvent(0, socket_fds_[1])
          /\ UNCHANGED <<fds, backlog, accepting, cur, stalled>>
      BY <1>6, <2>2 DEF Run, Goto
    <3>2. socket_fds_[1] \in Sockets /\ 0 \in Loops
      BY <3>1, <1>t, ElementOfSeq, StartupNumbers DEF StartupInv, SocketsInv, StartupTypeOK
    <3>3. registered[0] = NoOne
      BY <3>1, <1>t DEF AssignInv
    <3>4. 0 \notin accepting
      BY <3>3, <1>t DEF AcceptInv
    <3> QED
      BY <3>1, <3>2, <3>3, <3>4, <1>5
  <2> QED
    BY <2>1, <2>2
<1>7. ASSUME NEW l \in Loops, RunRegistration(l)
      PROVE  AcceptInv' /\ VisitOwed'
  <2>1. functors[l] \in Sockets /\ functors[l] = SocketOf(l)
    BY <1>7, <1>t, <1>v DEF RunRegistration, AssignInv
  <2>2. registered[l] = NoOne \/ registered[l] = functors[l]
    BY <1>7, <1>t, <2>1 DEF RunRegistration, AssignInv
  <2> QED
    BY <1>5, <1>7, <2>1, <2>2 DEF RunRegistration, mainVars
<1>8. ASSUME NEW l \in Loops, AcceptBegin(l)
      PROVE  AcceptInv' /\ VisitOwed'
  <2>1. /\ l \in edge /\ edge' = edge \ {l} /\ accepting' = accepting \cup {l}
        /\ stalled' = stalled \ {registered[l]} /\ UNCHANGED <<fds, registered, backlog, cur>>
    BY <1>8 DEF AcceptBegin, mainVars, loopVars
  <2>2. AcceptInv'
    BY <2>1, <1>t DEF AcceptInv
  <2>3. VisitOwed'
    BY <2>1, <1>t DEF VisitOwed
  <2> QED
    BY <2>2, <2>3
<1>9. ASSUME NEW l \in Loops, Accept(l)
      PROVE  AcceptInv' /\ VisitOwed'
  <2>1. /\ l \in accepting /\ UNCHANGED <<fds, registered, edge, accepting, stalled>>
        /\ backlog' = [backlog EXCEPT ![registered[l]] = Tail(@)]
        /\ \A k \in Loops : k # l => cur'[k] = cur[k]
    BY <1>9, <1>v DEF Accept, mainVars, loopVars
  <2>2. AcceptInv'
    BY <2>1, <1>t DEF AcceptInv
  <2>3. VisitOwed'
    BY <2>1, <1>t, <1>v DEF VisitOwed
  <2> QED
    BY <2>2, <2>3
<1>10. ASSUME NEW l \in Loops, HandOver(l)
       PROVE  AcceptInv' /\ VisitOwed'
  BY <1>10, <1>t, <1>v DEF HandOver, mainVars, loopVars, AcceptInv, VisitOwed
<1>11. ASSUME NEW l \in Loops, AcceptEnds(l)
       PROVE  AcceptInv' /\ VisitOwed'
  <2>1. /\ cur[l] = NoOne /\ backlog[registered[l]] = <<>> /\ accepting' = accepting \ {l}
        /\ UNCHANGED <<fds, registered, edge, backlog, cur, stalled>>
    BY <1>11 DEF AcceptEnds, mainVars, loopVars
  <2> QED
    BY <2>1, <1>t DEF AcceptInv, VisitOwed
<1>12. ASSUME NEW l \in Loops, AcceptFails(l)
       PROVE  AcceptInv' /\ VisitOwed'
  <2>1. /\ cur[l] = NoOne /\ accepting' = accepting \ {l} /\ stalled' = stalled \cup {registered[l]}
        /\ UNCHANGED <<fds, registered, edge, backlog, cur>>
    BY <1>12 DEF AcceptFails, mainVars, loopVars
  <2> QED
    BY <2>1, <1>t DEF AcceptInv, VisitOwed
<1>13. ASSUME NEW c \in Clients, RemoveConnection(c)
       PROVE  AcceptInv' /\ VisitOwed'
  BY <1>1, <1>13 DEF RemoveConnection, mainVars, loopVars
<1>14. ASSUME NEW c \in Clients, NEW s \in Sockets, Connect(c, s)
       PROVE  AcceptInv' /\ VisitOwed'
  <2>1. /\ backlog' = [backlog EXCEPT ![s] = Append(@, c)] /\ stalled' = stalled \ {s}
        /\ edge' = edge \cup {l \in Loops : registered[l] = s}
        /\ UNCHANGED <<fds, registered, accepting, cur>>
    BY <1>14 DEF Connect, mainVars, loopVars
  <2>2. AcceptInv'
    BY <2>1, <1>t, <1>n DEF AcceptInv
  <2>3. VisitOwed'
    BY <2>1, <1>t, <1>v DEF VisitOwed
  <2> QED
    BY <2>2, <2>3
<1>15. CASE UNCHANGED startupVars
  BY <1>1, <1>15 DEF startupVars, mainVars, loopVars
<1> QED
  BY <1>3, <1>4, <1>6, <1>7, <1>8, <1>9, <1>10, <1>11, <1>12, <1>13, <1>14, <1>15
     DEF StartupNext, MainNext, Constructor, LoopNext

\* Nothing is accepted twice.
LEMMA ClientsStep ==
  ASSUME StartupInv, [StartupNext]_startupVars
  PROVE  ClientsOnce'
<1>t. StartupTypeOK /\ AcceptInv /\ ClientsOnce
  BY DEF StartupInv
<1>n. \A c \in Clients : c # NoOne
  BY <1>t, StartupNumbers
<1>v. /\ cur \in [Loops -> Clients \cup {NoOne}] /\ backlog \in [Sockets -> Seq(Clients)]
      /\ callback \in [Clients -> {"none", "unset", "set", "torn"}]
      /\ on_message_ \in {"unset", "setting", "set"}
      /\ registered \in [Loops -> Sockets \cup {NoOne}]
  BY <1>t DEF StartupTypeOK
<1>1. CASE UNCHANGED <<backlog, cur, callback, connections_>>
  BY <1>1, <1>t DEF ClientsOnce
<1>2. CASE MainNext
  <2>1. CASE CreateFails
    BY <2>1, <1>t DEF CreateFails, CloseAll, connVars, ClientsOnce
  <2> QED
    BY <1>1, <1>2, <2>1 DEF MainNext, Constructor, SetupTraditionalMode, CreateListenSocket, AddressThrows,
       StartPoolInConstructor, AssignSocket, AssignDone, RegisterPlugin, LoadPlugins, SetOnMessage,
       Start, Run, connVars, acceptVars
<1>3. ASSUME NEW l \in Loops, RunRegistration(l) \/ AcceptBegin(l) \/ AcceptEnds(l) \/ AcceptFails(l)
      PROVE  ClientsOnce'
  BY <1>1, <1>3 DEF RunRegistration, AcceptBegin, AcceptEnds, AcceptFails, connVars
<1>4. ASSUME NEW l \in Loops, HandOver(l)
      PROVE  ClientsOnce'
  <2>1. /\ UNCHANGED <<backlog, callback, connections_>>
        /\ \A k \in Loops : cur'[k] = cur[k] \/ cur'[k] = NoOne
    BY <1>4, <1>v DEF HandOver
  <2> QED
    BY <2>1, <1>t DEF ClientsOnce
<1>5. ASSUME NEW l \in Loops, Accept(l)
      PROVE  ClientsOnce'
  <2> DEFINE s == registered[l]
             c == Head(backlog[s])
  <2>1. s \in Sockets /\ backlog[s] \in Seq(Clients) /\ backlog[s] # <<>>
    BY <1>5, <1>t, <1>v DEF Accept, AcceptInv
  <2>2. /\ c \in Clients /\ c = backlog[s][1] /\ Len(backlog[s]) \in Nat \ {0}
        /\ Len(Tail(backlog[s])) = Len(backlog[s]) - 1
        /\ \A n \in 1 .. Len(Tail(backlog[s])) : Tail(backlog[s])[n] = backlog[s][n + 1]
    BY <2>1, HeadTailProperties
  <2>3. PICK f \in {"unset", "set", "torn"} : callback' = [callback EXCEPT ![c] = f]
    BY <1>5, <1>v DEF Accept
  <2>4. /\ backlog' = [backlog EXCEPT ![s] = Tail(@)] /\ cur' = [cur EXCEPT ![l] = c]
        /\ connections_' = connections_ \cup {c}
    BY <1>5 DEF Accept
  <2>5. /\ \A t \in Sockets : t # s => backlog'[t] = backlog[t]
        /\ Len(backlog'[s]) = Len(backlog[s]) - 1
        /\ \A n \in 1 .. Len(backlog[s]) - 1 : backlog'[s][n] = backlog[s][n + 1]
    BY <2>1, <2>2, <2>4, <1>v
  <2>6. \A t \in Sockets : Len(backlog[t]) \in Nat
    BY <1>v
  \* What waits after the step waited before it, and c not any more.
  <2> DEFINE at(t, n) == IF t = s THEN n + 1 ELSE n
  <2>7. \A t \in Sockets : \A n \in 1 .. Len(backlog'[t]) :
          /\ at(t, n) \in 1 .. Len(backlog[t]) /\ backlog'[t][n] = backlog[t][at(t, n)]
          /\ backlog'[t][n] # c
    <3> SUFFICES ASSUME NEW t \in Sockets, NEW n \in 1 .. Len(backlog'[t])
                 PROVE  /\ at(t, n) \in 1 .. Len(backlog[t]) /\ backlog'[t][n] = backlog[t][at(t, n)]
                        /\ backlog'[t][n] # c
      OBVIOUS
    <3>1. at(t, n) \in 1 .. Len(backlog[t]) /\ backlog'[t][n] = backlog[t][at(t, n)]
      <4>1. CASE t = s
        <5>1. n \in 1 .. Len(backlog[s]) - 1 /\ backlog'[s][n] = backlog[s][n + 1]
          BY <2>5, <4>1
        <5>2. n + 1 \in 1 .. Len(backlog[s])
          BY <2>2, <5>1
        <5> QED
          BY <4>1, <5>1, <5>2
      <4>2. CASE t # s
        BY <2>5, <4>2
      <4> QED
        BY <4>1, <4>2
    <3>2. 1 \in 1 .. Len(backlog[s]) /\ (t = s => at(t, n) # 1)
      BY <2>2, <2>6
    <3> HIDE DEF at
    <3> QED
      BY <3>1, <3>2, <2>1, <2>2, <1>t DEF ClientsOnce
  <2>8. \A t, u \in Sockets : \A m \in 1 .. Len(backlog'[t]), n \in 1 .. Len(backlog'[u]) :
          backlog'[t][m] = backlog'[u][n] => t = u /\ m = n
    <3> SUFFICES ASSUME NEW t \in Sockets, NEW u \in Sockets,
                        NEW m \in 1 .. Len(backlog'[t]), NEW n \in 1 .. Len(backlog'[u]),
                        backlog'[t][m] = backlog'[u][n]
                 PROVE  t = u /\ m = n
      OBVIOUS
    <3>1. m \in Int /\ n \in Int
      BY <2>2, <2>5, <2>6
    <3>2. t = u /\ at(t, m) = at(u, n)
      <4> HIDE DEF at
      <4> QED
        BY <2>7, <1>t DEF ClientsOnce
    <3> QED
      BY <3>1, <3>2
  <2>9. \A t \in Sockets : \A n \in 1 .. Len(backlog'[t]) : callback'[backlog'[t][n]] = "none"
    <3> SUFFICES ASSUME NEW t \in Sockets, NEW n \in 1 .. Len(backlog'[t])
                 PROVE  callback'[backlog'[t][n]] = "none"
      OBVIOUS
    <3> HIDE DEF at
    <3>1. callback[backlog'[t][n]] = "none" /\ backlog'[t][n] # c
      BY <2>7, <1>t DEF ClientsOnce
    <3>2. backlog'[t][n] \in Clients
      <4>1. PICK m \in 1 .. Len(backlog[t]) : backlog'[t][n] = backlog[t][m]
        BY <2>7
      <4>2. backlog[t] \in Seq(Clients)
        BY <1>v
      <4> QED
        BY <4>1, <4>2, ElementOfSeq
    <3> QED
      BY <3>1, <3>2, <2>3, <1>v
  <2>10. \A d \in connections_' : callback'[d] # "none"
    BY <2>2, <2>3, <2>4, <1>t, <1>v DEF ClientsOnce, StartupTypeOK
  <2>11. \A k \in Loops : cur'[k] # NoOne => cur'[k] \in connections_'
    BY <2>4, <1>t, <1>v DEF ClientsOnce
  <2> QED
    BY <2>8, <2>9, <2>10, <2>11 DEF ClientsOnce
<1>6. ASSUME NEW c \in Clients, RemoveConnection(c)
      PROVE  ClientsOnce'
  BY <1>6, <1>t DEF RemoveConnection, acceptVars, ClientsOnce
<1>7. ASSUME NEW c \in Clients, NEW s \in Sockets, Connect(c, s)
      PROVE  ClientsOnce'
  <2>1. /\ backlog' = [backlog EXCEPT ![s] = Append(@, c)] /\ UNCHANGED <<cur, callback, connections_>>
        /\ callback[c] = "none"
    BY <1>7 DEF Connect, connVars
  <2>2. \A t \in Sockets : \A n \in 1 .. Len(backlog[t]) : backlog[t][n] # c
    BY <1>7, <1>v DEF Connect, Range
  <2>3. /\ \A t \in Sockets : t # s => backlog'[t] = backlog[t]
        /\ Len(backlog[s]) \in Nat /\ Len(backlog'[s]) = Len(backlog[s]) + 1
        /\ \A n \in 1 .. Len(backlog[s]) : backlog'[s][n] = backlog[s][n]
        /\ backlog'[s][Len(backlog[s]) + 1] = c
    BY <2>1, <1>v
  <2>4. \A t \in Sockets : \A n \in 1 .. Len(backlog'[t]) :
          \/ t = s /\ n = Len(backlog[s]) + 1 /\ backlog'[t][n] = c
          \/ n \in 1 .. Len(backlog[t]) /\ backlog'[t][n] = backlog[t][n] /\ backlog'[t][n] # c
    BY <2>2, <2>3
  <2>5. \A t, u \in Sockets : \A m \in 1 .. Len(backlog'[t]), n \in 1 .. Len(backlog'[u]) :
          backlog'[t][m] = backlog'[u][n] => t = u /\ m = n
    BY <2>4, <1>t DEF ClientsOnce
  <2>6. \A t \in Sockets : \A n \in 1 .. Len(backlog'[t]) : callback'[backlog'[t][n]] = "none"
    BY <2>1, <2>4, <1>t DEF ClientsOnce
  <2> QED
    BY <2>1, <2>5, <2>6, <1>t DEF ClientsOnce
<1>8. CASE UNCHANGED startupVars
  BY <1>1, <1>8 DEF startupVars, connVars, acceptVars
<1> QED
  BY <1>2, <1>3, <1>4, <1>5, <1>6, <1>7, <1>8 DEF StartupNext, LoopNext

LEMMA CallbackStep ==
  ASSUME StartupInv, [StartupNext]_startupVars
  PROVE  CallbackSet'
<1>t. CallbackSet
  BY DEF StartupInv
<1>1. CASE UNCHANGED <<main, pluginVars>>
  BY <1>1, <1>t DEF pluginVars, CallbackSet
<1>2. CASE MainNext
  BY <1>1, <1>2, <1>t DEF MainNext, Constructor, SetupTraditionalMode, CreateListenSocket, CreateFails,
     AddressThrows, StartPoolInConstructor, AssignSocket, AssignDone, RegisterPlugin, LoadPlugins,
     SetOnMessage, Start, Run, Goto, pluginVars, mainVars, CallbackSet
<1>3. ASSUME NEW l \in Loops, LoopNext(l)
      PROVE  UNCHANGED <<main, pluginVars>>
  BY <1>3 DEF LoopNext, RunRegistration, AcceptBegin, Accept, HandOver, AcceptEnds, AcceptFails, mainVars
<1>4. ASSUME NEW c \in Clients, RemoveConnection(c) \/ \E s \in Sockets : Connect(c, s)
      PROVE  UNCHANGED <<main, pluginVars>>
  BY <1>4 DEF RemoveConnection, Connect, mainVars
<1> QED
  BY <1>1, <1>2, <1>3, <1>4 DEF StartupNext, startupVars, mainVars

LEMMA OpenThenClose == Append(<<"open">>, "close") = <<"open", "close">>
<1> DEFINE E == {"open", "close"}
           s == Append(<<"open">>, "close")
           t == <<"open", "close">>
<1>1. s \in Seq(E) /\ t \in Seq(E) /\ Len(s) = 2 /\ Len(t) = 2
  OBVIOUS
<1>2. s[1] = "open" /\ s[2] = "close" /\ t[1] = "open" /\ t[2] = "close"
  OBVIOUS
<1>3. \A i \in 1 .. Len(s) : i = 1 \/ i = 2
  BY <1>1
<1> HIDE DEF s, t, E
<1>4. \A i \in 1 .. Len(s) : s[i] = t[i]
  BY <1>2, <1>3
<1>5. s = t
  BY <1>1, <1>4, SeqEqual
<1> QED
  BY <1>5 DEF s, t

LEMMA ReadyStep ==
  ASSUME StartupInv, [StartupNext]_startupVars
  PROVE  ReadyForConnections'
<1> SUFFICES ASSUME ~opts'.use_so_reuseport
             PROVE  \A c \in Clients :
                      /\ callback'[c] \in {"none", "set"}
                      /\ told'[c] = IF callback'[c] = "none" \/ \E l \in Loops : cur'[l] = c THEN <<>>
                                    ELSE IF c \in connections_' THEN <<"open">> ELSE <<"open", "close">>
  BY DEF ReadyForConnections
<1>t. StartupTypeOK /\ AssignInv /\ AcceptInv /\ CallbackSet /\ ClientsOnce /\ ReadyForConnections
  BY DEF StartupInv
<1>l. AcceptedLate
  BY DEF StartupInv
<1>v. /\ cur \in [Loops -> Clients \cup {NoOne}] /\ 0 \in Loops
      /\ callback \in [Clients -> {"none", "unset", "set", "torn"}]
      /\ told \in [Clients -> Seq({"open", "close"})] /\ \A c \in Clients : c # NoOne
      /\ connections_ \subseteq Clients
  BY <1>t, StartupNumbers DEF StartupTypeOK
<1>o. opts' = opts
  BY DEF StartupNext, MainNext, Constructor, SetupTraditionalMode, CreateListenSocket, CreateFails,
     AddressThrows, StartPoolInConstructor, AssignSocket, AssignDone, RegisterPlugin, LoadPlugins,
     SetOnMessage, Start, Run, LoopNext, RunRegistration, AcceptBegin, Accept, HandOver, AcceptEnds,
     AcceptFails, RemoveConnection, Connect, startupVars, mainVars
<1>r. \A c \in Clients :
        /\ callback[c] \in {"none", "set"}
        /\ told[c] = IF callback[c] = "none" \/ \E l \in Loops : cur[l] = c THEN <<>>
                     ELSE IF c \in connections_ THEN <<"open">> ELSE <<"open", "close">>
  BY <1>t, <1>o DEF ReadyForConnections
\* Only the main loop accepts, and only when main has come to Run.
<1>m. \A l \in Loops : l \in accepting => l = 0 /\ main = "loop"
  <2>1. \A l \in Loops : l = 0 \/ l > 0
    BY <1>t, StartupNumbers
  <2> QED
    BY <2>1, <1>t, <1>o DEF AcceptInv, AssignInv, Reuse
<1>z. \A l \in Loops : cur[l] # NoOne => l = 0 /\ main = "loop"
  BY <1>m, <1>t DEF AcceptInv
<1>1. CASE UNCHANGED <<connVars, cur>>
  BY <1>1, <1>r DEF connVars
<1>2. ASSUME NEW l \in Loops, HandOver(l)
      PROVE  \A c \in Clients :
               /\ callback'[c] \in {"none", "set"}
               /\ told'[c] = IF callback'[c] = "none" \/ \E k \in Loops : cur'[k] = c THEN <<>>
                             ELSE IF c \in connections_' THEN <<"open">> ELSE <<"open", "close">>
  <2> DEFINE d == cur[0]
  <2>1. l = 0 /\ main = "loop" /\ d \in Clients /\ d \in connections_
    BY <1>2, <1>z, <1>v, <1>t DEF HandOver, ClientsOnce
  <2>2. /\ told' = [told EXCEPT ![d] = Append(@, "open")] /\ cur' = [cur EXCEPT ![0] = NoOne]
        /\ UNCHANGED <<connections_, callback>>
    BY <1>2, <2>1, <1>t DEF HandOver, Tell, CallbackSet
  <2>3. told[d] = <<>> /\ callback[d] # "none"
    BY <2>1, <1>r, <1>v, <1>t DEF ClientsOnce
  <2>4. \A k \in Loops : \A c \in Clients : cur'[k] # c
    BY <2>1, <2>2, <1>z, <1>v
  <2>5. told'[d] = <<"open">>
    BY <2>1, <2>2, <2>3, <1>v
  <2>6. \A c \in Clients : c # d => told'[c] = told[c] /\ \A k \in Loops : cur[k] # c
    BY <2>1, <2>2, <1>z, <1>v
  <2> QED
    BY <2>1, <2>2, <2>3, <2>4, <2>5, <2>6, <1>r
<1>3. ASSUME NEW l \in Loops, Accept(l)
      PROVE  \A c \in Clients :
               /\ callback'[c] \in {"none", "set"}
               /\ told'[c] = IF callback'[c] = "none" \/ \E k \in Loops : cur'[k] = c THEN <<>>
                             ELSE IF c \in connections_' THEN <<"open">> ELSE <<"open", "close">>
  <2> DEFINE s == registered[0]
             d == Head(backlog[s])
  <2>1. l = 0 /\ main = "loop" /\ on_message_ = "set" /\ cur[0] = NoOne
    BY <1>3, <1>m, <1>t DEF Accept, CallbackSet
  <2>2. s \in Sockets /\ backlog[s] \in Seq(Clients) /\ backlog[s] # <<>>
    BY <1>3, <2>1, <1>t DEF Accept, AcceptInv, StartupTypeOK
  <2>3. d \in Clients /\ d = backlog[s][1] /\ 1 \in 1 .. Len(backlog[s])
    BY <2>2, HeadTailProperties
  <2>4. callback[d] = "none"
    BY <2>2, <2>3, <1>t DEF ClientsOnce
  <2>5. /\ cur' = [cur EXCEPT ![0] = d] /\ connections_' = connections_ \cup {d}
        /\ callback' = [callback EXCEPT ![d] = "set"] /\ told' = told
    BY <1>3, <2>1 DEF Accept
  <2>6. cur'[0] = d /\ told[d] = <<>> /\ callback'[d] = "set"
    BY <2>3, <2>4, <2>5, <1>r, <1>v
  <2>7. \A c \in Clients : c # d => /\ callback'[c] = callback[c] /\ \A k \in Loops : cur'[k] # c
                                   /\ \A k \in Loops : cur[k] # c
    BY <2>1, <2>5, <1>z, <1>v
  <2> QED
    BY <2>5, <2>6, <2>7, <1>r, <1>v
<1>4. ASSUME NEW d \in Clients, RemoveConnection(d)
      PROVE  \A c \in Clients :
               /\ callback'[c] \in {"none", "set"}
               /\ told'[c] = IF callback'[c] = "none" \/ \E k \in Loops : cur'[k] = c THEN <<>>
                             ELSE IF c \in connections_' THEN <<"open">> ELSE <<"open", "close">>
  <2>1. d \in connections_ /\ callback[d] # "none" /\ \A k \in Loops : cur[k] # d
    BY <1>4, <1>t DEF RemoveConnection, ClientsOnce
  <2>2. plugins_ = "loaded"
    BY <2>1, <1>o, <1>t, <1>l DEF AcceptedLate, CallbackSet, Reuse
  <2>3. /\ told' = [told EXCEPT ![d] = Append(@, "close")] /\ connections_' = connections_ \ {d}
        /\ UNCHANGED <<callback, cur>>
    BY <1>4, <2>2 DEF RemoveConnection, Tell, acceptVars
  <2>4. told'[d] = <<"open", "close">>
    <3>1. told[d] = <<"open">>
      BY <2>1, <1>r
    <3>2. Append(<<"open">>, "close") = <<"open", "close">>
      BY OpenThenClose
    <3> QED
      BY <2>3, <3>1, <3>2, <1>v
  <2>5. \A c \in Clients : c # d => told'[c] = told[c]
    BY <2>3, <1>v
  <2>6. ASSUME NEW c \in Clients
        PROVE  /\ callback'[c] \in {"none", "set"}
               /\ told'[c] = IF callback'[c] = "none" \/ \E k \in Loops : cur'[k] = c THEN <<>>
                             ELSE IF c \in connections_' THEN <<"open">> ELSE <<"open", "close">>
    <3>1. callback' = callback /\ cur' = cur /\ callback[c] \in {"none", "set"}
      BY <2>3, <1>r
    <3>2. CASE c = d
      <4>1. callback[c] # "none" /\ c \notin connections_' /\ ~\E k \in Loops : cur[k] = c
        BY <2>1, <2>3, <3>2
      <4> QED
        BY <2>4, <3>1, <3>2, <4>1
    <3>3. CASE c # d
      <4>1. told'[c] = told[c] /\ (c \in connections_' <=> c \in connections_)
        BY <2>3, <2>5, <3>3
      <4> QED
        BY <3>1, <4>1, <1>r
    <3> QED
      BY <3>2, <3>3
  <2> QED
    BY <2>6
<1>5. CASE MainNext
  BY <1>1, <1>5 DEF MainNext, Constructor, SetupTraditionalMode, CreateListenSocket, CreateFails,
     AddressThrows, StartPoolInConstructor, AssignSocket, AssignDone, RegisterPlugin, LoadPlugins,
     SetOnMessage, Start, Run, acceptVars
<1>6. ASSUME NEW l \in Loops, RunRegistration(l) \/ AcceptBegin(l) \/ AcceptEnds(l) \/ AcceptFails(l)
      PROVE  UNCHANGED <<connVars, cur>>
  BY <1>6 DEF RunRegistration, AcceptBegin, AcceptEnds, AcceptFails
<1>7. ASSUME NEW c \in Clients, NEW s \in Sockets, Connect(c, s)
      PROVE  UNCHANGED <<connVars, cur>>
  BY <1>7 DEF Connect
<1> QED
  BY <1>1, <1>2, <1>3, <1>4, <1>5, <1>6, <1>7 DEF StartupNext, LoopNext, startupVars, acceptVars

\* In the traditional mode a connection is accepted from Run on.
LEMMA AcceptedLateStep ==
  ASSUME StartupInv, [StartupNext]_startupVars
  PROVE  AcceptedLate'
<1>t. StartupTypeOK /\ AssignInv /\ AcceptInv /\ AcceptedLate
  BY DEF StartupInv
<1>1. CASE UNCHANGED <<opts, callback>> /\ (main = "loop" => main' = "loop")
  BY <1>1, <1>t DEF AcceptedLate, Reuse
<1>2. CASE MainNext
  BY <1>1, <1>2 DEF MainNext, Constructor, SetupTraditionalMode, CreateListenSocket, CreateFails,
     AddressThrows, StartPoolInConstructor, AssignSocket, AssignDone, RegisterPlugin, LoadPlugins,
     SetOnMessage, Start, Run, Goto, connVars, mainVars
<1>3. ASSUME NEW l \in Loops, Accept(l)
      PROVE  AcceptedLate'
  <2>1. l = 0 \/ l > 0
    BY <1>t, StartupNumbers
  <2>2. Reuse \/ main = "loop"
    BY <2>1, <1>3, <1>t DEF Accept, AcceptInv, AssignInv
  <2>3. UNCHANGED <<opts, main>>
    BY <1>3 DEF Accept, mainVars
  <2> QED
    BY <2>2, <2>3 DEF AcceptedLate, Reuse
<1>4. ASSUME NEW l \in Loops,
             RunRegistration(l) \/ AcceptBegin(l) \/ HandOver(l) \/ AcceptEnds(l) \/ AcceptFails(l)
      PROVE  UNCHANGED <<opts, main, callback>>
  BY <1>4 DEF RunRegistration, AcceptBegin, HandOver, AcceptEnds, AcceptFails, mainVars, connVars
<1>5. ASSUME NEW c \in Clients, RemoveConnection(c) \/ \E s \in Sockets : Connect(c, s)
      PROVE  UNCHANGED <<opts, main, callback>>
  BY <1>5 DEF RemoveConnection, Connect, mainVars, connVars
<1> QED
  BY <1>1, <1>2, <1>3, <1>4, <1>5 DEF StartupNext, LoopNext, startupVars, mainVars, connVars

LEMMA StartupInitial == StartupInit => StartupInv
<1> SUFFICES ASSUME StartupInit PROVE StartupInv
  OBVIOUS
<1>1. /\ MaxThreads \in Nat /\ MaxSockets \in Nat /\ opts \in Options
      /\ NoOne \notin Sockets \cup Clients
  BY StartupAssumption DEF StartupInit
<1>2. 0 \in Loops
  BY <1>1 DEF Loops
<1>3. StartupTypeOK
  BY <1>1, <1>2 DEF StartupInit, StartupTypeOK, MainPCs
<1>4. SocketsInv /\ PoolInv /\ AssignInv /\ CallbackSet
  BY <1>1, <1>2 DEF StartupInit, SocketsInv, PoolInv, AssignInv, CallbackSet, Early, Reuse
<1>5. AcceptInv /\ VisitOwed /\ AcceptedLate /\ ReadyForConnections
  BY DEF StartupInit, AcceptInv, VisitOwed, AcceptedLate, ReadyForConnections
<1>6. ClientsOnce
  BY DEF StartupInit, ClientsOnce
<1> QED
  BY <1>3, <1>4, <1>5, <1>6 DEF StartupInv

\* The start as a whole, for any options: descriptors, threads, registrations,
\* queues and clients agree, whenever clients connect.
THEOREM StartupAlwaysConsistent == StartupSpec => []StartupInv
<1>1. StartupInv /\ [StartupNext]_startupVars => StartupInv'
  BY StartupTypesStep, SocketsStep, AssignStep, VisitStep, CallbackStep, ClientsStep,
     AcceptedLateStep, ReadyStep DEF StartupInv
<1> QED
  BY <1>1, StartupInitial, PTL DEF StartupSpec

\* No connection waits in vain, in both modes, for any number of sockets and
\* threads, and a start that fails leaves no descriptor open (NoClientForgotten;
\* the loops of HandleAccept, AssignListenSockets and CloseAll).
THEOREM StartupNoClientForgotten == StartupSpec => []NoClientForgotten
<1>1. StartupInv => NoClientForgotten
  <2> SUFFICES ASSUME StartupInv PROVE NoClientForgotten
    OBVIOUS
  <2>t. StartupTypeOK /\ SocketsInv /\ AssignInv /\ VisitOwed
    BY DEF StartupInv
  <2>1. ASSUME main = "loop", Reuse => NumSockets <= opts.threads, NEW s \in fds
        PROVE  Watched(s)
    <3>n. /\ opts.threads \in Int /\ Threads \in 0 .. MaxThreads /\ MaxThreads \in Nat
          /\ 0 \in Loops /\ Len(socket_fds_) \in Nat /\ NumSockets \in Int
      BY <2>t, StartupNumbers DEF StartupTypeOK
    <3>1. /\ s \in 1 .. Len(socket_fds_) /\ socket_fds_[s] = s
          /\ Len(socket_fds_) = IF Reuse THEN NumSockets ELSE 1
      BY <2>1, <2>t DEF SocketsInv
    <3>2. CASE Reuse
      <4>1. s \in 1 .. Threads /\ s \in Loops
        BY <2>1, <3>1, <3>2, <3>n DEF Threads, Loops
      <4>2. (s - 1) % Len(socket_fds_) = s - 1
        BY <3>1, <3>n
      <4>3. SocketOf(s) = s
        BY <3>1, <3>n, <4>2 DEF SocketOf
      <4>4. functors[s] # NoOne \/ registered[s] # NoOne
        BY <2>1, <3>2, <4>1, <2>t DEF AssignInv, Early
      <4>5. functors[s] = s \/ registered[s] = s
        BY <4>1, <4>3, <4>4, <2>t, <3>n DEF AssignInv
      <4> QED
        BY <4>1, <4>5 DEF Watched
    <3>3. CASE ~Reuse
      BY <2>1, <3>1, <3>3, <3>n, <2>t DEF AssignInv, Watched
    <3> QED
      BY <3>2, <3>3
  <2> QED
    BY <2>1, <2>t DEF NoClientForgotten, Reuse, SocketsInv, VisitOwed
<1> QED
  BY <1>1, StartupAlwaysConsistent, PTL

\* In the traditional mode every connection has its message callback and the
\* plugin hears of it once, whenever clients connect (ReadyForConnections).
THEOREM StartupReadyForConnections == StartupSpec => []ReadyForConnections
<1>1. StartupInv => ReadyForConnections
  BY DEF StartupInv
<1> QED
  BY <1>1, StartupAlwaysConsistent, PTL
===============================================================================
