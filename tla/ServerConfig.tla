----------------------------- MODULE ServerConfig -----------------------------
(***************************************************************************)
(* src/config/server_config.cpp: loading a file over the defaults,         *)
(* Validate, and Reload, which several threads may call while others read  *)
(* sections through the getters.                                           *)
(*                                                                         *)
(* A configuration is a function from its numeric fields.  Texts and most  *)
(* flags are left out: Validate does not look at them, and they are copied *)
(* with their section.  A file is the set of keys found in it with the     *)
(* right type, and their integers; any other key leaves the default.  A    *)
(* file that is missing, or that is not JSON, gives the defaults and no    *)
(* error.  Getters hold the shared lock for one copy, hence are one step;  *)
(* Reload copies under the exclusive lock, field by field.                 *)
(*                                                                         *)
(* Left out: ToJsonString and Validate of the shared object.  Both read    *)
(* without the lock, and would see a mixture while a Reload copies;        *)
(* nothing in the program calls them on it (Reload validates an object of  *)
(* its own).                                                               *)
(***************************************************************************)
EXTENDS Integers, Sequences

CONSTANTS Reloaders,  \* threads that call Reload
          Readers,    \* threads that call the getters
          Files,      \* names of files
          Content,    \* what each file holds: [json, keys]
          IntValues,  \* how many values an int has: 2^32 in the build
          None

\* The fields of each section, in the order of their declaration.
server_  == <<"port", "threads", "backlog", "so_reuseport_sockets">>
limits_  == <<"max_connections", "max_request_size", "max_response_size",
              "connection_timeout", "keep_alive_timeout",
              "max_input_buffer", "max_output_buffer">>
logging_ == <<"queue_size", "flush_interval">>
static_  == <<"cache_size", "cache_ttl">>
metrics_ == <<"prometheus_port", "collect_interval">>

Sections == {server_, limits_, logging_, static_, metrics_}
FieldOrder == server_ \o limits_ \o logging_ \o static_ \o metrics_
Fields == {FieldOrder[n] : n \in 1 .. Len(FieldOrder)}

\* The fields of type size_t; the others are int.
SizeFields == {"max_request_size", "max_response_size", "max_input_buffer",
               "max_output_buffer", "queue_size", "cache_size"}

KB == 1024
MB == 1024 * KB

Defaults ==
  [port |-> 8080, threads |-> 4, backlog |-> 1024, so_reuseport_sockets |-> 0,
   max_connections |-> 10000, max_request_size |-> 64 * KB, max_response_size |-> MB,
   connection_timeout |-> 30, keep_alive_timeout |-> 15,
   max_input_buffer |-> 64 * KB, max_output_buffer |-> MB,
   queue_size |-> 10000, flush_interval |-> 3, cache_size |-> 100, cache_ttl |-> 300,
   prometheus_port |-> 9090, collect_interval |-> 5]

\* What Validate allows.
Allowed ==
  [port |-> 1 .. 65535, threads |-> 1 .. 64, backlog |-> 1 .. 65535,
   so_reuseport_sockets |-> 0 .. 64,
   max_connections |-> 1 .. 1000000, max_request_size |-> KB .. 100 * MB,
   max_response_size |-> KB .. 500 * MB, connection_timeout |-> 1 .. 3600,
   keep_alive_timeout |-> 0 .. 3600, max_input_buffer |-> KB .. 100 * MB,
   max_output_buffer |-> KB .. 500 * MB,
   queue_size |-> 1 .. 1000000, flush_interval |-> 1 .. 3600,
   cache_size |-> 0 .. 10000, cache_ttl |-> 0 .. 86400,
   prometheus_port |-> 1 .. 65535, collect_interval |-> 1 .. 3600]

\* Validate returns no errors.
Validate(c) == /\ \A f \in Fields : c[f] \in Allowed[f]
               /\ c["prometheus_port"] # c["port"]

\* An integer of JSON, of 64 bits, assigned to an int: what is beyond wraps.
AsInt(n) == LET half == IntValues \div 2
            IN  ((n + half) % IntValues) - half

\* LoadFromJsonObject on a new object: the keys that are there, the defaults
\* for the others.  A negative number becomes a huge size_t; it stands here as
\* it is, outside the range that Validate allows either way.
LoadFromJsonObject(keys) ==
  [f \in Fields |-> IF f \notin DOMAIN keys THEN Defaults[f]
                    ELSE IF f \in SizeFields THEN keys[f] ELSE AsInt(keys[f])]

\* LoadFromFile (LoadFromJson does the same with a text): never null.
LoadFromFile(file) == IF file # None /\ Content[file].json
                      THEN LoadFromJsonObject(Content[file].keys)
                      ELSE [f \in Fields |-> Defaults[f]]

ASSUME ContentAssumption ==
  /\ None \notin Reloaders \cup Files
  /\ IntValues \in Nat \ {0}
  /\ \A file \in Files :
       \A f \in Fields : f \in DOMAIN Content[file].keys => Content[file].keys[f] \in Int

VARIABLES
  config,         \* the five sections
  original_json_, \* the file they come from, or None
  reloading_,
  mutex_,         \* the thread with the exclusive lock, or None
  reload,         \* where each call of Reload is
  new_config_obj, \* of each call of Reload: the file it has read
  copied,         \* how many fields the owner of the lock has copied
  got             \* what each reader's last getter returned

configVars == <<config, original_json_, reloading_, mutex_, reload, new_config_obj, copied, got>>

ReloadPCs == {"idle", "load", "validate", "lock", "copy", "json", "unlock", "reset"}

Section(c, s) == [n \in 1 .. Len(s) |-> c[s[n]]]

ConfigTypeOK ==
  /\ config \in [Fields -> Int]
  /\ original_json_ \in Files \cup {None}
  /\ reloading_ \in BOOLEAN
  /\ mutex_ \in Reloaders \cup {None}
  /\ reload \in [Reloaders -> ReloadPCs]
  /\ new_config_obj \in [Reloaders -> Files \cup {None}]
  /\ copied \in 0 .. Len(FieldOrder)
  /\ DOMAIN got = Readers

\* The text a load keeps: none when the file could not be read.
JsonOf(file) == IF file # None /\ Content[file].json THEN file ELSE None

\* main has loaded a file or taken the defaults, and called Validate in
\* neither case.
ConfigInit ==
  /\ \E file \in Files \cup {None} : /\ config = LoadFromFile(file)
                                     /\ original_json_ = JsonOf(file)
  /\ reloading_ = FALSE
  /\ mutex_ = None
  /\ reload = [r \in Reloaders |-> "idle"]
  /\ new_config_obj = [r \in Reloaders |-> None]
  /\ copied = 0
  /\ got = [q \in Readers |-> [section |-> server_, values |-> Section(config, server_)]]
-------------------------------------------------------------------------------
Step(r, from, to) == reload[r] = from /\ reload' = [reload EXCEPT ![r] = to]

\* Mutant: the flag is set, but not looked at.
ReloadBeginUnchecked(r) ==
  /\ Step(r, "idle", "load")
  /\ reloading_' = TRUE
  /\ UNCHANGED <<config, original_json_, mutex_, new_config_obj, copied, got>>

\* reloading_.exchange(true): a call that finds it set returns false.
ReloadBegin(r) ==
  /\ Step(r, "idle", IF reloading_ THEN "idle" ELSE "load")
  /\ reloading_' = TRUE
  /\ UNCHANGED <<config, original_json_, mutex_, new_config_obj, copied, got>>

ReloadLoad(r, file) ==
  /\ Step(r, "load", "validate")
  /\ new_config_obj' = [new_config_obj EXCEPT ![r] = file]
  /\ UNCHANGED <<config, original_json_, reloading_, mutex_, copied, got>>

\* With errors, the call resets the flag and returns false.
ReloadValidate(r) ==
  /\ Step(r, "validate", IF Validate(LoadFromFile(new_config_obj[r])) THEN "lock" ELSE "reset")
  /\ UNCHANGED <<config, original_json_, reloading_, mutex_, new_config_obj, copied, got>>

\* The exclusive lock; CanReloadWithoutRestart always says yes.
ReloadLock(r) ==
  /\ mutex_ = None
  /\ Step(r, "lock", "copy")
  /\ mutex_' = r
  /\ copied' = 0
  /\ UNCHANGED <<config, original_json_, reloading_, new_config_obj, got>>

\* The assignments of the five sections.
ReloadCopy(r) ==
  /\ Step(r, "copy", IF copied + 1 = Len(FieldOrder) THEN "json" ELSE "copy")
  /\ LET f == FieldOrder[copied + 1]
     IN  config' = [config EXCEPT ![f] = LoadFromFile(new_config_obj[r])[f]]
  /\ copied' = copied + 1
  /\ UNCHANGED <<original_json_, reloading_, mutex_, new_config_obj, got>>

ReloadJson(r) ==
  /\ Step(r, "json", "unlock")
  /\ original_json_' = JsonOf(new_config_obj[r])
  /\ UNCHANGED <<config, reloading_, mutex_, new_config_obj, copied, got>>

\* The lock goes with the try block, and the flag is reset after it.
ReloadUnlock(r) ==
  /\ Step(r, "unlock", "reset")
  /\ mutex_' = None
  /\ UNCHANGED <<config, original_json_, reloading_, new_config_obj, copied, got>>

ReloadReset(r) ==
  /\ Step(r, "reset", "idle")
  /\ reloading_' = FALSE
  /\ new_config_obj' = [new_config_obj EXCEPT ![r] = None]
  /\ UNCHANGED <<config, original_json_, mutex_, copied, got>>

\* Mutant: a getter without its lock.
GetOptionsUnlocked(q, s) ==
  /\ got' = [got EXCEPT ![q] = [section |-> s, values |-> Section(config, s)]]
  /\ UNCHANGED <<config, original_json_, reloading_, mutex_, reload, new_config_obj, copied>>

\* A getter: one section, under the shared lock.
GetOptions(q, s) ==
  /\ mutex_ = None
  /\ got' = [got EXCEPT ![q] = [section |-> s, values |-> Section(config, s)]]
  /\ UNCHANGED <<config, original_json_, reloading_, mutex_, reload, new_config_obj, copied>>

Reload(r) ==
  \/ ReloadBegin(r) \/ ReloadValidate(r) \/ ReloadLock(r) \/ ReloadCopy(r)
  \/ ReloadJson(r) \/ ReloadUnlock(r) \/ ReloadReset(r)
  \/ \E file \in Files : ReloadLoad(r, file)

ConfigNext ==
  \/ \E r \in Reloaders : Reload(r)
  \/ \E q \in Readers, s \in Sections : GetOptions(q, s)

ConfigSpec == ConfigInit /\ [][ConfigNext]_configVars
-------------------------------------------------------------------------------
\* One reload at a time, and the flag is never left behind: it is set exactly
\* while one call is past the exchange (Reload, with its early returns).
ReloadExclusive ==
  /\ reloading_ <=> \E r \in Reloaders : reload[r] # "idle"
  /\ \A r1, r2 \in Reloaders : reload[r1] # "idle" /\ reload[r2] # "idle" => r1 = r2

\* What readers can see comes from one file as a whole: no field of the
\* previous configuration is left, original_json_ names that file, no getter
\* has returned a section with fields of two files, and what a reload leaves
\* behind is valid, the ports of two sections against each other included.
ConfigWhole ==
  /\ mutex_ = None => \E file \in Files \cup {None} : /\ config = LoadFromFile(file)
                                                     /\ original_json_ = JsonOf(file)
  /\ \A q \in Readers : \E file \in Files \cup {None} :
       got[q].values = Section(LoadFromFile(file), got[q].section)
  /\ \A r \in Reloaders : reload[r] = "unlock" => Validate(config)

\* What the comment on CanReloadWithoutRestart says: ip, port, threads and
\* backlog change only with a restart.  Reload replaces them all the same.
ServerNeedsRestart ==
  [][Section(config', server_) = Section(config, server_)]_configVars
===============================================================================
