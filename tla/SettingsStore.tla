--------------------------- MODULE SettingsStore ---------------------------
(***************************************************************************)
(* The settings file: a command loads it, changes the settings, and Save   *)
(* merges them over what the file has by then, writes a temporary file and *)
(* renames it.  The file also has keys that are not the settings' (viper's)*)
(* and may be edited by hand.  Commands and requests of the server save it *)
(* without a lock, and under one temporary name.                           *)
(***************************************************************************)
EXTENDS Naturals, FiniteSets

CONSTANTS
    Savers,
    Locations,      \* names of storage locations
    Profiles,       \* names of registry profiles
    Legacy,         \* the name of the profile made of the registry: block
    MaxSaves,       \* the bound on changes
    SettingsMixes   \* what may happen in one history

VARIABLES
    yaml,      \* what each inode has: the settings, viper's keys, or nonsense
    path,      \* the inode of config.yaml
    temp,      \* and of config.yaml.tmp
    saver,     \* the commands: the settings and keys to be written
    want,      \* history: the settings and viper's keys saved last, and those being saved
    changes,
    setmix

setvars == <<yaml, path, temp, saver, want, changes, setmix>>

May(e) == e \in setmix
Missing == 0
YamlInodes == 1..(Cardinality(Savers) + 2)
AbsPath == "/abs"
Unset == ""
Zero == [locs |-> {}, default |-> Unset, cache |-> FALSE, profiles |-> {}, legacy |-> FALSE]
Empty == [own |-> Zero, other |-> FALSE, broken |-> FALSE]
Idle == [pc |-> "idle", own |-> Zero, other |-> FALSE, fd |-> Missing]
Contents == IF path = Missing THEN Empty ELSE yaml[path]
Saving == {p \in Savers : saver[p].pc # "idle"}

(* What no name and no descriptor leads to is forgotten. *)
Swept(y, names) == [i \in YamlInodes |-> IF i \in names THEN y[i] ELSE Empty]
Held == {saver[p].fd : p \in Savers}

-----------------------------------------------------------------------------
(* The settings                                                            *)

(* A list of profiles is the set of them: no two have one name.             *)
RegistryProfiles(s) ==
    IF s.profiles # {} THEN s.profiles
    ELSE IF s.legacy THEN {[name |-> Legacy, default |-> TRUE]} ELSE {}

ValidateRegistryProfiles(s) ==
    \A r, q \in s.profiles : r.name = q.name \/ (r.default /\ q.default) => r = q

NamesOf(s) == {r.name : r \in RegistryProfiles(s)}

StorageChanges ==
    [op : {"add", "remove"}, name : Locations] \cup [op : {"default"}, name : Locations \cup {AbsPath}]
    \cup [op : {"cache"}]
RegistryChanges ==
    [op : {"regadd"}, name : Profiles, default : BOOLEAN]
    \cup [op : {"regremove", "regdefault"}, name : Profiles] \cup [op : {"ghcr"}]
UpdateChanges == [op : {"update"}, name : Locations]

ConfigStorageRemove(s, x) == [s EXCEPT !.locs = @ \ {x}, !.default = IF @ = x THEN Unset ELSE @]

ConfigRegistryAdd(s, x, d) ==
    LET kept == {[r EXCEPT !.default = @ /\ ~d] : r \in RegistryProfiles(s)}
    IN  [s EXCEPT !.profiles = {r \in kept : r.name # x} \cup {[name |-> x, default |-> d]}]

ConfigRegistryRemove(s, x) == [s EXCEPT !.profiles = {r \in RegistryProfiles(s) : r.name # x}]

ConfigRegistryDefault(s, x) ==
    [s EXCEPT !.profiles = {[r EXCEPT !.default = r.name = x] : r \in RegistryProfiles(s)}]

Changed(s, c) ==
    CASE c.op = "add" -> [s EXCEPT !.locs = @ \cup {c.name}]
      [] c.op = "remove" -> ConfigStorageRemove(s, c.name)
      [] c.op \in {"default", "update"} -> [s EXCEPT !.default = c.name]
      [] c.op = "cache" -> [s EXCEPT !.cache = TRUE]
      [] c.op = "regadd" -> ConfigRegistryAdd(s, c.name, c.default)
      [] c.op = "regremove" -> ConfigRegistryRemove(s, c.name)
      [] c.op = "regdefault" -> ConfigRegistryDefault(s, c.name)
      [] c.op = "ghcr" -> [s EXCEPT !.legacy = TRUE]

(* What the commands refuse: names that are not there, and registries that *)
(* do not validate.  handleUpdateConfig ("update") refuses nothing.        *)
Allowed(s, c) ==
    CASE c.op = "remove" -> c.name \in s.locs
      [] c.op = "default" -> c.name \in s.locs \cup {AbsPath}
      [] c.op = "regadd" -> ValidateRegistryProfiles(Changed(s, c))
      [] c.op \in {"regremove", "regdefault"} -> c.name \in NamesOf(s)
      [] OTHER -> TRUE

Changes ==
    (IF May("storage") THEN StorageChanges ELSE {}) \cup (IF May("registry") THEN RegistryChanges ELSE {})
    \cup (IF May("update") THEN UpdateChanges ELSE {})

-----------------------------------------------------------------------------
(* LoadSettings, and the command's change.  A file that cannot be parsed   *)
(* ends the command.                                                       *)
Load(p) ==
    /\ saver[p].pc = "idle" /\ changes < MaxSaves
    /\ May("together") \/ Saving = {}
    /\ ~Contents.broken
    /\ \E c \in Changes :
        /\ Allowed(Contents.own, c)
        /\ saver' = [saver EXCEPT ![p] = [Idle EXCEPT !.pc = "merge", !.own = Changed(Contents.own, c)]]
        /\ want' = [want EXCEPT !.next = Changed(Contents.own, c)]
    /\ changes' = changes + 1
    /\ UNCHANGED <<yaml, path, temp, setmix>>

(* The keys that are not the settings', as the file has them now: an       *)
(* unparseable file has none.                                              *)
Merged == ~Contents.broken /\ Contents.other

Merge(p) ==
    /\ saver[p].pc = "merge"
    /\ saver' = [saver EXCEPT ![p].pc = "create", ![p].other = Merged]
    /\ want' = [want EXCEPT !.nextOther = want.other /\ ~Contents.broken]
    /\ UNCHANGED <<yaml, path, temp, changes, setmix>>

(* Faulty: the file itself is truncated. *)
CreateInPlace(p) ==
    /\ saver[p].pc = "create" /\ path # Missing
    /\ yaml' = [yaml EXCEPT ![path] = Empty]
    /\ temp' = temp /\ saver' = [saver EXCEPT ![p].pc = "write", ![p].fd = path]
    /\ UNCHANGED <<path, want, changes, setmix>>

(* os.WriteFile of the temporary file, which may be there: it is truncated.*)
Create(p) ==
    /\ saver[p].pc = "create"
    /\ LET i == IF temp # Missing THEN temp ELSE CHOOSE j \in YamlInodes : j \notin Held \cup {path} IN
       /\ temp' = i /\ yaml' = [yaml EXCEPT ![i] = Empty]
       /\ saver' = [saver EXCEPT ![p].pc = "write", ![p].fd = i]
    /\ UNCHANGED <<path, want, changes, setmix>>

(* The file may have got another name, or another's data, by now; of two   *)
(* that differ in length the end of the longer stays.                      *)
Write(p) ==
    /\ saver[p].pc = "write"
    /\ \E mixed \in (IF yaml[saver[p].fd] = Empty THEN {FALSE} ELSE BOOLEAN) :
           yaml' = [yaml EXCEPT ![saver[p].fd] =
                       [own |-> saver[p].own, other |-> saver[p].other, broken |-> mixed]]
    /\ saver' = [saver EXCEPT ![p].pc = "rename", ![p].fd = Missing]
    /\ UNCHANGED <<path, temp, want, changes, setmix>>

(* If another has renamed it already that is an error. *)
Rename(p) ==
    /\ saver[p].pc = "rename"
    /\ IF temp = Missing THEN UNCHANGED <<path, temp, want, yaml>>
       ELSE /\ path' = temp /\ temp' = Missing
            /\ want' = [want EXCEPT !.now = want.next, !.other = want.nextOther]
            /\ yaml' = Swept(yaml, Held \cup {temp})
    /\ saver' = [saver EXCEPT ![p] = Idle]
    /\ UNCHANGED <<changes, setmix>>

Kill(p) ==
    /\ May("kill") /\ saver[p].pc # "idle"
    /\ saver' = [saver EXCEPT ![p] = Idle]
    /\ yaml' = Swept(yaml, {path, temp} \cup {saver[q].fd : q \in Savers \ {p}})
    /\ UNCHANGED <<path, temp, want, changes, setmix>>

(* An editor sets one of viper's keys, or leaves what is not YAML, or      *)
(* repairs it.  What is edited between Merge and Rename is lost: an editor *)
(* holds no lock either, and is not let in then.                           *)
Edit ==
    /\ May("edit") /\ path # Missing /\ changes < MaxSaves
    /\ \A p \in Savers : saver[p].pc \in {"idle", "merge"}
    /\ \/ /\ ~yaml[path].broken
          /\ yaml' = [yaml EXCEPT ![path].other = TRUE] /\ want' = [want EXCEPT !.other = TRUE]
       \/ yaml' = [yaml EXCEPT ![path].broken = ~@] /\ UNCHANGED want
    /\ changes' = changes + 1
    /\ UNCHANGED <<path, temp, saver, setmix>>

Init ==
    /\ yaml = [i \in YamlInodes |-> Empty]
    /\ path \in {1, Missing} /\ temp = Missing
    /\ saver = [p \in Savers |-> Idle]
    /\ want = [now |-> Zero, next |-> Zero, other |-> FALSE, nextOther |-> FALSE]
    /\ changes = 0 /\ setmix \in SettingsMixes

Save(p) == Merge(p) \/ Create(p) \/ Write(p) \/ Rename(p)

Next == Edit \/ \E p \in Savers : Load(p) \/ Save(p) \/ Kill(p)

Spec == Init /\ [][Next]_setvars

-----------------------------------------------------------------------------
(* The types of the variables; the file and its successor are two files.   *)
TypeOK ==
    /\ \A i \in YamlInodes : /\ yaml[i].own.locs \subseteq Locations /\ NamesOf(yaml[i].own) \subseteq Profiles
                         /\ yaml[i].own.default \in Locations \cup {Unset, AbsPath}
    /\ path \in YamlInodes \cup {Missing} /\ temp \in YamlInodes \cup {Missing}
    /\ path # Missing => path # temp
    /\ \A p \in Savers : saver[p].pc \in {"idle", "merge", "create", "write", "rename"}
    /\ changes \in 0..MaxSaves

(* "Save atomically writes the settings file": whatever one saver is       *)
(* killed at, the file has all of the settings saved last, and can be read *)
(* (settings.go, Save).  Two savers share a temporary file and have no     *)
(* such promise.                                                           *)
SavesAtomic ==
    ~May("together") /\ path # Missing =>
        yaml[path].own = want.now /\ (~May("edit") => ~yaml[path].broken)

(* Save keeps the keys that are not its own, those of a file that was      *)
(* edited after the settings were loaded too (settingsOwnedKeys).          *)
OthersKept == ~May("together") /\ path # Missing /\ ~yaml[path].broken => yaml[path].other = want.other

(* Every file's profiles are valid, with one default at most, whoever      *)
(* added, removed or chose them, through the profile that only the         *)
(* registry: block stands for too (ValidateRegistryProfiles, which only    *)
(* some of the commands call).                                             *)
ProfilesValid == \A i \in YamlInodes : ValidateRegistryProfiles(yaml[i].own)

(* The default storage is a location that is configured, or a path: no VM  *)
(* home is silently another one (DefaultStoragePath).  An update over HTTP *)
(* is not held to it.                                                      *)
DefaultResolves ==
    ~May("update") => \A i \in YamlInodes :
        LET s == yaml[i].own IN s.default \in s.locs \cup {Unset, AbsPath}

(* The file is one saver's whole, with what others set and nothing invalid. *)
SettingsSafe ==
    /\ TypeOK
    /\ SavesAtomic
    /\ OthersKept
    /\ ProfilesValid
    /\ DefaultResolves
=============================================================================
