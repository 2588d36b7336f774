-------------------------------- MODULE Stores --------------------------------
(***************************************************************************)
(* What is kept on the disk of the host beside VM directories: snapshots,  *)
(* saved devices, installation media, policies, settings and logs.         *)
(* The components share no variable: a history is one component's, and the *)
(* others stay in their initial states.                                    *)
(***************************************************************************)
EXTENDS SnapshotStore, Integers, FiniteSets

VARIABLE part    \* the component whose history this is

-----------------------------------------------------------------------------
CONSTANTS DevRuns, Lines, Means(_), KindOf(_), HostVersions, MaxTemps

VARIABLES mac, lines, run, built, saved, temps, runlock

devvars == <<mac, lines, run, built, saved, temps, runlock>>

Dev == INSTANCE RunDevices WITH Hosts <- HostVersions, holder <- runlock

(* The lock of a file knows a run from the collection. *)
ASSUME DevAssumption ==
    /\ {"none", "gc"} \cap DevRuns = {}
    /\ \A L \in Lines : L \subseteq Dev!CommandLines
    /\ HostVersions \subseteq Nat /\ MaxTemps \in Nat

-----------------------------------------------------------------------------
CONSTANTS Creators, Answers, Places, WMixes

VARIABLES iso, isotmp, creator, scratch, wdir, tools, wmix

wvars == <<iso, isotmp, creator, scratch, wdir, tools, wmix>>

Media == INSTANCE WindowsMedia

ASSUME MediaAssumption == Places \in [1..2 -> {"env", "path"}]

-----------------------------------------------------------------------------
CONSTANTS Settings, Overrides, Clipboards, MaxTime

VARIABLES rules, waiting, bucket, clock, sent, volume

policyvars == <<rules, waiting, bucket, clock, sent, volume>>

Policy == INSTANCE ClipboardPolicy

(* One policy is set at most, and none has a negative budget. *)
ASSUME PolicyAssumption ==
    /\ MaxTime \in Nat
    /\ \A S \in Settings : \A p \in S :
        /\ DOMAIN p = DOMAIN Policy!Default /\ p["rate"] \in Nat /\ p["max"] \in Int
        /\ \A q \in S : p = q
    /\ \A o \in Overrides :
        /\ "rate" \in DOMAIN o => o["rate"] \in Nat
        /\ "max" \in DOMAIN o => o["max"] \in Int
    /\ \A C \in Clipboards : \A i \in C : i.size \in Nat

-----------------------------------------------------------------------------
CONSTANTS Savers, Locations, Profiles, Legacy, MaxSaves, SettingsMixes

VARIABLES yaml, path, temp, saver, want, changes, setmix

setvars == <<yaml, path, temp, saver, want, changes, setmix>>

Set == INSTANCE SettingsStore

ASSUME SettingsAssumption ==
    /\ IsFiniteSet(Savers)
    /\ Legacy \in Profiles
    /\ MaxSaves \in Nat

-----------------------------------------------------------------------------
CONSTANTS Writers, Cap, MaxLines, LogMixes

VARIABLES data, log, old, writer, mutex, clearer, follower, written, logmix

logvars == <<data, log, old, writer, mutex, clearer, follower, written, logmix>>

Logs == INSTANCE LogFiles

ASSUME LogAssumption ==
    /\ IsFiniteSet(Writers)
    /\ Cap \in Nat \ {0} /\ MaxLines \in Nat

-----------------------------------------------------------------------------
PartNames == {"snap", "dev", "media", "policy", "settings", "logs"}

On(p) == part = p

StoresInit ==
    /\ part \in PartNames
    /\ Init
    /\ Dev!Init
    /\ Media!Init
    /\ Policy!Init
    /\ Set!Init
    /\ Logs!Init

StoresNext ==
    \/ /\ On("snap") /\ Next
       /\ UNCHANGED <<devvars, wvars, policyvars, setvars, logvars, part>>
    \/ /\ On("dev") /\ Dev!Next
       /\ UNCHANGED <<snapvars, wvars, policyvars, setvars, logvars, part>>
    \/ /\ On("media") /\ Media!Next
       /\ UNCHANGED <<snapvars, devvars, policyvars, setvars, logvars, part>>
    \/ /\ On("policy") /\ Policy!Next
       /\ UNCHANGED <<snapvars, devvars, wvars, setvars, logvars, part>>
    \/ /\ On("settings") /\ Set!Next
       /\ UNCHANGED <<snapvars, devvars, wvars, policyvars, logvars, part>>
    \/ /\ On("logs") /\ Logs!Next
       /\ UNCHANGED <<snapvars, devvars, wvars, policyvars, setvars, part>>

storesvars == <<part, snapvars, devvars, wvars, policyvars, setvars, logvars>>

StoresSpec == StoresInit /\ [][StoresNext]_storesvars

-----------------------------------------------------------------------------
(* RunDevices and LogFiles: a machine is built from what exists, has the   *)
(* devices that were asked for, and is restored with those it was saved    *)
(* with; the last lines of a log are there, in order, and under its cap.   *)
DevSafe ==
    /\ On("dev") => Dev!DevSafe
    /\ On("logs") => Logs!LogSafe

(* WindowsMedia: cached media are whole, a created machine can be          *)
(* installed, and failures leave nothing behind.                           *)
MediaSafe == On("media") => Media!MediaSafe

(* ClipboardPolicy and SettingsStore: only what is permitted crosses, and  *)
(* at the rate; the settings file is one saver's whole and keeps what      *)
(* others set.                                                             *)
FilesSafe ==
    /\ On("policy") => Policy!PolicySafe
    /\ On("settings") => Set!SettingsSafe
=============================================================================
