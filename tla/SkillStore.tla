----------------------------- MODULE SkillStore -----------------------------
(***************************************************************************)
(* One skill's files at three levels (internal/skill): the loader reads    *)
(* them without its lock and caches the skill, an installer replaces a     *)
(* level's directory step by step, an editor changes files in place, and   *)
(* the watcher drops the cached skill when the directory above reports a   *)
(* change.  That report is the operating system's: it names entries of the *)
(* watched directory, never what lies deeper.  Whether the watcher finds   *)
(* the skill's name in it depends on how its directory is spelled.         *)
(*                                                                         *)
(* A file's content is the number of the change that wrote it, 0 when the  *)
(* file is absent.  Left out: other skills, texts, where an installer gets *)
(* its source from.                                                        *)
(***************************************************************************)
EXTENDS Naturals, Sequences, FiniteSets, FiniteSetsExt

CONSTANTS
    Loaders,        \* the goroutines that call Load
    Misnamed,       \* the levels in whose reports detectSkillName does not find
                    \* the name: the directory is not spelled as the system
                    \* spells it, or another one's path is a prefix of it
    MaxChanges,     \* bound: installations and edits
    MaxReports,     \* bound: reports the system queues
    ChangesSize     \* the capacity of Watcher.Changes, 100 in the code

ASSUME SkillAssumption == MaxChanges \in Nat /\ MaxReports \in Nat /\ ChangesSize \in Nat

VARIABLES
    dirs,       \* level -> the directory's state
    install,    \* the installer: where it is, at which level
    changes,    \* how many changes there have been
    reports,    \* what the system has to report of the watched directories
    cached,     \* SkillLoader.cache[name]
    loads,      \* where each Load is, and what it has read
    watcher,    \* where the watcher's goroutine is
    sent,       \* how many events Watcher.Changes holds
    closing     \* where Close is

skillVars == <<dirs, install, changes, reports, cached, loads, watcher, sent, closing>>

Levels == 0 .. 2    \* builtin, user, project

NoDir == [dir |-> FALSE, manifest |-> 0, valid |-> TRUE, prompt |-> 0]

(* missed: history, whether the files changed since the Load began and no   *)
(* report will drop the skill for it.                                       *)
NoSkill == [level |-> 0, manifest |-> 0, prompt |-> 0, missed |-> FALSE]

SkillInit ==
    /\ dirs = [l \in Levels |-> NoDir]
    /\ install = [at |-> "idle", level |-> 0]
    /\ changes = 0
    /\ reports = <<>>
    /\ cached = NoSkill
    /\ loads = [g \in Loaders |-> [at |-> "idle", read |-> NoSkill]]
    /\ watcher = "new"
    /\ sent = 0
    /\ closing = "no"

-----------------------------------------------------------------------------
(* The change of a file below a watched directory is not reported; nor is   *)
(* the skill dropped for a report in which its name is not found.           *)
Unnoticed ==
    /\ loads' = [g \in Loaders |->
                    [loads[g] EXCEPT !.read.missed = loads[g].at # "idle"]]
    /\ cached' = IF cached = NoSkill THEN cached ELSE [cached EXCEPT !.missed = TRUE]

Report(l, op) ==
    /\ reports' = IF closing = "no" THEN Append(reports, [op |-> op, level |-> l])
                                    ELSE reports
    /\ IF l \in Misnamed THEN Unnoticed ELSE UNCHANGED <<cached, loads>>

(* InstallFromLocal: RemoveAll of the target, MkdirAll, and the files in    *)
(* the order of their names: prompts, then skill.json.                      *)
RemoveTarget(l) ==
    /\ install.at = "idle"
    /\ changes < MaxChanges
    /\ Len(reports) < MaxReports
    /\ changes' = changes + 1
    /\ dirs' = [dirs EXCEPT ![l] = NoDir]
    /\ IF dirs[l].dir THEN Report(l, "remove") ELSE UNCHANGED <<reports, cached, loads>>
    /\ install' = [at |-> "make", level |-> l]
    /\ UNCHANGED <<watcher, sent, closing>>

(* RemoveAll, of an installation or of Uninstall, fails when some of the    *)
(* files are gone: the directory stays, and both return the error.          *)
RemoveFails(l) ==
    /\ install.at = "idle"
    /\ dirs[l].dir
    /\ \E manifest \in {0, dirs[l].manifest}, prompt \in {0, dirs[l].prompt} :
          dirs' = [dirs EXCEPT ![l].manifest = manifest, ![l].prompt = prompt]
    /\ dirs' # dirs
    /\ Unnoticed
    /\ UNCHANGED <<install, changes, reports, watcher, sent, closing>>

MakeDir ==
    /\ install.at = "make"
    /\ Len(reports) < MaxReports
    /\ dirs' = [dirs EXCEPT ![install.level].dir = TRUE]
    /\ Report(install.level, "create")
    /\ install' = [install EXCEPT !.at = "prompt"]
    /\ UNCHANGED <<changes, watcher, sent, closing>>

CopyPrompt ==
    /\ install.at = "prompt"
    /\ dirs' = [dirs EXCEPT ![install.level].prompt = changes]
    /\ install' = [install EXCEPT !.at = "manifest"]
    /\ Unnoticed
    /\ UNCHANGED <<changes, reports, watcher, sent, closing>>

CopyManifest ==
    /\ install.at = "manifest"
    /\ dirs' = [dirs EXCEPT ![install.level].manifest = changes]
    /\ install' = [at |-> "idle", level |-> 0]
    /\ Unnoticed
    /\ UNCHANGED <<changes, reports, watcher, sent, closing>>

(* A copy that fails half-way leaves what was copied.                       *)
InstallFails ==
    /\ install.at \in {"make", "prompt", "manifest"}
    /\ install' = [at |-> "idle", level |-> 0]
    /\ UNCHANGED <<dirs, changes, reports, cached, loads, watcher, sent, closing>>

Uninstall(l) ==
    /\ install.at = "idle"
    /\ dirs[l].dir
    /\ Len(reports) < MaxReports
    /\ dirs' = [dirs EXCEPT ![l] = NoDir]
    /\ Report(l, "remove")
    /\ UNCHANGED <<install, changes, watcher, sent, closing>>

(* Somebody edits the manifest in place, well or badly.                     *)
Edit(l) ==
    /\ install.at = "idle"
    /\ dirs[l].manifest # 0
    /\ changes < MaxChanges
    /\ changes' = changes + 1
    /\ \E valid \in BOOLEAN :
          dirs' = [dirs EXCEPT ![l].manifest = changes', ![l].valid = valid]
    /\ Unnoticed
    /\ UNCHANGED <<install, reports, watcher, sent, closing>>

-----------------------------------------------------------------------------
(* Load: the cache, the three Stats, the manifest, the prompt, the cache.   *)
Load(g) ==
    /\ loads[g].at = "idle"
    /\ cached = NoSkill
    /\ loads' = [loads EXCEPT ![g] = [at |-> "stat0", read |-> NoSkill]]
    /\ UNCHANGED <<dirs, install, changes, reports, cached, watcher, sent, closing>>

StatAt == <<"stat0", "stat1", "stat2", "manifest">>

LastFound(read, l) == [read EXCEPT !.level = l, !.manifest = 1]

Stat(g) ==
    \E l \in Levels :
        /\ loads[g].at = StatAt[l + 1]
        /\ loads' = [loads EXCEPT ![g].at = StatAt[l + 2],
                                  ![g].read = IF dirs[l].manifest # 0
                                              THEN LastFound(loads[g].read, l)
                                              ELSE loads[g].read]
        /\ UNCHANGED <<dirs, install, changes, reports, cached, watcher, sent, closing>>

Gone(g) == loads' = [loads EXCEPT ![g] = [at |-> "idle", read |-> NoSkill]]

(* Not found, gone since, or not valid: an error, and nothing is cached.    *)
ReadManifest(g) ==
    LET found == dirs[loads[g].read.level]
    IN  /\ loads[g].at = "manifest"
        /\ IF loads[g].read.manifest = 0 \/ found.manifest = 0 \/ ~found.valid
           THEN Gone(g)
           ELSE loads' = [loads EXCEPT ![g].at = "prompt", ![g].read.manifest = found.manifest]
        /\ UNCHANGED <<dirs, install, changes, reports, cached, watcher, sent, closing>>

ReadPrompt(g) ==
    /\ loads[g].at = "prompt"
    /\ loads' = [loads EXCEPT ![g].at = "fill",
                              ![g].read.prompt = dirs[loads[g].read.level].prompt]
    /\ UNCHANGED <<dirs, install, changes, reports, cached, watcher, sent, closing>>

Fill(g) ==
    /\ loads[g].at = "fill"
    /\ cached' = loads[g].read
    /\ Gone(g)
    /\ UNCHANGED <<dirs, install, changes, reports, watcher, sent, closing>>

-----------------------------------------------------------------------------
(* The watcher: Start, then one report at a time: the cached skill goes,    *)
(* and whoever reads Changes is told unless the channel is full.            *)
StartWatching ==
    /\ watcher = "new"
    /\ watcher' = "wait"
    /\ UNCHANGED <<dirs, install, changes, reports, cached, loads, sent, closing>>

(* The variant: only new directories are heeded.                            *)
CreateOnly == {"create"}

Heeded == {"create", "remove"}

(* detectSkillName, InvalidateCache: a Load under way may have read what was *)
(* there before the change, and its skill will not be dropped any more.     *)
Dropped ==
    /\ cached' = NoSkill
    /\ loads' = [g \in Loaders |->
                    [loads[g] EXCEPT !.read.missed = loads[g].at # "idle"]]

HandleEvent ==
    /\ watcher = "wait"
    /\ reports # <<>>
    /\ reports' = Tail(reports)
    /\ \/ /\ Head(reports).op \in Heeded /\ Head(reports).level \notin Misnamed
          /\ Dropped /\ watcher' = "tell"
       \/ /\ Head(reports).op \in Heeded /\ Head(reports).level \in Misnamed
          /\ watcher' \in {"wait", "tell"}    \* no name, or another skill's
          /\ UNCHANGED <<cached, loads>>
       \/ /\ Head(reports).op \notin Heeded
          /\ UNCHANGED <<cached, loads, watcher>>
    /\ UNCHANGED <<dirs, install, changes, sent, closing>>

Tell ==
    /\ watcher = "tell"
    /\ watcher' = IF closing = "closed" THEN "panicked" ELSE "wait"
    /\ sent' = IF sent < ChangesSize THEN sent + 1 ELSE sent
    /\ UNCHANGED <<dirs, install, changes, reports, cached, loads, closing>>

WatcherEnds ==
    /\ watcher = "wait"
    /\ closing # "no"
    /\ watcher' = "done"
    /\ UNCHANGED <<dirs, install, changes, reports, cached, loads, sent, closing>>

(* Close: fsnotify's Close, after which nothing is reported; the wait for   *)
(* the goroutine, if Start was called; close(Changes).                      *)
CloseWatcher ==
    /\ closing = "no"
    /\ closing' = "wait"
    /\ reports' = <<>>
    /\ UNCHANGED <<dirs, install, changes, cached, loads, watcher, sent>>

(* The variant: Close does not wait for the goroutine.                      *)
AnyTime == TRUE

GoroutineEnded == watcher \in {"new", "done"}

CloseChanges ==
    /\ closing = "wait"
    /\ GoroutineEnded
    /\ closing' = "closed"
    /\ UNCHANGED <<dirs, install, changes, reports, cached, loads, watcher, sent>>

-----------------------------------------------------------------------------
LoadStep(g) == Stat(g) \/ ReadManifest(g) \/ ReadPrompt(g) \/ Fill(g)

SkillNext ==
    \/ \E l \in Levels : RemoveTarget(l) \/ RemoveFails(l) \/ Uninstall(l) \/ Edit(l)
    \/ MakeDir \/ CopyPrompt \/ CopyManifest \/ InstallFails
    \/ \E g \in Loaders : Load(g) \/ LoadStep(g)
    \/ StartWatching \/ HandleEvent \/ Tell \/ WatcherEnds \/ CloseWatcher \/ CloseChanges

SkillSpec == SkillInit /\ [][SkillNext]_skillVars

-----------------------------------------------------------------------------
SkillTypeOK ==
    /\ \A l \in Levels : dirs[l].manifest \in 0 .. changes /\ dirs[l].prompt \in 0 .. changes
    /\ install.level \in Levels
    /\ changes \in 0 .. MaxChanges
    /\ Len(reports) <= MaxReports
    /\ cached.level \in Levels
    /\ watcher \in {"new", "wait", "tell", "done", "panicked"}
    /\ sent \in 0 .. ChangesSize
    /\ closing \in {"no", "wait", "closed"}

(* What Load would find now: the highest level that has a manifest.         *)
Present == {l \in Levels : dirs[l].manifest # 0}

Found ==
    IF Present = {} THEN [NoSkill EXCEPT !.missed = cached.missed]
    ELSE LET l == Max(Present)
         IN  [level |-> l, manifest |-> dirs[l].manifest, prompt |-> dirs[l].prompt,
              missed |-> cached.missed]

(* A change that is reported is never lost on the cache: as soon as the     *)
(* watcher has handled the reports a cached skill is the one on disk, of    *)
(* the highest level that has it, also when the change fell into its Load   *)
(* or into an installation; but for a change of a file in a directory that  *)
(* stays, for a report the name was not found in, and for a Load that was   *)
(* overtaken by the watcher (watcher.go:70, loader.go:161).                 *)
WatcherCaughtUp == watcher = "wait" /\ closing = "no" /\ reports = <<>>

CacheIsCurrent ==
    WatcherCaughtUp /\ cached # NoSkill /\ ~cached.missed => cached = Found

(* Not so: with a watcher, any cached skill is the one on disk.             *)
CacheFollowsFiles == WatcherCaughtUp /\ cached # NoSkill => cached = Found

(* The watcher never sends on Changes after Close has closed it, whichever  *)
(* of Start, Close and a report comes first (watcher.go:90, 112).           *)
ChangesOpenWhileTold == watcher # "panicked"

(* What Discover lists: the highest level with a manifest that is valid.    *)
Discovered == {l \in Levels : dirs[l].manifest # 0 /\ dirs[l].valid}

(* Not so: what is listed can be loaded.  An invalid manifest hides the     *)
(* valid one below it from Load and not from Discover.                      *)
ListedIsLoadable == Discovered # {} => dirs[Max(Present)].valid
=============================================================================
