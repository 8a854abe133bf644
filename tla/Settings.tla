------------------------------ MODULE Settings ------------------------------
(***************************************************************************)
(* The configuration of internal/config/config.go between those who use    *)
(* it: the web UI's requests (internal/webui/server.go), each a goroutine  *)
(* that changes the one Config of the agent and saves it, without a lock;  *)
(* import-key, a process of its own; and the agent's start and shutdown    *)
(* (cmd/torsync/main.go).                                                  *)
(*                                                                         *)
(* A Config is reduced to its key, how often each path is among its sync   *)
(* directories, and whether it has the control server's URL.  Reading a    *)
(* field, and assigning it, is one step each: the words of a slice header  *)
(* are not torn apart.                                                     *)
(***************************************************************************)
EXTENDS Naturals

CONSTANTS
  Request,     \* the requests that the web UI can have in progress at a time
  Dir,         \* paths of sync directories
  Key,         \* node keys that can be imported
  NoKey,       \* no key: the free tier
  Empty,       \* a file that was truncated
  Garbled,     \* a file with the end of one text behind another
  First,       \* the configuration that the node is set up with
  MaxForms,    \* bound: forms that are sent
  MaxImports,  \* bound: imports
  MaxCrashes   \* bound: crashes of the agent and of import-key

Dirs   == [Dir -> Nat]
Config == [key : Key \cup {NoKey}, dirs : Dirs, url : BOOLEAN]

ASSUME SettingsAssumption ==
  /\ NoKey \notin Key
  /\ Empty \notin Config /\ Garbled \notin Config
  /\ First \in Config
  /\ MaxForms \in Nat /\ MaxImports \in Nat /\ MaxCrashes \in Nat

VARIABLES
  file,     \* what config.yaml holds
  cfg,      \* the agent's Config
  agent,    \* "down", "up", or "stopping": in httpSrv.Shutdown
  free,     \* lc.IsFree(), settled at the start
  form,     \* form[r]: where request r is
  importer, \* where import-key is
  started,  \* history: the sync directories at the start
  clean,    \* history: since the start no two overlapped and no save failed
  sure,     \* history: the key last imported, if no agent ran meanwhile
  forms, imports, crashes  \* so far

vars == <<file, cfg, agent, free, form, importer, started, clean, sure, forms,
          imports, crashes>>

\* No request; its form is being read, which takes as long as the client lets it:
\* the http.Server has no ReadTimeout; with a path that has been checked; with
\* the sync_dirs it is about to assign; before Save; with the text of the Config,
\* before the file is opened; the same, the file truncated; its answer is being
\* written, which takes as long as the client lets it: no WriteTimeout either.
Stage == {"idle", "reading", "checked", "assign", "save", "open", "write", "answer"}
Form  == [stage : Stage, dirs : Dirs, text : Config]

\* alone: no agent has run since the file was loaded.
Importer == [stage : {"idle", "open", "write"}, text : Config, alone : BOOLEAN]

TypeOK ==
  /\ file \in Config \cup {Empty, Garbled} /\ cfg \in Config
  /\ agent \in {"down", "up", "stopping"} /\ free \in BOOLEAN
  /\ form \in [Request -> Form] /\ importer \in Importer
  /\ started \in Dirs /\ clean \in BOOLEAN /\ sure \in Key \cup {NoKey}
  /\ forms \in 0..MaxForms /\ imports \in 0..MaxImports /\ crashes \in 0..MaxCrashes

NoDirs   == [d \in Dir |-> 0]
Waiting  == [stage |-> "idle", dirs |-> NoDirs, text |-> First]
Answer   == [stage |-> "answer", dirs |-> NoDirs, text |-> First]
NotThere == [stage |-> "idle", text |-> First, alone |-> FALSE]

\* The operator has written the file; nothing runs.
Init ==
  /\ file = First /\ cfg = First
  /\ agent = "down" /\ free = TRUE
  /\ form = [r \in Request |-> Waiting] /\ importer = NotThere
  /\ started = NoDirs /\ clean = TRUE /\ sure = NoKey
  /\ forms = 0 /\ imports = 0 /\ crashes = 0

-----------------------------------------------------------------------------
(* Load and Save.                                                          *)

\* Load parses the file and wants a sync directory or a URL.
Loadable(f) == f \in Config /\ (f.dirs # NoDirs \/ f.url)

\* Defaults.
Default == [key |-> NoKey, dirs |-> NoDirs, url |-> FALSE]

\* What writing a text at the start of the file may leave: whoever opened the
\* file has truncated it, but another may have written to it since.
Written(text) == IF file \in {Empty, text} THEN {text} ELSE {text, Garbled}

\* The handler of r has something of the Config in hand.
Busy(r) == form[r].stage \notin {"idle", "reading", "answer"}

\* None but r has.
AloneIn(r) == /\ \A q \in Request \ {r} : ~Busy(q)
              /\ importer.stage = "idle"

-----------------------------------------------------------------------------
(* The web UI's handlers.                                                  *)

\* A connection becomes active: with a form, or for a page.  Shutdown closes the
\* listener, so no request comes to an agent that is stopping.
Arrive(r) ==
  /\ agent = "up" /\ form[r].stage = "idle"
  /\ forms < MaxForms /\ forms' = forms + 1
  /\ form' = [form EXCEPT ![r].stage = "reading"]
  /\ UNCHANGED <<file, cfg, agent, free, importer, started, clean, sure, imports, crashes>>

\* What no step of a handler touches.
Inside == UNCHANGED <<agent, free, importer, started, sure, forms, imports, crashes>>

\* A page; or a form that cannot be read, is refused, or whose directory cannot be
\* made: nothing changes.
Refused(r) ==
  /\ form[r].stage = "reading"
  /\ form' = [form EXCEPT ![r] = Answer]
  /\ UNCHANGED <<file, cfg, clean>> /\ Inside

\* The client has taken the answer, or is gone.
Answered(r) ==
  /\ form[r].stage = "answer"
  /\ form' = [form EXCEPT ![r] = Waiting]
  /\ UNCHANGED <<file, cfg, clean>> /\ Inside

\* The form has been read, by an agent that may be stopping by now.
Begin(r) ==
  /\ form[r].stage = "reading"
  /\ clean' = (clean /\ AloneIn(r))
  /\ UNCHANGED file /\ Inside

\* Slip: a second directory is let in.
AllowedOneMore(d) == /\ free => \E e \in Dir : \A c \in Dir \ {e} : cfg.dirs[c] = 0
                     /\ cfg.dirs[d] = 0

\* The limit of the free tier, and no duplicates.
Allowed(d) == (free => cfg.dirs = NoDirs) /\ cfg.dirs[d] = 0

\* handleAddSyncDir up to MkdirAll.
AddSyncDir(r) == \E d \in Dir :
  /\ Begin(r)
  /\ Allowed(d)
  /\ form' = [form EXCEPT ![r].stage = "checked", ![r].dirs = [NoDirs EXCEPT ![d] = 1]]
  /\ UNCHANGED cfg

\* append, on what sync_dirs is by now.
AppendDir(r) ==
  /\ form[r].stage = "checked"
  /\ form' = [form EXCEPT ![r].stage = "assign",
                          ![r].dirs = [d \in Dir |-> cfg.dirs[d] + form[r].dirs[d]]]
  /\ UNCHANGED <<file, cfg, clean>> /\ Inside

\* Slip: one occurrence is taken out, whether there is one or not.
KeptOneLess(d) == [cfg.dirs EXCEPT ![d] = @ - 1]

\* What handleRemoveSyncDir keeps of sync_dirs.
Kept(d) == [cfg.dirs EXCEPT ![d] = 0]

\* handleRemoveSyncDir up to the assignment.
RemoveSyncDir(r) == \E d \in Dir :
  /\ Begin(r)
  /\ form' = [form EXCEPT ![r].stage = "assign", ![r].dirs = Kept(d)]
  /\ UNCHANGED cfg

\* Slip: the handler redirects without a Save.
AssignUnsaved(r) ==
  /\ form[r].stage = "assign"
  /\ cfg' = [cfg EXCEPT !.dirs = form[r].dirs]
  /\ form' = [form EXCEPT ![r] = Answer]
  /\ UNCHANGED <<file, clean>> /\ Inside

\* Slip: a request assigns when it is the only one, as if each held a lock.
AssignAlone(r) ==
  /\ form[r].stage = "assign" /\ AloneIn(r)
  /\ cfg' = [cfg EXCEPT !.dirs = form[r].dirs]
  /\ form' = [form EXCEPT ![r] = [Waiting EXCEPT !.stage = "save"]]
  /\ UNCHANGED <<file, clean>> /\ Inside

\* What was appended to or kept is assigned, whatever sync_dirs is by now.
AssignDirs(r) ==
  /\ form[r].stage = "assign"
  /\ cfg' = [cfg EXCEPT !.dirs = form[r].dirs]
  /\ form' = [form EXCEPT ![r] = [Waiting EXCEPT !.stage = "save"]]
  /\ UNCHANGED <<file, clean>> /\ Inside

\* A URL in the form is assigned before the passwords are compared: a rejected
\* form leaves it changed, and is not saved.
SaveSettings(r) == \E rejected \in BOOLEAN :
  /\ Begin(r)
  /\ cfg' \in {cfg, [cfg EXCEPT !.url = TRUE]}
  /\ form' = [form EXCEPT ![r].stage = IF rejected THEN "answer" ELSE "save"]

\* Slip: the key is not among the fields of the text.
TextKeyless == [cfg EXCEPT !.key = NoKey]

\* yaml.Marshal of the Config.
Text == cfg

Marshal(r) ==
  /\ form[r].stage = "save"
  /\ form' = [form EXCEPT ![r].stage = "open", ![r].text = Text]
  /\ UNCHANGED <<file, cfg, clean>> /\ Inside

\* os.WriteFile truncates the file.
OpenFile(r) ==
  /\ form[r].stage = "open"
  /\ file' = Empty
  /\ form' = [form EXCEPT ![r].stage = "write"]
  /\ UNCHANGED <<cfg, clean>> /\ Inside

WriteFile(r) ==
  /\ form[r].stage = "write"
  /\ file' \in Written(form[r].text)
  /\ form' = [form EXCEPT ![r] = Answer]
  /\ UNCHANGED <<cfg, clean>> /\ Inside

\* The file cannot be opened, or written.
SaveFails(r) ==
  /\ form[r].stage \in {"save", "open", "write"}
  /\ form' = [form EXCEPT ![r] = Answer]
  /\ clean' = FALSE
  /\ UNCHANGED <<file, cfg>> /\ Inside

-----------------------------------------------------------------------------
(* import-key.                                                             *)

\* A file that cannot be loaded is replaced by the defaults.
ImportKey(k) ==
  /\ importer.stage = "idle"
  /\ imports < MaxImports /\ imports' = imports + 1
  /\ importer' = [stage |-> "open", alone |-> agent = "down",
                  text |-> [(IF Loadable(file) THEN file ELSE Default) EXCEPT !.key = k]]
  /\ clean' = (clean /\ \A r \in Request : ~Busy(r))
  /\ sure' = NoKey
  /\ UNCHANGED <<file, cfg, agent, free, form, started, forms, crashes>>

ImportOpens ==
  /\ importer.stage = "open"
  /\ file' = Empty
  /\ importer' = [importer EXCEPT !.stage = "write"]
  /\ UNCHANGED <<cfg, agent, free, form, started, clean, sure, forms, imports, crashes>>

ImportWrites ==
  /\ importer.stage = "write"
  /\ file' \in Written(importer.text)
  /\ importer' = NotThere
  /\ sure' = IF importer.alone THEN importer.text.key ELSE NoKey
  /\ UNCHANGED <<cfg, agent, free, form, started, clean, forms, imports, crashes>>

\* It is stopped, or log.Fatalf: the file cannot be opened or written.
ImportEnds ==
  /\ importer.stage # "idle"
  /\ crashes < MaxCrashes /\ crashes' = crashes + 1
  /\ importer' = NotThere
  /\ clean' = (clean /\ importer.stage # "write")
  /\ UNCHANGED <<file, cfg, agent, free, form, started, sure, forms, imports>>

-----------------------------------------------------------------------------
(* cmdStart.                                                               *)

\* A key wants a URL (license.Client.Start); whether the licence is active is
\* License's matter.  There has to be a sync directory.
Start ==
  /\ agent = "down"
  /\ Loadable(file) /\ file.dirs # NoDirs
  /\ file.key # NoKey => file.url
  /\ agent' = "up" /\ cfg' = file /\ free' = (file.key = NoKey)
  /\ importer' = [importer EXCEPT !.alone = FALSE]
  /\ started' = file.dirs /\ clean' = (importer.stage = "idle")
  /\ UNCHANGED <<file, form, sure, forms, imports, crashes>>

\* The deferred calls run, httpSrv.Shutdown first: no connection is taken any more.
Stop ==
  /\ agent = "up"
  /\ agent' = "stopping"
  /\ UNCHANGED <<file, cfg, free, form, importer, started, clean, sure, forms,
                 imports, crashes>>

\* Slip: the process ends without waiting for the requests.
DrainedAtOnce == TRUE

\* Shutdown(context.Background()) returns when no connection is active: it waits
\* for a form that is still being read, and for an answer that is not taken, too.
Drained == \A r \in Request : form[r].stage = "idle"

Stopped ==
  /\ agent = "stopping" /\ Drained
  /\ agent' = "down"
  /\ form' = [r \in Request |-> Waiting]
  /\ UNCHANGED <<file, cfg, free, importer, started, clean, sure, forms,
                 imports, crashes>>

\* A crash; the free tier's node limit (log.Fatalf, main.go:264); the heartbeat
\* loop of an agent that has no heartbeat client (syncer.go:353).
Crash ==
  /\ agent # "down"
  /\ crashes < MaxCrashes /\ crashes' = crashes + 1
  /\ agent' = "down"
  /\ form' = [r \in Request |-> Waiting]
  /\ clean' = (clean /\ \A r \in Request : form[r].stage # "write")
  /\ UNCHANGED <<file, cfg, free, importer, started, sure, forms, imports>>

-----------------------------------------------------------------------------
HandlerStep(r) == \/ AppendDir(r) \/ AssignDirs(r) \/ Marshal(r)
                  \/ OpenFile(r) \/ WriteFile(r) \/ SaveFails(r)

Next == \/ \E r \in Request : \/ Arrive(r) \/ Refused(r) \/ Answered(r)
                              \/ AddSyncDir(r) \/ RemoveSyncDir(r) \/ SaveSettings(r)
                              \/ HandlerStep(r)
        \/ \E k \in Key : ImportKey(k)
        \/ ImportOpens \/ ImportWrites \/ ImportEnds
        \/ Start \/ Stop \/ Stopped \/ Crash

Spec == Init /\ [][Next]_vars

\* A handler that has its form goes on up to the answer, and Shutdown returns.  No
\* client owes the rest of a form, or to take an answer; nobody owes a start or an
\* import.
Fairness == /\ \A r \in Request : WF_vars(HandlerStep(r))
            /\ WF_vars(Stopped)

FairSpec == Spec /\ Fairness

-----------------------------------------------------------------------------
Quiet == importer.stage = "idle" /\ \A r \in Request : ~Busy(r)

AtMostOne(dirs) ==
  \A d, e \in Dir : dirs[d] > 0 /\ dirs[e] > 0 => d = e /\ dirs[d] = 1

\* "Free tier: only 1 sync dir allowed" (server.go:219): as long as forms do not
\* overlap, the web UI takes an agent without a key to no second directory, and
\* to none beyond what its file had at the start.
FreeTierLimit ==
  agent # "down" /\ free /\ clean =>
    AtMostOne(cfg.dirs) \/ \A d \in Dir : cfg.dirs[d] <= started[d]

\* The sync directories of the settings page are those the next start loads: while
\* no handler is at work and no import, the file lists those of the agent, whatever
\* was added, removed, rejected or imported, unless two overlapped or a save failed.
SavedWhenQuiet ==
  agent # "down" /\ clean /\ Quiet => file \in Config /\ file.dirs = cfg.dirs

\* A key that is imported while no agent runs stays in the file, whatever agent
\* is started, stopped or crashes later: no save of an earlier Config is left.
ImportedKeyKept ==
  sure # NoKey /\ file \in Config => file.key = sure

\* A shutdown leaves no half-written file: only a crash in the middle of the
\* write, a failed one, or two that overlap do.
WholeAtRest ==
  clean /\ file \in {Empty, Garbled} =>
    importer.stage = "write" \/ \E r \in Request : form[r].stage = "write"

\* Nothing of the agent's own keeps it from ending on a signal, whatever saves are
\* under way and however they overlap: unless a client leaves a form half sent, or
\* an answer untaken, for good (nothing of main.go:338-345 times that out), the
\* agent ends.
StopEnds ==
  (\A r \in Request : []<>(form[r].stage \notin {"reading", "answer"})) =>
    (agent = "stopping" ~> agent = "down")
=============================================================================
