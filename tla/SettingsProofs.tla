--------------------------- MODULE SettingsProofs ---------------------------
(***************************************************************************)
(* Theorems about Settings, for every set of requests, directories and     *)
(* keys, and every number of forms, imports and crashes.                   *)
(***************************************************************************)
EXTENDS Settings, TLAPS

\* What has no constant in it.
LEMMA Texts ==
  /\ NoDirs \in Dirs /\ Default \in Config /\ First \in Config
  /\ Waiting \in Form /\ Answer \in Form /\ NotThere \in Importer
  /\ Waiting.stage = "idle" /\ Answer.stage = "answer" /\ NotThere.stage = "idle"
BY SettingsAssumption DEF NoDirs, Dirs, Default, Config, Waiting, Answer, Form, NotThere,
   Importer, Stage

LEMMA InitType == Init => TypeOK
BY SettingsAssumption, Texts DEF Init, TypeOK, Config

LEMMA StageType ==
  ASSUME NEW f \in Form, NEW st \in Stage
  PROVE  [f EXCEPT !.stage = st] \in Form
BY DEF Form

LEMMA FormType ==
  ASSUME NEW f \in Form, NEW st \in Stage, NEW ds \in Dirs, NEW tx \in Config
  PROVE  /\ [f EXCEPT !.stage = st, !.dirs = ds] \in Form
         /\ [f EXCEPT !.stage = st, !.text = tx] \in Form
BY DEF Form

\* One request moves on.
LEMMA FormChange ==
  ASSUME form \in [Request -> Form], NEW r \in Request, NEW f \in Form
  PROVE  [form EXCEPT ![r] = f] \in [Request -> Form]
OBVIOUS

LEMMA WrittenType ==
  ASSUME NEW text \in Config, NEW x \in Written(text)
  PROVE  x = text \/ x = Garbled
BY DEF Written

LEMMA TypeStep ==
  ASSUME TypeOK, [Next]_vars
  PROVE  TypeOK'
<1> USE DEF TypeOK
<1>a. \A r \in Request : form[r] \in Form /\ form[r].dirs \in Dirs /\ form[r].text \in Config
  BY DEF Form
<1>b. cfg.dirs \in Dirs /\ cfg.key \in Key \cup {NoKey}
  BY DEF Config
<1>c. \A r \in Request : Begin(r) => clean' \in BOOLEAN
  BY DEF Begin
<1>0. ASSUME NEW r \in Request, Arrive(r) \/ Refused(r) \/ Answered(r) PROVE TypeOK'
  <2>1. [form[r] EXCEPT !.stage = "reading"] \in Form
    BY <1>a, StageType DEF Stage
  <2>2. form' \in [Request -> Form]
    BY <1>0, <2>1, Texts, FormChange DEF Arrive, Refused, Answered
  <2>3. forms' \in 0..MaxForms
    BY <1>0, SettingsAssumption DEF Arrive, Refused, Answered, Inside
  <2>4. QED
    BY <1>0, <2>2, <2>3 DEF Arrive, Refused, Answered, Inside
<1>1. ASSUME NEW r \in Request, AddSyncDir(r) PROVE TypeOK'
  <2>1. PICK d \in Dir : form' = [form EXCEPT ![r].stage = "checked",
                                  ![r].dirs = [NoDirs EXCEPT ![d] = 1]]
    BY <1>1 DEF AddSyncDir
  <2>2. [NoDirs EXCEPT ![d] = 1] \in Dirs
    BY DEF NoDirs, Dirs
  <2>3. form' = [form EXCEPT ![r] = [form[r] EXCEPT !.stage = "checked",
                                     !.dirs = [NoDirs EXCEPT ![d] = 1]]]
    BY <2>1
  <2>4. form' \in [Request -> Form]
    BY <1>a, <2>2, <2>3, FormType, FormChange DEF Stage
  <2>5. QED
    BY <1>1, <1>c, <2>4 DEF AddSyncDir, Begin, Inside
<1>2. ASSUME NEW r \in Request, RemoveSyncDir(r) PROVE TypeOK'
  <2>1. PICK d \in Dir : form' = [form EXCEPT ![r].stage = "assign", ![r].dirs = Kept(d)]
    BY <1>2 DEF RemoveSyncDir
  <2>2. Kept(d) \in Dirs
    BY <1>b DEF Kept, Dirs
  <2>3. form' = [form EXCEPT ![r] = [form[r] EXCEPT !.stage = "assign", !.dirs = Kept(d)]]
    BY <2>1
  <2>4. form' \in [Request -> Form]
    BY <1>a, <2>2, <2>3, FormType, FormChange DEF Stage
  <2>5. QED
    BY <1>2, <1>c, <2>4 DEF RemoveSyncDir, Begin, Inside
<1>3. ASSUME NEW r \in Request, SaveSettings(r) PROVE TypeOK'
  <2>1. cfg' \in Config
    BY <1>3 DEF SaveSettings, Config
  <2>2. PICK st \in {"answer", "save"} :
          form' = [form EXCEPT ![r] = [form[r] EXCEPT !.stage = st]]
    BY <1>3 DEF SaveSettings
  <2>3. [form[r] EXCEPT !.stage = st] \in Form
    BY <1>a, StageType DEF Stage
  <2>4. form' \in [Request -> Form]
    BY <2>2, <2>3, FormChange
  <2>5. QED
    BY <1>3, <1>c, <2>1, <2>4 DEF SaveSettings, Begin, Inside
<1>4. ASSUME NEW r \in Request, AppendDir(r) PROVE TypeOK'
  <2> DEFINE ds == [d \in Dir |-> cfg.dirs[d] + form[r].dirs[d]]
  <2>1. form' = [form EXCEPT ![r] = [form[r] EXCEPT !.stage = "assign", !.dirs = ds]]
    BY <1>4 DEF AppendDir
  <2>2. ds \in Dirs
    BY <1>a, <1>b DEF Dirs
  <2> HIDE DEF ds
  <2>3. form' \in [Request -> Form]
    BY <1>a, <2>1, <2>2, FormType, FormChange DEF Stage
  <2>4. QED
    BY <1>4, <2>3 DEF AppendDir, Inside
<1>5. ASSUME NEW r \in Request, AssignDirs(r) PROVE TypeOK'
  <2>1. cfg' \in Config
    BY <1>5, <1>a DEF AssignDirs, Config
  <2>2. [Waiting EXCEPT !.stage = "save"] \in Form
    BY Texts, StageType DEF Stage
  <2>3. form' \in [Request -> Form]
    BY <1>5, <2>2, FormChange DEF AssignDirs
  <2>4. QED
    BY <1>5, <2>1, <2>3 DEF AssignDirs, Inside
<1>6. ASSUME NEW r \in Request, Marshal(r) PROVE TypeOK'
  <2>1. form' = [form EXCEPT ![r] = [form[r] EXCEPT !.stage = "open", !.text = Text]]
    BY <1>6 DEF Marshal
  <2>2. form' \in [Request -> Form]
    BY <1>a, <2>1, FormType, FormChange DEF Stage, Text
  <2>3. QED
    BY <1>6, <2>2 DEF Marshal, Inside
<1>7. ASSUME NEW r \in Request, OpenFile(r) PROVE TypeOK'
  <2>1. form' = [form EXCEPT ![r] = [form[r] EXCEPT !.stage = "write"]]
    BY <1>7 DEF OpenFile
  <2>2. form' \in [Request -> Form]
    BY <1>a, <2>1, StageType, FormChange DEF Stage
  <2>3. QED
    BY <1>7, <2>2 DEF OpenFile, Inside
<1>8. ASSUME NEW r \in Request, WriteFile(r) \/ SaveFails(r) PROVE TypeOK'
  <2>1. form' \in [Request -> Form]
    BY <1>8, Texts, FormChange DEF WriteFile, SaveFails
  <2>2. file' \in Config \cup {Empty, Garbled}
    BY <1>8, <1>a, WrittenType DEF WriteFile, SaveFails
  <2>3. clean' \in BOOLEAN
    BY <1>8 DEF WriteFile, SaveFails
  <2>4. QED
    BY <1>8, <2>1, <2>2, <2>3 DEF WriteFile, SaveFails, Inside
<1>9. ASSUME NEW k \in Key, ImportKey(k) PROVE TypeOK'
  <2>1. (IF Loadable(file) THEN file ELSE Default) \in Config
    BY Texts DEF Loadable
  <2>2. [(IF Loadable(file) THEN file ELSE Default) EXCEPT !.key = k] \in Config
    BY <2>1 DEF Config
  <2>3. importer' \in Importer
    BY <1>9, <2>2 DEF ImportKey, Importer
  <2>4. clean' \in BOOLEAN
    BY <1>9 DEF ImportKey
  <2>5. QED
    BY <1>9, <2>3, <2>4, SettingsAssumption DEF ImportKey
<1>10. CASE ImportOpens
  BY <1>10 DEF ImportOpens, Importer
<1>11. CASE ImportWrites
  <2>1. importer.text \in Config
    BY DEF Importer
  <2>2. file' \in Config \cup {Empty, Garbled} /\ sure' \in Key \cup {NoKey}
    BY <1>11, <2>1, WrittenType DEF ImportWrites, Config
  <2>3. QED
    BY <1>11, <2>2, Texts DEF ImportWrites
<1>12. CASE ImportEnds
  <2>1. clean' \in BOOLEAN
    BY <1>12 DEF ImportEnds
  <2>2. QED
    BY <1>12, <2>1, Texts, SettingsAssumption DEF ImportEnds
<1>13. CASE Start
  <2>1. file \in Config /\ file.dirs \in Dirs
    BY <1>13 DEF Start, Loadable, Config
  <2>2. free' \in BOOLEAN /\ clean' \in BOOLEAN
    BY <1>13 DEF Start
  <2>3. importer' \in Importer
    BY <1>13 DEF Start, Importer
  <2>4. QED
    BY <1>13, <2>1, <2>2, <2>3 DEF Start
<1>14. CASE Stop
  BY <1>14 DEF Stop
<1>15. CASE Stopped
  BY <1>15, Texts DEF Stopped
<1>16. CASE Crash
  <2>1. clean' \in BOOLEAN
    BY <1>16 DEF Crash
  <2>2. QED
    BY <1>16, <2>1, Texts, SettingsAssumption DEF Crash
<1>17. CASE UNCHANGED vars
  BY <1>17 DEF vars
<1>18. QED
  BY <1>0, <1>1, <1>2, <1>3, <1>4, <1>5, <1>6, <1>7, <1>8, <1>9, <1>10, <1>11, <1>12,
     <1>13, <1>14, <1>15, <1>16, <1>17 DEF Next, HandlerStep

\* Every variable keeps its type: whatever overlaps, the agent's Config and the
\* texts to be written are whole.
THEOREM TypeCorrect == Spec => []TypeOK
BY InitType, TypeStep, PTL DEF Spec

-----------------------------------------------------------------------------
(* What the steps of request r do, request by request.                     *)

Others(r) == \A q \in Request : q # r => form'[q] = form[q]

\* r goes from one stage to another.
Goes(r, from, to) == /\ Others(r)
                     /\ form[r].stage = from /\ form'[r].stage = to

LEMMA OneForm ==
  ASSUME form \in [Request -> Form], NEW r \in Request, NEW f,
         form' = [form EXCEPT ![r] = f]
  PROVE  Others(r) /\ form'[r] = f
BY DEF Others

\* At a request's two ends nothing of the Config is in its hand.
LEMMA EndFacts ==
  ASSUME TypeOK, NEW r \in Request, Arrive(r) \/ Refused(r) \/ Answered(r)
  PROVE  /\ Others(r) /\ ~Busy(r) /\ ~Busy(r)'
         /\ UNCHANGED <<file, cfg, agent, free, importer, started, clean, sure>>
         /\ agent = "up" \/ form[r].stage # "idle"
<1>1. form \in [Request -> Form] /\ form[r] \in Form
  BY DEF TypeOK
<1>2. PICK f : /\ form' = [form EXCEPT ![r] = f]
              /\ f.stage \in {"idle", "reading", "answer"}
  <2>1. [form[r] EXCEPT !.stage = "reading"].stage = "reading"
    BY <1>1 DEF Form
  <2>2. CASE Arrive(r)
    BY <2>1, <2>2 DEF Arrive
  <2>3. CASE Refused(r) \/ Answered(r)
    BY <2>3, Texts DEF Refused, Answered
  <2> QED
    BY <2>2, <2>3
<1>3. Others(r) /\ form'[r] = f
  BY <1>1, <1>2, OneForm
<1>4. ~Busy(r)
  BY DEF Busy, Arrive, Refused, Answered
<1>5. ~Busy(r)'
  BY <1>2, <1>3 DEF Busy
<1> QED
  BY <1>3, <1>4, <1>5 DEF Arrive, Refused, Answered, Inside

LEMMA AddFacts ==
  ASSUME TypeOK, NEW r \in Request, AddSyncDir(r)
  PROVE  /\ Goes(r, "reading", "checked")
         /\ \E d \in Dir : Allowed(d) /\ form'[r].dirs = [NoDirs EXCEPT ![d] = 1]
<1>1. form \in [Request -> Form] /\ form[r] \in Form
  BY DEF TypeOK
<1>2. PICK d \in Dir : /\ Allowed(d)
                      /\ form' = [form EXCEPT ![r] =
                           [form[r] EXCEPT !.stage = "checked",
                                           !.dirs = [NoDirs EXCEPT ![d] = 1]]]
  BY DEF AddSyncDir
<1>3. /\ Others(r)
      /\ form'[r] = [form[r] EXCEPT !.stage = "checked", !.dirs = [NoDirs EXCEPT ![d] = 1]]
  BY <1>1, <1>2, OneForm
<1>4. form'[r].stage = "checked" /\ form'[r].dirs = [NoDirs EXCEPT ![d] = 1]
  BY <1>1, <1>3 DEF Form
<1>5. form[r].stage = "reading"
  BY DEF AddSyncDir, Begin
<1> QED
  BY <1>2, <1>3, <1>4, <1>5 DEF Goes

LEMMA RemoveFacts ==
  ASSUME TypeOK, NEW r \in Request, RemoveSyncDir(r)
  PROVE  /\ Goes(r, "reading", "assign")
         /\ \E d \in Dir : form'[r].dirs = Kept(d)
<1>1. form \in [Request -> Form] /\ form[r] \in Form
  BY DEF TypeOK
<1>2. PICK d \in Dir : form' = [form EXCEPT ![r] =
                          [form[r] EXCEPT !.stage = "assign", !.dirs = Kept(d)]]
  BY DEF RemoveSyncDir
<1>3. Others(r) /\ form'[r] = [form[r] EXCEPT !.stage = "assign", !.dirs = Kept(d)]
  BY <1>1, <1>2, OneForm
<1>4. form'[r].stage = "assign" /\ form'[r].dirs = Kept(d)
  BY <1>1, <1>3 DEF Form
<1>5. form[r].stage = "reading"
  BY DEF RemoveSyncDir, Begin
<1> QED
  BY <1>3, <1>4, <1>5 DEF Goes

LEMMA SettingsFacts ==
  ASSUME TypeOK, NEW r \in Request, SaveSettings(r)
  PROVE  /\ Goes(r, "reading", "save") \/ Goes(r, "reading", "answer")
         /\ cfg'.key = cfg.key /\ cfg'.dirs = cfg.dirs
<1>1. form \in [Request -> Form] /\ form[r] \in Form /\ cfg \in Config
  BY DEF TypeOK
<1>2. PICK st \in {"answer", "save"} :
        form' = [form EXCEPT ![r] = [form[r] EXCEPT !.stage = st]]
  BY DEF SaveSettings
<1>3. form[r].stage = "reading"
  BY DEF SaveSettings, Begin
<1>4. cfg'.key = cfg.key /\ cfg'.dirs = cfg.dirs
  BY <1>1 DEF SaveSettings, Config
<1>5. Others(r) /\ form'[r] = [form[r] EXCEPT !.stage = st]
  BY <1>1, <1>2, OneForm
<1>6. form'[r].stage = st
  BY <1>1, <1>5 DEF Form
<1> QED
  BY <1>3, <1>4, <1>5, <1>6 DEF Goes

LEMMA AppendFacts ==
  ASSUME TypeOK, NEW r \in Request, AppendDir(r)
  PROVE  /\ Goes(r, "checked", "assign")
         /\ form'[r].dirs = [d \in Dir |-> cfg.dirs[d] + form[r].dirs[d]]
<1>1. form \in [Request -> Form] /\ form[r] \in Form
  BY DEF TypeOK
<1>2. form' = [form EXCEPT ![r] = [form[r] EXCEPT !.stage = "assign",
                 !.dirs = [d \in Dir |-> cfg.dirs[d] + form[r].dirs[d]]]]
  BY DEF AppendDir
<1>3. /\ Others(r)
      /\ form'[r] = [form[r] EXCEPT !.stage = "assign",
                       !.dirs = [d \in Dir |-> cfg.dirs[d] + form[r].dirs[d]]]
  BY <1>1, <1>2, OneForm
<1> QED
  BY <1>1, <1>3 DEF Goes, Form, AppendDir

LEMMA AssignFacts ==
  ASSUME TypeOK, NEW r \in Request, AssignDirs(r)
  PROVE  /\ Goes(r, "assign", "save")
         /\ cfg'.key = cfg.key /\ cfg'.dirs = form[r].dirs
<1>1. form \in [Request -> Form] /\ cfg \in Config
  BY DEF TypeOK
<1>2. cfg'.key = cfg.key /\ cfg'.dirs = form[r].dirs
  BY <1>1 DEF AssignDirs, Config
<1>3. Others(r) /\ form'[r] = [Waiting EXCEPT !.stage = "save"]
  BY <1>1, OneForm DEF AssignDirs
<1> QED
  BY <1>2, <1>3 DEF Goes, AssignDirs, Waiting

LEMMA MarshalFacts ==
  ASSUME TypeOK, NEW r \in Request, Marshal(r)
  PROVE  Goes(r, "save", "open") /\ form'[r].text = cfg
<1>1. form \in [Request -> Form] /\ form[r] \in Form
  BY DEF TypeOK
<1>2. Others(r) /\ form'[r] = [form[r] EXCEPT !.stage = "open", !.text = cfg]
  <2>1. form' = [form EXCEPT ![r].stage = "open", ![r].text = cfg]
    BY DEF Marshal, Text
  <2> QED
    BY <1>1, <2>1 DEF Others
<1> QED
  BY <1>1, <1>2 DEF Goes, Form, Marshal

LEMMA OpenFacts ==
  ASSUME TypeOK, NEW r \in Request, OpenFile(r)
  PROVE  Goes(r, "open", "write") /\ form'[r].text = form[r].text
<1>1. form \in [Request -> Form] /\ form[r] \in Form
  BY DEF TypeOK
<1>2. Others(r) /\ form'[r] = [form[r] EXCEPT !.stage = "write"]
  BY <1>1, OneForm DEF OpenFile
<1> QED
  BY <1>1, <1>2 DEF Goes, Form, OpenFile

LEMMA WriteFacts ==
  ASSUME TypeOK, NEW r \in Request, WriteFile(r)
  PROVE  /\ Goes(r, "write", "answer")
         /\ file' = form[r].text \/ file' = Garbled
         /\ file = Empty => file' = form[r].text
<1>1. Others(r) /\ form'[r] = Answer
  BY OneForm DEF WriteFile, TypeOK
<1>2. file' \in Written(form[r].text)
  BY DEF WriteFile
<1> QED
  BY <1>1, <1>2, Texts DEF Goes, WriteFile, Written

LEMMA FailFacts ==
  ASSUME TypeOK, NEW r \in Request, SaveFails(r)
  PROVE  Others(r) /\ form'[r].stage = "answer"
BY OneForm, Texts DEF SaveFails, TypeOK

\* import-key has written its text, or left it behind another's.
LEMMA ImportFacts ==
  ASSUME TypeOK, ImportWrites
  PROVE  /\ file' = importer.text \/ file' = Garbled
         /\ file = Empty => file' = importer.text
BY DEF ImportWrites, Written

-----------------------------------------------------------------------------
(* Who can be in progress together.                                        *)

\* Requests need an agent, a lone import that there is none, and the key is
\* sure only once the import is over.
AgentInv ==
  /\ agent = "down" => \A r \in Request : form[r].stage = "idle"
  /\ importer.alone => agent = "down"
  /\ sure # NoKey => importer.stage = "idle"

\* Since nothing has overlapped, what is in progress is so alone.
AloneInv == clean => \A r \in Request : Busy(r) => AloneIn(r)

\* Every request that takes a step belongs to a running agent, and its handler was
\* at work, or is alone in beginning, or has nothing in hand.
LEMMA FormMoves ==
  ASSUME TypeOK, NEW r \in Request,
         \/ Arrive(r) \/ Refused(r) \/ Answered(r)
         \/ AddSyncDir(r) \/ RemoveSyncDir(r) \/ SaveSettings(r) \/ HandlerStep(r)
  PROVE  /\ Others(r)
         /\ UNCHANGED <<agent, importer, sure>>
         /\ agent = "up" \/ form[r].stage # "idle"
         /\ clean' => clean /\ (Busy(r) \/ AloneIn(r) \/ ~Busy(r)')
<1>0. CASE Arrive(r) \/ Refused(r) \/ Answered(r)
  BY <1>0, EndFacts
<1>1. CASE AddSyncDir(r)
  BY <1>1, AddFacts DEF Goes, AddSyncDir, Begin, Inside
<1>2. CASE RemoveSyncDir(r)
  BY <1>2, RemoveFacts DEF Goes, RemoveSyncDir, Begin, Inside
<1>3. CASE SaveSettings(r)
  BY <1>3, SettingsFacts DEF Goes, SaveSettings, Begin, Inside
<1>4. CASE AppendDir(r)
  BY <1>4, AppendFacts DEF Goes, AppendDir, Inside, Busy
<1>5. CASE AssignDirs(r)
  BY <1>5, AssignFacts DEF Goes, AssignDirs, Inside, Busy
<1>6. CASE Marshal(r)
  BY <1>6, MarshalFacts DEF Goes, Marshal, Inside, Busy
<1>7. CASE OpenFile(r)
  BY <1>7, OpenFacts DEF Goes, OpenFile, Inside, Busy
<1>8. CASE WriteFile(r)
  BY <1>8, WriteFacts DEF Goes, WriteFile, Inside, Busy
<1>9. CASE SaveFails(r)
  BY <1>9, FailFacts DEF SaveFails, Inside, Busy
<1> QED
  BY <1>0, <1>1, <1>2, <1>3, <1>4, <1>5, <1>6, <1>7, <1>8, <1>9 DEF HandlerStep

LEMMA AgentStep ==
  ASSUME TypeOK, AgentInv, [Next]_vars
  PROVE  AgentInv'
<1>1. ASSUME NEW r \in Request,
             \/ Arrive(r) \/ Refused(r) \/ Answered(r)
             \/ AddSyncDir(r) \/ RemoveSyncDir(r) \/ SaveSettings(r) \/ HandlerStep(r)
      PROVE  AgentInv'
  <2>1. UNCHANGED <<agent, importer, sure>> /\ agent # "down"
    BY <1>1, FormMoves DEF AgentInv
  <2> QED
    BY <2>1 DEF AgentInv
<1>2. CASE \E k \in Key : ImportKey(k)
  <2>1. sure' = NoKey /\ agent' = agent /\ form' = form
    BY <1>2 DEF ImportKey
  <2>2. ASSUME agent # "down" PROVE importer'.alone = FALSE
    <3>1. PICK t : importer' = [stage |-> "open", alone |-> agent = "down", text |-> t]
      BY <1>2 DEF ImportKey
    <3>2. importer' = [stage |-> "open", alone |-> FALSE, text |-> t]
      BY <2>2, <3>1
    <3> QED
      BY <3>2
  <2> QED
    BY <2>1, <2>2 DEF AgentInv
<1>3. CASE ImportOpens
  <2>1. importer'.alone = importer.alone /\ importer'.stage = "write"
    BY <1>3 DEF ImportOpens, TypeOK, Importer
  <2> QED
    BY <1>3, <2>1 DEF AgentInv, ImportOpens
<1>4. CASE ImportWrites \/ ImportEnds
  BY <1>4 DEF AgentInv, ImportWrites, ImportEnds, NotThere
<1>5. CASE Start
  <2>1. ~importer'.alone /\ importer'.stage = importer.stage
    BY <1>5 DEF Start, TypeOK, Importer
  <2> QED
    BY <1>5, <2>1 DEF AgentInv, Start
<1>6. CASE Stop
  BY <1>6 DEF AgentInv, Stop
<1>7. CASE Stopped \/ Crash
  BY <1>7, Texts DEF AgentInv, Stopped, Crash
<1>8. CASE UNCHANGED vars
  BY <1>8 DEF AgentInv, vars
<1> QED
  BY <1>1, <1>2, <1>3, <1>4, <1>5, <1>6, <1>7, <1>8 DEF Next

\* A step of a request leaves it alone if it was, or began alone.
LEMMA AloneForm ==
  ASSUME AloneInv, NEW r \in Request, Others(r), importer' = importer,
         clean' => clean /\ (Busy(r) \/ AloneIn(r) \/ ~Busy(r)')
  PROVE  AloneInv'
<1> SUFFICES ASSUME clean', NEW q \in Request, Busy(q)'
             PROVE  AloneIn(q)'
  BY DEF AloneInv
<1>1. CASE AloneIn(r)
  <2>1. q = r
    BY <1>1 DEF AloneIn, Others, Busy
  <2> QED
    BY <1>1, <2>1 DEF AloneIn, Others, Busy
<1>2. CASE ~AloneIn(r)
  <2>1. clean /\ ~Busy(r)' /\ q # r
    BY <1>2 DEF AloneInv
  <2>2. AloneIn(q)
    BY <2>1 DEF AloneInv, Others, Busy
  <2> QED
    BY <2>1, <2>2 DEF AloneIn, Others, Busy
<1> QED
  BY <1>1, <1>2

LEMMA AloneStep ==
  ASSUME TypeOK, AgentInv, AloneInv, [Next]_vars
  PROVE  AloneInv'
<1>1. ASSUME NEW r \in Request,
             \/ Arrive(r) \/ Refused(r) \/ Answered(r)
             \/ AddSyncDir(r) \/ RemoveSyncDir(r) \/ SaveSettings(r) \/ HandlerStep(r)
      PROVE  AloneInv'
  <2>1. /\ Others(r) /\ importer' = importer
        /\ clean' => clean /\ (Busy(r) \/ AloneIn(r) \/ ~Busy(r)')
    BY <1>1, FormMoves
  <2> QED
    BY <2>1, AloneForm
<1>2. CASE \E k \in Key : ImportKey(k)
  BY <1>2 DEF AloneInv, ImportKey, Busy
<1>3. CASE ImportOpens
  BY <1>3 DEF AloneInv, AloneIn, ImportOpens, Busy
<1>4. CASE ImportWrites \/ ImportEnds
  BY <1>4, Texts DEF AloneInv, AloneIn, ImportWrites, ImportEnds, Busy
<1>5. CASE Start
  BY <1>5 DEF AloneInv, AgentInv, Start, Busy
<1>6. CASE Stop
  BY <1>6 DEF AloneInv, AloneIn, Stop, Busy
<1>7. CASE Stopped \/ Crash
  BY <1>7, Texts DEF AloneInv, Stopped, Crash, Busy
<1>8. CASE UNCHANGED vars
  BY <1>8 DEF AloneInv, AloneIn, vars, Busy
<1> QED
  BY <1>1, <1>2, <1>3, <1>4, <1>5, <1>6, <1>7, <1>8 DEF Next

-----------------------------------------------------------------------------
(* The key.                                                                *)

KeyInv == sure # NoKey =>
  /\ file \in Config => file.key = sure
  /\ agent # "down" => cfg.key = sure
  /\ \A r \in Request : form[r].stage \in {"open", "write"} => form[r].text.key = sure

\* A step of a request that leaves the Config's key, and writes no other key.
LEMMA KeyForm ==
  ASSUME KeyInv, NEW r \in Request, Others(r), UNCHANGED <<agent, sure>>,
         cfg'.key = cfg.key,
         file' = file \/ file' \notin Config \/
           (form[r].stage = "write" /\ file' = form[r].text),
         form'[r].stage \in {"open", "write"} =>
           \/ agent # "down" /\ form'[r].text = cfg
           \/ form[r].stage \in {"open", "write"} /\ form'[r].text = form[r].text
  PROVE  KeyInv'
BY DEF KeyInv, Others

LEMMA KeyStep ==
  ASSUME TypeOK, AgentInv, KeyInv, [Next]_vars
  PROVE  KeyInv'
<1>a. Empty \notin Config /\ Garbled \notin Config
  BY SettingsAssumption
<1>0. ASSUME NEW r \in Request, Arrive(r) \/ Refused(r) \/ Answered(r) PROVE KeyInv'
  BY <1>0, EndFacts, KeyForm DEF Busy
<1>1. ASSUME NEW r \in Request, AddSyncDir(r) PROVE KeyInv'
  BY <1>1, AddFacts, KeyForm DEF AddSyncDir, Begin, Inside, Goes
<1>2. ASSUME NEW r \in Request, RemoveSyncDir(r) PROVE KeyInv'
  BY <1>2, RemoveFacts, KeyForm DEF RemoveSyncDir, Begin, Inside, Goes
<1>3. ASSUME NEW r \in Request, SaveSettings(r) PROVE KeyInv'
  <2>1. Others(r) /\ form'[r].stage \notin {"open", "write"}
    BY <1>3, SettingsFacts DEF Goes, Others
  <2> QED
    BY <1>3, <2>1, SettingsFacts, KeyForm DEF SaveSettings, Begin, Inside
<1>4. ASSUME NEW r \in Request, AppendDir(r) PROVE KeyInv'
  BY <1>4, AppendFacts, KeyForm DEF AppendDir, Inside, Goes
<1>5. ASSUME NEW r \in Request, AssignDirs(r) PROVE KeyInv'
  BY <1>5, AssignFacts, KeyForm DEF AssignDirs, Inside, Goes
<1>6. ASSUME NEW r \in Request, Marshal(r) PROVE KeyInv'
  <2>1. agent # "down"
    BY <1>6 DEF Marshal, AgentInv
  <2> QED
    BY <1>6, <2>1, MarshalFacts, KeyForm DEF Marshal, Inside, Goes
<1>7. ASSUME NEW r \in Request, OpenFile(r) PROVE KeyInv'
  BY <1>7, <1>a, OpenFacts, KeyForm DEF OpenFile, Inside, Goes
<1>8. ASSUME NEW r \in Request, WriteFile(r) PROVE KeyInv'
  BY <1>8, <1>a, WriteFacts, KeyForm DEF WriteFile, Inside, Goes
<1>9. ASSUME NEW r \in Request, SaveFails(r) PROVE KeyInv'
  BY <1>9, FailFacts, KeyForm DEF SaveFails, Inside
<1>10. CASE \E k \in Key : ImportKey(k)
  BY <1>10 DEF KeyInv, ImportKey
<1>11. CASE ImportOpens
  BY <1>11, <1>a DEF KeyInv, ImportOpens, AgentInv
<1>12. CASE ImportWrites
  <2> SUFFICES ASSUME sure' # NoKey PROVE KeyInv'
    BY DEF KeyInv
  <2>1. importer.alone /\ sure' = importer.text.key /\ agent = "down" /\ agent' = "down"
    BY <1>12 DEF ImportWrites, AgentInv
  <2>2. file' \in Config => file'.key = sure'
    BY <1>12, <1>a, <2>1, ImportFacts
  <2>3. \A r \in Request : form'[r].stage = "idle"
    BY <1>12, <2>1 DEF ImportWrites, AgentInv
  <2> QED
    BY <2>1, <2>2, <2>3 DEF KeyInv
<1>13. CASE ImportEnds
  BY <1>13 DEF KeyInv, ImportEnds
<1>14. CASE Start
  BY <1>14 DEF KeyInv, Start, Loadable
<1>15. CASE Stop
  BY <1>15 DEF KeyInv, Stop
<1>16. CASE Stopped \/ Crash
  BY <1>16, Texts DEF KeyInv, Stopped, Crash
<1>17. CASE UNCHANGED vars
  BY <1>17 DEF KeyInv, vars
<1> QED
  BY <1>0, <1>1, <1>2, <1>3, <1>4, <1>5, <1>6, <1>7, <1>8, <1>9, <1>10, <1>11, <1>12,
     <1>13, <1>14, <1>15, <1>16, <1>17 DEF Next, HandlerStep

\* A key that is imported while no agent runs stays in the file, whatever the
\* agents that are started later save.
THEOREM ImportedKeyKeptHolds == Spec => []ImportedKeyKept
<1>1. Init => TypeOK /\ AgentInv /\ KeyInv
  BY InitType, Texts DEF Init, AgentInv, KeyInv, NotThere
<1>2. TypeOK /\ AgentInv /\ KeyInv /\ [Next]_vars => (TypeOK /\ AgentInv /\ KeyInv)'
  BY TypeStep, AgentStep, KeyStep
<1>3. KeyInv => ImportedKeyKept
  BY DEF KeyInv, ImportedKeyKept
<1> QED
  BY <1>1, <1>2, <1>3, PTL DEF Spec

-----------------------------------------------------------------------------
(* The file.                                                               *)

\* Who is about to write alone finds the file as it truncated it.
WholeInv == clean =>
  /\ \A r \in Request : form[r].stage = "write" => file = Empty
  /\ importer.stage = "write" => file = Empty
  /\ file \in {Empty, Garbled} =>
       importer.stage = "write" \/ \E r \in Request : form[r].stage = "write"

\* A step of a request that writes no file leaves it as it is.
LEMMA WholeForm ==
  ASSUME AloneInv, WholeInv, NEW r \in Request, Others(r), UNCHANGED <<file, importer>>,
         clean' => clean,
         form[r].stage # "write", form'[r].stage # "write"
  PROVE  WholeInv'
BY DEF WholeInv, Others

LEMMA WholeStep ==
  ASSUME TypeOK, AgentInv, AloneInv, WholeInv, [Next]_vars
  PROVE  WholeInv'
<1>a. /\ Empty \notin Config /\ Garbled \notin Config
      /\ \A r \in Request : form[r].text \in Config
      /\ importer.text \in Config
  BY SettingsAssumption DEF TypeOK, Form, Importer
<1>0. ASSUME NEW r \in Request, Arrive(r) \/ Refused(r) \/ Answered(r) PROVE WholeInv'
  BY <1>0, EndFacts, WholeForm DEF Busy
<1>1. ASSUME NEW r \in Request, AddSyncDir(r) PROVE WholeInv'
  BY <1>1, AddFacts, WholeForm DEF AddSyncDir, Begin, Inside, Goes
<1>2. ASSUME NEW r \in Request, RemoveSyncDir(r) PROVE WholeInv'
  BY <1>2, RemoveFacts, WholeForm DEF RemoveSyncDir, Begin, Inside, Goes
<1>3. ASSUME NEW r \in Request, SaveSettings(r) PROVE WholeInv'
  <2>1. Others(r) /\ form[r].stage # "write" /\ form'[r].stage # "write"
    BY <1>3, SettingsFacts DEF Goes, Others
  <2> QED
    BY <1>3, <2>1, WholeForm DEF SaveSettings, Begin, Inside
<1>4. ASSUME NEW r \in Request, AppendDir(r) PROVE WholeInv'
  BY <1>4, AppendFacts, WholeForm DEF AppendDir, Inside, Goes
<1>5. ASSUME NEW r \in Request, AssignDirs(r) PROVE WholeInv'
  BY <1>5, AssignFacts, WholeForm DEF AssignDirs, Inside, Goes
<1>6. ASSUME NEW r \in Request, Marshal(r) PROVE WholeInv'
  BY <1>6, MarshalFacts, WholeForm DEF Marshal, Inside, Goes
<1>7. ASSUME NEW r \in Request, OpenFile(r) PROVE WholeInv'
  BY <1>7, OpenFacts DEF WholeInv, OpenFile, Goes
<1>8. ASSUME NEW r \in Request, WriteFile(r) PROVE WholeInv'
  <2> SUFFICES ASSUME clean PROVE WholeInv'
    BY <1>8 DEF WholeInv, WriteFile
  <2>1. AloneIn(r) /\ file' = form[r].text /\ importer' = importer
    BY <1>8, WriteFacts DEF AloneInv, WholeInv, Goes, WriteFile, Inside, Busy
  <2>2. \A q \in Request : form'[q].stage # "write"
    BY <1>8, <2>1, WriteFacts DEF AloneIn, Others, Goes, Busy
  <2> QED
    BY <1>a, <2>1, <2>2 DEF WholeInv, AloneIn
<1>9. ASSUME NEW r \in Request, SaveFails(r) PROVE WholeInv'
  BY <1>9 DEF WholeInv, SaveFails
<1>10. ASSUME NEW k \in Key, ImportKey(k) PROVE WholeInv'
  <2> SUFFICES ASSUME clean' PROVE WholeInv'
    BY DEF WholeInv
  <2>1. clean /\ \A r \in Request : form[r].stage # "write"
    BY <1>10 DEF ImportKey, Busy
  <2>2. importer.stage = "idle" /\ importer'.stage = "open" /\ UNCHANGED <<file, form>>
    BY <1>10 DEF ImportKey
  <2> QED
    BY <2>1, <2>2 DEF WholeInv
<1>11. CASE ImportOpens
  <2>1. importer'.stage = "write" /\ file' = Empty /\ UNCHANGED <<form, clean>>
    BY <1>11 DEF ImportOpens, TypeOK, Importer
  <2> QED
    BY <2>1 DEF WholeInv
<1>12. CASE ImportWrites
  <2> SUFFICES ASSUME clean PROVE WholeInv'
    BY <1>12 DEF WholeInv, ImportWrites
  <2>1. /\ importer.stage = "write" /\ file' = importer.text
        /\ importer'.stage = "idle" /\ form' = form
    BY <1>12, ImportFacts, Texts DEF WholeInv, ImportWrites
  <2>2. \A r \in Request : form[r].stage # "write"
    BY <2>1 DEF AloneInv, AloneIn, Busy
  <2> QED
    BY <1>a, <2>1, <2>2 DEF WholeInv
<1>13. CASE ImportEnds
  BY <1>13, Texts DEF WholeInv, ImportEnds
<1>14. CASE Start
  <2> SUFFICES ASSUME clean' PROVE WholeInv'
    BY DEF WholeInv
  <2>1. /\ file \in Config /\ importer.stage = "idle" /\ agent = "down"
        /\ UNCHANGED <<file, form>>
    BY <1>14 DEF Start, Loadable
  <2>2. importer'.stage = "idle"
    BY <1>14, <2>1 DEF Start, TypeOK, Importer
  <2> QED
    BY <1>a, <2>1, <2>2 DEF WholeInv, AgentInv
<1>15. CASE Stop
  BY <1>15 DEF WholeInv, Stop
<1>16. CASE Stopped
  BY <1>16, Texts DEF WholeInv, Stopped, Drained
<1>17. CASE Crash
  BY <1>17, Texts DEF WholeInv, Crash
<1>18. CASE UNCHANGED vars
  BY <1>18 DEF WholeInv, vars
<1> QED
  BY <1>0, <1>1, <1>2, <1>3, <1>4, <1>5, <1>6, <1>7, <1>8, <1>9, <1>10, <1>11, <1>12,
     <1>13, <1>14, <1>15, <1>16, <1>17, <1>18 DEF Next, HandlerStep

\* What the file may miss while a save is under way.
SavedInv == agent # "down" /\ clean =>
  /\ \A r \in Request : form[r].stage \in {"open", "write"} =>
       form[r].text.dirs = cfg.dirs
  /\ importer.stage \in {"open", "write"} => importer.text.dirs = cfg.dirs
  /\ importer.stage # "write" /\ (\A r \in Request : form[r].stage \notin {"save", "open", "write"})
       => file \in Config /\ file.dirs = cfg.dirs

\* A step of a request that leaves file and sync directories.
LEMMA SavedForm ==
  ASSUME SavedInv, NEW r \in Request, Others(r), UNCHANGED <<agent, importer, file>>,
         clean' => clean, cfg'.dirs = cfg.dirs,
         \/ form'[r].stage \in {"save", "open", "write"}
         \/ form[r].stage \notin {"save", "open", "write"},
         form'[r].stage \in {"open", "write"} =>
           \/ form'[r].text.dirs = cfg.dirs
           \/ form[r].stage \in {"open", "write"} /\ form'[r].text = form[r].text
  PROVE  SavedInv'
BY DEF SavedInv, Others

LEMMA SavedStep ==
  ASSUME TypeOK, AgentInv, AloneInv, WholeInv, SavedInv, [Next]_vars
  PROVE  SavedInv'
<1>a. /\ \A r \in Request : form[r].text \in Config
      /\ importer.text \in Config
  BY DEF TypeOK, Form, Importer
<1>0. ASSUME NEW r \in Request, Arrive(r) \/ Refused(r) \/ Answered(r) PROVE SavedInv'
  BY <1>0, EndFacts, SavedForm DEF Busy
<1>1. ASSUME NEW r \in Request, AddSyncDir(r) PROVE SavedInv'
  BY <1>1, AddFacts, SavedForm DEF AddSyncDir, Begin, Inside, Goes
<1>2. ASSUME NEW r \in Request, RemoveSyncDir(r) PROVE SavedInv'
  BY <1>2, RemoveFacts, SavedForm DEF RemoveSyncDir, Begin, Inside, Goes
<1>3. ASSUME NEW r \in Request, SaveSettings(r) PROVE SavedInv'
  <2>1. /\ Others(r) /\ form[r].stage = "reading" /\ form'[r].stage \notin {"open", "write"}
        /\ cfg'.dirs = cfg.dirs
    BY <1>3, SettingsFacts DEF Goes, Others
  <2> QED
    BY <1>3, <2>1, SavedForm DEF SaveSettings, Begin, Inside
<1>4. ASSUME NEW r \in Request, AppendDir(r) PROVE SavedInv'
  BY <1>4, AppendFacts, SavedForm DEF AppendDir, Inside, Goes
<1>5. ASSUME NEW r \in Request, AssignDirs(r) PROVE SavedInv'
  <2> SUFFICES ASSUME clean PROVE SavedInv'
    BY <1>5 DEF SavedInv, AssignDirs
  <2>1. AloneIn(r) /\ Goes(r, "assign", "save") /\ importer' = importer
    BY <1>5, AssignFacts DEF AloneInv, AssignDirs, Inside, Busy, Goes
  <2> QED
    BY <2>1 DEF SavedInv, Goes, Others, AloneIn, Busy
<1>6. ASSUME NEW r \in Request, Marshal(r) PROVE SavedInv'
  BY <1>6, MarshalFacts, SavedForm DEF Marshal, Inside, Goes
<1>7. ASSUME NEW r \in Request, OpenFile(r) PROVE SavedInv'
  <2>1. /\ Goes(r, "open", "write") /\ form'[r].text = form[r].text
        /\ UNCHANGED <<agent, importer, cfg, clean>>
    BY <1>7, OpenFacts DEF OpenFile, Inside
  <2> QED
    BY <2>1 DEF SavedInv, Goes, Others
<1>8. ASSUME NEW r \in Request, WriteFile(r) PROVE SavedInv'
  <2> SUFFICES ASSUME clean, agent # "down" PROVE SavedInv'
    BY <1>8 DEF SavedInv, WriteFile, Inside
  <2>1. /\ AloneIn(r) /\ file' = form[r].text /\ Goes(r, "write", "answer")
        /\ UNCHANGED <<importer, cfg>> /\ form[r].text.dirs = cfg.dirs
    BY <1>8, WriteFacts DEF AloneInv, WholeInv, SavedInv, Goes, WriteFile, Inside, Busy
  <2> QED
    BY <1>a, <2>1 DEF SavedInv, Goes, Others, AloneIn, Busy
<1>9. ASSUME NEW r \in Request, SaveFails(r) PROVE SavedInv'
  BY <1>9 DEF SavedInv, SaveFails
<1>10. ASSUME NEW k \in Key, ImportKey(k) PROVE SavedInv'
  <2> SUFFICES ASSUME clean', agent # "down" PROVE SavedInv'
    BY <1>10 DEF SavedInv, ImportKey
  <2>1. /\ clean /\ importer.stage = "idle" /\ UNCHANGED <<file, form, cfg>>
        /\ \A r \in Request : form[r].stage \notin {"save", "open", "write"}
    BY <1>10 DEF ImportKey, Busy
  <2>2. file \in Config /\ file.dirs = cfg.dirs
    BY <2>1 DEF SavedInv
  <2>3. PICK t : t = IF Loadable(file) THEN file ELSE Default
    OBVIOUS
  <2>4. t \in Config /\ t.dirs = cfg.dirs
    BY <2>2, <2>3, Texts DEF Loadable, Default
  <2>5. importer'.stage = "open" /\ importer'.text.dirs = cfg.dirs
    <3>1. importer' = [stage |-> "open", alone |-> FALSE, text |-> [t EXCEPT !.key = k]]
      BY <1>10, <2>3 DEF ImportKey
    <3> QED
      BY <2>4, <3>1 DEF Config
  <2> QED
    BY <2>1, <2>2, <2>3, <2>5 DEF SavedInv
<1>11. CASE ImportOpens
  <2>1. /\ importer'.stage = "write" /\ importer'.text = importer.text
        /\ importer.stage = "open" /\ UNCHANGED <<agent, form, cfg, clean>>
    BY <1>11 DEF ImportOpens, TypeOK, Importer
  <2> QED
    BY <2>1 DEF SavedInv
<1>12. CASE ImportWrites
  <2> SUFFICES ASSUME clean, agent # "down" PROVE SavedInv'
    BY <1>12 DEF SavedInv, ImportWrites
  <2>1. /\ importer.stage = "write" /\ file' = importer.text
        /\ importer'.stage = "idle" /\ UNCHANGED <<form, cfg>>
        /\ importer.text.dirs = cfg.dirs
    BY <1>12, ImportFacts, Texts DEF WholeInv, SavedInv, ImportWrites
  <2>2. \A r \in Request : form[r].stage \notin {"save", "open", "write"}
    BY <2>1 DEF AloneInv, AloneIn, Busy
  <2> QED
    BY <1>a, <2>1, <2>2 DEF SavedInv
<1>13. CASE ImportEnds
  BY <1>13, Texts DEF SavedInv, ImportEnds
<1>14. CASE Start
  <2> SUFFICES ASSUME clean' PROVE SavedInv'
    BY DEF SavedInv
  <2>1. /\ file \in Config /\ importer.stage = "idle" /\ agent = "down"
        /\ UNCHANGED <<file, form>> /\ cfg' = file
    BY <1>14 DEF Start, Loadable
  <2>2. importer'.stage = "idle"
    BY <1>14, <2>1 DEF Start, TypeOK, Importer
  <2> QED
    BY <2>1, <2>2 DEF SavedInv, AgentInv
<1>15. CASE Stop
  BY <1>15 DEF SavedInv, Stop
<1>16. CASE Stopped \/ Crash
  BY <1>16 DEF SavedInv, Stopped, Crash
<1>17. CASE UNCHANGED vars
  BY <1>17 DEF SavedInv, vars
<1> QED
  BY <1>0, <1>1, <1>2, <1>3, <1>4, <1>5, <1>6, <1>7, <1>8, <1>9, <1>10, <1>11, <1>12,
     <1>13, <1>14, <1>15, <1>16, <1>17 DEF Next, HandlerStep

-----------------------------------------------------------------------------
(* The limit of the free tier.                                             *)

Within(dirs) == AtMostOne(dirs) \/ \A d \in Dir : dirs[d] <= started[d]

LimitInv == agent # "down" /\ free /\ clean =>
  /\ Within(cfg.dirs)
  /\ \A r \in Request :
       /\ form[r].stage = "checked" => cfg.dirs = NoDirs /\ AtMostOne(form[r].dirs)
       /\ form[r].stage = "assign" => Within(form[r].dirs)

LEMMA WithinSame ==
  ASSUME started' = started
  PROVE  \A dirs : Within(dirs) => Within(dirs)'
BY DEF Within, AtMostOne

\* A step of a request that leaves the sync directories as they are.
LEMMA LimitForm ==
  ASSUME LimitInv, NEW r \in Request, Others(r), UNCHANGED <<agent, free, started>>,
         clean' => clean, cfg'.dirs = cfg.dirs,
         agent # "down" /\ free /\ clean /\ form'[r].stage = "checked" =>
           \/ cfg.dirs = NoDirs /\ AtMostOne(form'[r].dirs)
           \/ form'[r] = form[r],
         agent # "down" /\ free /\ clean /\ form'[r].stage = "assign" =>
           Within(form'[r].dirs) \/ form'[r] = form[r]
  PROVE  LimitInv'
BY DEF LimitInv, Others, Within, AtMostOne

LEMMA OneDir ==
  ASSUME NEW d \in Dir
  PROVE  AtMostOne([NoDirs EXCEPT ![d] = 1])
BY DEF AtMostOne, NoDirs

LEMMA LimitStep ==
  ASSUME TypeOK, AgentInv, AloneInv, LimitInv, [Next]_vars
  PROVE  LimitInv'
<1>a. /\ cfg.dirs \in Dirs /\ started \in Dirs
      /\ \A r \in Request : form[r].dirs \in Dirs
  BY DEF TypeOK, Form, Config
<1>0. ASSUME NEW r \in Request, Arrive(r) \/ Refused(r) \/ Answered(r) PROVE LimitInv'
  BY <1>0, EndFacts, LimitForm DEF Busy
<1>1. ASSUME NEW r \in Request, AddSyncDir(r) PROVE LimitInv'
  <2>1. PICK d \in Dir : Allowed(d) /\ form'[r].dirs = [NoDirs EXCEPT ![d] = 1]
    BY <1>1, AddFacts
  <2>2. free => cfg.dirs = NoDirs /\ AtMostOne(form'[r].dirs)
    BY <2>1, OneDir DEF Allowed
  <2> QED
    BY <1>1, <2>2, AddFacts, LimitForm DEF AddSyncDir, Begin, Inside, Goes
<1>2. ASSUME NEW r \in Request, RemoveSyncDir(r) PROVE LimitInv'
  <2>1. PICK d \in Dir : form'[r].dirs = Kept(d)
    BY <1>2, RemoveFacts
  <2>2. \A e \in Dir : Kept(d)[e] = cfg.dirs[e] \/ Kept(d)[e] = 0
    BY <1>a DEF Kept, Dirs
  <2>3. AtMostOne(cfg.dirs) => AtMostOne(Kept(d))
    BY <2>2 DEF AtMostOne
  <2>4. ASSUME \A e \in Dir : cfg.dirs[e] <= started[e]
        PROVE  \A e \in Dir : Kept(d)[e] <= started[e]
    BY <1>a, <2>2, <2>4 DEF Dirs
  <2>5. Within(cfg.dirs) => Within(form'[r].dirs)
    BY <2>1, <2>3, <2>4 DEF Within
  <2>6. agent # "down" /\ free /\ clean => Within(form'[r].dirs)
    BY <2>5 DEF LimitInv
  <2> QED
    BY <1>2, <2>6, RemoveFacts, LimitForm DEF RemoveSyncDir, Begin, Inside, Goes
<1>3. ASSUME NEW r \in Request, SaveSettings(r) PROVE LimitInv'
  <2>1. Others(r) /\ form'[r].stage \notin {"checked", "assign"} /\ cfg'.dirs = cfg.dirs
    BY <1>3, SettingsFacts DEF Goes, Others
  <2> QED
    BY <1>3, <2>1, LimitForm DEF SaveSettings, Begin, Inside
<1>4. ASSUME NEW r \in Request, AppendDir(r) PROVE LimitInv'
  <2>1. ASSUME cfg.dirs = NoDirs
        PROVE  \A d \in Dir : form'[r].dirs[d] = form[r].dirs[d]
    BY <1>4, <1>a, <2>1, AppendFacts DEF NoDirs, Dirs
  <2>2. ASSUME agent # "down", free, clean PROVE Within(form'[r].dirs)
    <3>1. cfg.dirs = NoDirs /\ AtMostOne(form[r].dirs)
      BY <1>4, <2>2 DEF LimitInv, AppendDir
    <3>2. AtMostOne(form'[r].dirs)
      BY <2>1, <3>1 DEF AtMostOne
    <3> QED
      BY <3>2 DEF Within
  <2> QED
    BY <1>4, <2>2, AppendFacts, LimitForm DEF AppendDir, Inside, Goes
<1>5. ASSUME NEW r \in Request, AssignDirs(r) PROVE LimitInv'
  <2> SUFFICES ASSUME clean, agent # "down", free PROVE LimitInv'
    BY <1>5 DEF LimitInv, AssignDirs, Inside
  <2>1. AloneIn(r) /\ Goes(r, "assign", "save") /\ cfg'.dirs = form[r].dirs
    BY <1>5, AssignFacts DEF AloneInv, Goes, Busy
  <2>2. \A q \in Request : form'[q].stage \notin {"checked", "assign"}
    BY <2>1 DEF Goes, Others, AloneIn, Busy
  <2>3. Within(form[r].dirs) /\ started' = started
    BY <1>5, <2>1 DEF LimitInv, Goes, AssignDirs, Inside
  <2> QED
    BY <2>1, <2>2, <2>3 DEF LimitInv, Within, AtMostOne
<1>6. ASSUME NEW r \in Request, Marshal(r) PROVE LimitInv'
  BY <1>6, MarshalFacts, LimitForm DEF Marshal, Inside, Goes
<1>7. ASSUME NEW r \in Request, OpenFile(r) PROVE LimitInv'
  BY <1>7, OpenFacts, LimitForm DEF OpenFile, Inside, Goes
<1>8. ASSUME NEW r \in Request, WriteFile(r) PROVE LimitInv'
  BY <1>8, WriteFacts, LimitForm DEF WriteFile, Inside, Goes
<1>9. ASSUME NEW r \in Request, SaveFails(r) PROVE LimitInv'
  BY <1>9 DEF LimitInv, SaveFails
<1>10. CASE \E k \in Key : ImportKey(k)
  <2>1. UNCHANGED <<agent, free, started, cfg, form>> /\ (clean' => clean)
    BY <1>10 DEF ImportKey
  <2> QED
    BY <2>1 DEF LimitInv, Within, AtMostOne
<1>11. CASE ImportOpens \/ ImportWrites \/ ImportEnds
  <2>1. UNCHANGED <<agent, free, started, cfg, form>> /\ (clean' => clean)
    <3>1. UNCHANGED <<agent, free, started, cfg, form>>
      BY <1>11 DEF ImportOpens, ImportWrites, ImportEnds
    <3>2. ImportEnds => (clean' => clean)
      BY DEF ImportEnds
    <3>3. ImportOpens \/ ImportWrites => (clean' => clean)
      BY DEF ImportOpens, ImportWrites
    <3> QED
      BY <1>11, <3>1, <3>2, <3>3
  <2> QED
    BY <2>1 DEF LimitInv, Within, AtMostOne
<1>12. CASE Start
  <2>1. /\ file.dirs \in Dirs /\ cfg'.dirs = file.dirs /\ started' = file.dirs
        /\ agent = "down" /\ form' = form
    BY <1>12 DEF Start, Loadable, Config
  <2>2. \A d \in Dir : cfg'.dirs[d] <= started'[d]
    BY <2>1 DEF Dirs
  <2> QED
    BY <2>1, <2>2 DEF LimitInv, AgentInv, Within
<1>13. CASE Stop
  BY <1>13 DEF LimitInv, Stop, Within, AtMostOne
<1>14. CASE Stopped \/ Crash
  BY <1>14 DEF LimitInv, Stopped, Crash
<1>15. CASE UNCHANGED vars
  BY <1>15 DEF LimitInv, vars, Within, AtMostOne
<1> QED
  BY <1>0, <1>1, <1>2, <1>3, <1>4, <1>5, <1>6, <1>7, <1>8, <1>9, <1>10, <1>11, <1>12,
     <1>13, <1>14, <1>15 DEF Next, HandlerStep

-----------------------------------------------------------------------------
FileInv == TypeOK /\ AgentInv /\ AloneInv /\ WholeInv /\ SavedInv /\ LimitInv

LEMMA FileInvHolds == Spec => []FileInv
<1>1. Init => FileInv
  <2> SUFFICES ASSUME Init PROVE FileInv
    OBVIOUS
  <2>1. file \notin {Empty, Garbled}
    BY SettingsAssumption DEF Init
  <2> QED
    BY <2>1, InitType, Texts DEF Init, FileInv, AgentInv, AloneInv, WholeInv, SavedInv,
       LimitInv, NotThere, Busy
<1>2. FileInv /\ [Next]_vars => FileInv'
  BY TypeStep, AgentStep, AloneStep, WholeStep, SavedStep, LimitStep DEF FileInv
<1> QED
  BY <1>1, <1>2, PTL DEF Spec

\* Only a crash in a write, a failed one, or two that overlap leave the file
\* half-written: never a shutdown, for it waits for the requests.
THEOREM WholeAtRestHolds == Spec => []WholeAtRest
<1>1. FileInv => WholeAtRest
  BY DEF FileInv, WholeInv, WholeAtRest
<1> QED
  BY <1>1, FileInvHolds, PTL

\* With nothing in progress the file lists the agent's sync directories.
THEOREM SavedWhenQuietHolds == Spec => []SavedWhenQuiet
<1>1. FileInv => SavedWhenQuiet
  BY DEF FileInv, SavedInv, SavedWhenQuiet, Quiet, Busy
<1> QED
  BY <1>1, FileInvHolds, PTL

\* Requests that do not overlap keep an agent without a key to one directory, or
\* to those its file had.
THEOREM FreeTierLimitHolds == Spec => []FreeTierLimit
<1>1. FileInv => FreeTierLimit
  BY DEF FileInv, LimitInv, FreeTierLimit, Within
<1> QED
  BY <1>1, FileInvHolds, PTL
=============================================================================
