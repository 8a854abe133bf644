--------------------------- MODULE LicenseProofs ---------------------------
(***************************************************************************)
(* Theorems about License, for every set of keys, every lifetime of tokens *)
(* and every number of stops, imports and ticks.                           *)
(***************************************************************************)
EXTENDS License, TLAPS

LEMMA InitType == Init => TypeOK
<1>1. Init => last \in [Key -> Token \cup {NoToken}] /\ fresh \in BOOLEAN
              /\ unsaved \in BOOLEAN
  BY DEF Init
<1>2. Init => refused \in [why : Reason, key : Key \cup {NoKey}]
  BY DEF Init, NotRefused, Reason
<1>3. QED
  BY <1>1, <1>2, LicenseAssumption DEF Init, TypeOK, Stage

LEMMA IntervalFits ==
  /\ Interval \in Nat \ {0}
  /\ TTL >= 2 * MinInterval => Interval + Interval = TTL
BY LicenseAssumption DEF Interval

LEMMA RefuseType ==
  ASSUME TypeOK, NEW k \in Key \cup {NoKey}, NEW reason \in Reason, Refuse(k, reason),
         denied' \in 0..MaxTime
  PROVE  TypeOK'
BY LicenseAssumption DEF TypeOK, Refuse, Stage

LEMMA NoNewTokenType ==
  ASSUME TypeOK, NoNewToken
  PROVE  denied' \in 0..MaxTime
BY LicenseAssumption DEF TypeOK, NoNewToken

LEMMA AnsweredType ==
  ASSUME TypeOK, NEW ok \in BOOLEAN, NEW opened \in BOOLEAN, nodeKey \in Key,
         NEW saving \in Stage, NEW done \in Stage,
         Answered(ok, opened, saving, done), due' \in Nat
  PROVE  TypeOK'
<1>1. [key |-> nodeKey, exp |-> now + TTL, ok |-> ok] \in Token
  BY LicenseAssumption DEF TypeOK, Token
<1>2. op' \in Token /\ cache' \in Token \cup {NoToken, Torn}
      /\ last' \in [Key -> Token \cup {NoToken}]
  BY <1>1 DEF TypeOK, Answered
<1>3. stage' \in Stage /\ unsaved' \in BOOLEAN /\ fresh' \in BOOLEAN /\ misses' \in Nat
  BY DEF TypeOK, Answered
<1>4. denied' \in 0..MaxTime
  BY LicenseAssumption DEF Answered
<1>5. QED
  BY <1>2, <1>3, <1>4 DEF TypeOK, Answered

\* Nothing holds a key or a token before it is loaded, and whoever asks the
\* server or may be admitted has a key.
StageInv ==
  /\ stage = "down" => ~fresh /\ nodeKey = NoKey /\ op = NoToken
  /\ stage \in {"loaded", "saving", "gate", "renewing"} => nodeKey \in Key
  /\ stage \in {"saving", "gate", "renewing"} => op \in Token
  /\ stage = "loaded" => ~fresh
  /\ fresh => op \in Token

LEMMA TypeStep ==
  ASSUME TypeOK, StageInv, [Next]_vars
  PROVE  TypeOK'
<1>1. ASSUME NEW k \in Key, Import(k) PROVE TypeOK'
  BY <1>1, LicenseAssumption DEF TypeOK, Import
<1>2. CASE LoadRefused
  <2>1. denied' \in 0..MaxTime
    BY <1>2 DEF LoadRefused, TypeOK
  <2>2. QED
    BY <1>2, <2>1, RefuseType DEF LoadRefused, TypeOK, Reason
<1>3. CASE Load
  BY <1>3, LicenseAssumption DEF TypeOK, Load, Stage, CachedToken, NotRefused, Reason
<1>4. CASE LoadFree
  BY <1>4 DEF TypeOK, LoadFree, Stage, NotRefused, Reason
<1>5. CASE StartAnswered
  <2>1. PICK ok \in BOOLEAN, opened \in BOOLEAN : Answered(ok, opened, "saving", "gate")
    BY <1>5 DEF StartAnswered
  <2>2. nodeKey \in Key /\ due' \in Nat /\ "saving" \in Stage /\ "gate" \in Stage
    BY <1>5 DEF StartAnswered, StageInv, TypeOK, Stage
  <2>3. QED
    BY <2>1, <2>2, AnsweredType
<1>6. CASE SaveToken
  <2>1. PICK whole \in BOOLEAN : Saved("saving", "gate", whole)
                                 \/ Saved("renewing", "running", whole)
    BY <1>6 DEF SaveToken
  <2>2. op \in Token
    BY <2>1 DEF Saved, StageInv
  <2>3. QED
    BY <2>1, <2>2 DEF TypeOK, Saved, Stage
<1>7. CASE StartOffline
  BY <1>7, NoNewTokenType DEF TypeOK, StartOffline, Stage
<1>8. CASE StartRefused
  BY <1>8, RefuseType, NoNewTokenType DEF StartRefused, TypeOK, Reason
<1>9. CASE Admit
  BY <1>9, IntervalFits DEF TypeOK, Admit, Stage
<1>10. CASE GateRefused
  <2>1. denied' \in 0..MaxTime
    BY <1>10 DEF GateRefused, TypeOK
  <2>2. QED
    BY <1>10, <2>1, RefuseType DEF GateRefused, TypeOK, Reason
<1>11. CASE HeartbeatAnswered
  <2>1. PICK ok \in BOOLEAN, opened \in BOOLEAN :
          Answered(ok, opened, "renewing", "running")
    BY <1>11 DEF HeartbeatAnswered
  <2>2. nodeKey \in Key /\ due' \in Nat /\ "renewing" \in Stage /\ "running" \in Stage
    BY <1>11, IntervalFits DEF HeartbeatAnswered, Beat, TypeOK, Stage
  <2>3. QED
    BY <2>1, <2>2, AnsweredType
<1>12. CASE HeartbeatMissed
  BY <1>12, IntervalFits, NoNewTokenType DEF TypeOK, HeartbeatMissed, Beat
<1>13. CASE Stop
  <2>1. unsaved' \in BOOLEAN /\ fresh' \in BOOLEAN
    BY <1>13 DEF TypeOK, Stop
  <2>2. stops' \in 0..MaxStops
    BY <1>13, LicenseAssumption DEF TypeOK, Stop
  <2>3. QED
    BY <1>13, <2>1, <2>2 DEF TypeOK, Stop, Stage
<1>14. CASE Tick
  BY <1>14, LicenseAssumption DEF TypeOK, Tick
<1>15. CASE UNCHANGED vars
  BY <1>15 DEF TypeOK, vars
<1>16. QED
  BY <1>1, <1>2, <1>3, <1>4, <1>5, <1>6, <1>7, <1>8, <1>9, <1>10, <1>11, <1>12,
     <1>13, <1>14, <1>15 DEF Next

-----------------------------------------------------------------------------
(* What the invariant says besides.                                        *)

\* The newest token that the server has issued to the node.
Newest == IF newest = NoKey THEN NoToken ELSE last[newest]

\* Tokens are issued in the order in which they expire.
IssueInv ==
  /\ newest # NoKey => last[newest] \in Token
  /\ \A k \in Key : last[k] \in Token =>
       /\ newest # NoKey /\ last[k].exp <= last[newest].exp
       /\ last[k].exp <= now + TTL

\* As long as every token was saved, the cache and the client have the newest.
CacheInv ==
  /\ stage \in {"saving", "renewing"} => newest # NoKey /\ op = Newest
  /\ ~unsaved /\ stage \notin {"saving", "renewing"} => cache = Newest
  /\ ~unsaved /\ nodeKey \in Key => op = Newest

\* Past Start's fallback the token has not expired; a token of this run is as old
\* as the heartbeats missed since make it.
TimeInv ==
  /\ stage \in {"saving", "gate"} => now < op.exp
  /\ fresh => op.key = nodeKey
  /\ fresh /\ stage \in {"saving", "gate"} => misses = 0 /\ op.exp = now + TTL
  /\ fresh /\ stage \in {"running", "renewing"} =>
       /\ now <= due
       /\ misses = 0 => due + TTL = op.exp + Interval
       /\ misses = 1 => due + TTL = op.exp + Interval + Interval

RefusedInv == refused # NotRefused => stage = "down" /\ refused.key \in Key

\* Every token there is was issued before the first refusal since the newest, if
\* there was one.
IssuedBy(time) ==
  /\ op \in Token => op.exp <= time + TTL
  /\ cache \in Token => cache.exp <= time + TTL

DeniedInv == /\ denied <= now
             /\ IssuedBy(now)
             /\ denied # 0 => IssuedBy(denied)

LInv == /\ TypeOK /\ StageInv /\ IssueInv /\ CacheInv /\ TimeInv
        /\ RefusedInv /\ DeniedInv /\ RefusalJustified

LEMMA InitLInv == Init => LInv
<1>1. Init => StageInv /\ IssueInv /\ CacheInv /\ TimeInv /\ RefusedInv
  BY LicenseAssumption DEF Init, StageInv, IssueInv, CacheInv, Newest, TimeInv, RefusedInv
<1>2. Init => RefusalJustified
  BY DEF Init, RefusalJustified
<1>3. Init => DeniedInv
  BY LicenseAssumption DEF Init, DeniedInv, IssuedBy
<1>4. QED
  BY <1>1, <1>2, <1>3, InitType DEF LInv

-----------------------------------------------------------------------------
(* The steps.                                                              *)

\* What a new token changes, in Start or in a heartbeat.
LEMMA AnswerFacts ==
  ASSUME LInv, StartAnswered \/ HeartbeatAnswered
  PROVE  /\ op' \in Token /\ op'.key = nodeKey /\ op'.exp = now + TTL
         /\ nodeKey \in Key /\ nodeKey' = nodeKey /\ newest' = nodeKey
         /\ last' = [last EXCEPT ![nodeKey] = op']
         /\ now' = now /\ fresh' = TRUE /\ misses' = 0 /\ refused' = refused
         /\ stage' \in {"saving", "renewing"} \/ unsaved'
         /\ unsaved => unsaved'
         /\ \/ StartAnswered /\ stage = "loaded" /\ stage' \in {"saving", "gate"}
            \/ /\ HeartbeatAnswered /\ stage = "running"
               /\ stage' \in {"renewing", "running"}
               /\ now = due /\ due' = due + Interval
<1>1. nodeKey \in Key /\ now \in Nat /\ TTL \in Nat
  BY LicenseAssumption DEF LInv, StageInv, TypeOK, StartAnswered, HeartbeatAnswered, Beat
<1>2. \A ok \in BOOLEAN : [key |-> nodeKey, exp |-> now + TTL, ok |-> ok] \in Token
  BY <1>1 DEF Token
<1>3. CASE StartAnswered
  <2>1. PICK ok \in BOOLEAN, opened \in BOOLEAN : Answered(ok, opened, "saving", "gate")
    BY <1>3 DEF StartAnswered
  <2>2. stage = "loaded"
    BY <1>3 DEF StartAnswered
  <2>3. stage' \in {"saving", "renewing"} \/ unsaved'
    BY <2>1 DEF Answered
  <2>4. unsaved => unsaved'
    BY <2>1 DEF Answered
  <2>5. QED
    BY <1>1, <1>2, <1>3, <2>1, <2>2, <2>3, <2>4 DEF Answered
<1>4. CASE HeartbeatAnswered
  <2>1. PICK ok \in BOOLEAN, opened \in BOOLEAN :
          Answered(ok, opened, "renewing", "running")
    BY <1>4 DEF HeartbeatAnswered
  <2>2. stage = "running" /\ now = due /\ due' = due + Interval
    BY <1>4 DEF HeartbeatAnswered, Beat
  <2>3. stage' \in {"saving", "renewing"} \/ unsaved'
    BY <2>1 DEF Answered
  <2>4. unsaved => unsaved'
    BY <2>1 DEF Answered
  <2>5. QED
    BY <1>1, <1>2, <1>4, <2>1, <2>2, <2>3, <2>4 DEF Answered
<1>5. QED
  BY <1>3, <1>4

\* What the other steps change.
LEMMA RefuseFacts ==
  ASSUME LInv, LoadRefused \/ StartRefused \/ GateRefused
  PROVE  /\ stage' = "down" /\ nodeKey' = NoKey /\ op' = NoToken /\ fresh' = FALSE
         /\ UNCHANGED <<now, cache, last, newest, unsaved>>
         /\ stage \notin {"saving", "renewing"}
         /\ refused'.key \in Key
BY LicenseAssumption DEF LoadRefused, StartRefused, GateRefused, Refuse, LInv, StageInv,
   TypeOK

LEMMA SaveFacts ==
  ASSUME LInv, SaveToken
  PROVE  /\ UNCHANGED <<now, nodeKey, op, due, fresh, misses, refused, last, newest>>
         /\ cache' = op \/ unsaved'
         /\ unsaved => unsaved'
         /\ \/ stage = "saving" /\ stage' = "gate"
            \/ stage = "renewing" /\ stage' = "running"
<1>1. PICK whole \in BOOLEAN : Saved("saving", "gate", whole)
                               \/ Saved("renewing", "running", whole)
  BY DEF SaveToken
<1>2. cache' = op \/ unsaved'
  BY <1>1 DEF Saved
<1>3. unsaved => unsaved'
  BY <1>1 DEF Saved
<1>4. QED
  BY <1>1, <1>2, <1>3 DEF Saved

LEMMA StageStep ==
  ASSUME LInv, [Next]_vars
  PROVE  StageInv'
<1> USE DEF LInv, StageInv
<1>1. CASE LoadRefused \/ StartRefused \/ GateRefused
  BY <1>1, RefuseFacts
<1>2. CASE StartAnswered \/ HeartbeatAnswered
  BY <1>2, AnswerFacts
<1>3. CASE SaveToken
  BY <1>3, SaveFacts
<1>4. CASE Load
  BY <1>4 DEF Load, TypeOK
<1>5. CASE LoadFree
  BY <1>5 DEF LoadFree
<1>6. CASE StartOffline
  BY <1>6 DEF StartOffline, TypeOK
<1>7. CASE Admit
  BY <1>7 DEF Admit
<1>8. CASE HeartbeatMissed
  BY <1>8 DEF HeartbeatMissed, Beat
<1>9. CASE Stop
  BY <1>9 DEF Stop
<1>10. CASE Tick
  BY <1>10 DEF Tick
<1>11. CASE (\E k \in Key : Import(k)) \/ UNCHANGED vars
  BY <1>11 DEF Import, vars
<1>12. QED
  BY <1>1, <1>2, <1>3, <1>4, <1>5, <1>6, <1>7, <1>8, <1>9, <1>10, <1>11 DEF Next

LEMMA IssueStep ==
  ASSUME LInv, [Next]_vars
  PROVE  IssueInv'
<1> USE DEF LInv, IssueInv
<1>1. CASE UNCHANGED <<last, newest, now>>
  BY <1>1
<1>2. CASE Tick
  <2>1. now \in Nat /\ now' = now + 1 /\ UNCHANGED <<last, newest>> /\ TTL \in Nat
    BY <1>2, LicenseAssumption DEF Tick, TypeOK
  <2>2. \A k \in Key : last[k] \in Token => last[k].exp \in Nat
    BY DEF Token
  <2>3. QED
    BY <2>1, <2>2
<1>3. CASE StartAnswered \/ HeartbeatAnswered
  <2>1. last' = [last EXCEPT ![nodeKey] = op'] /\ nodeKey \in Key /\ newest' = nodeKey
        /\ op' \in Token /\ op'.exp = now + TTL /\ now' = now
    BY <1>3, AnswerFacts
  <2>2. DOMAIN last = Key /\ nodeKey # NoKey
    BY <2>1, LicenseAssumption DEF TypeOK
  <2>3. last'[newest'] = op'
    BY <2>1, <2>2
  <2>4. \A k \in Key : last'[k] = op' \/ last'[k] = last[k]
    BY <2>1, <2>2
  <2>5. now + TTL \in Nat
    BY LicenseAssumption DEF TypeOK
  <2>6. QED
    BY <2>1, <2>2, <2>3, <2>4, <2>5
<1>4. CASE LoadRefused \/ StartRefused \/ GateRefused
  BY <1>4, <1>1, RefuseFacts
<1>5. CASE SaveToken
  BY <1>5, <1>1, SaveFacts
<1>6. QED
  BY <1>1, <1>2, <1>3, <1>4, <1>5 DEF Next, Import, Load, LoadFree, StartOffline, Admit,
     HeartbeatMissed, Stop, vars

LEMMA CacheStep ==
  ASSUME LInv, [Next]_vars
  PROVE  CacheInv'
<1> USE DEF LInv, CacheInv, Newest
<1>1. CASE LoadRefused \/ StartRefused \/ GateRefused
  BY <1>1, RefuseFacts, LicenseAssumption
<1>2. CASE StartAnswered \/ HeartbeatAnswered
  <2>1. last' = [last EXCEPT ![nodeKey] = op'] /\ nodeKey \in Key /\ newest' = nodeKey
        /\ (stage' \in {"saving", "renewing"} \/ unsaved')
    BY <1>2, AnswerFacts
  <2>2. DOMAIN last = Key /\ nodeKey # NoKey
    BY <2>1, LicenseAssumption DEF TypeOK
  <2>3. last'[newest'] = op' /\ newest' # NoKey
    BY <2>1, <2>2
  <2>4. QED
    BY <2>1, <2>3
<1>3. CASE SaveToken
  BY <1>3, SaveFacts
<1>4. CASE Load
  <2>1. stage = "down" /\ stage' = "loaded" /\ UNCHANGED <<cache, last, newest, unsaved>>
        /\ op' = IF cache \in Token THEN cache ELSE NoToken
    BY <1>4 DEF Load, CachedToken
  <2>2. ~unsaved => op' = Newest
    BY <2>1, LicenseAssumption DEF IssueInv
  <2>3. QED
    BY <2>1, <2>2
<1>5. CASE LoadFree
  BY <1>5, LicenseAssumption DEF LoadFree, StageInv
<1>6. CASE StartOffline
  BY <1>6 DEF StartOffline
<1>7. CASE Admit
  BY <1>7 DEF Admit
<1>8. CASE HeartbeatMissed
  BY <1>8 DEF HeartbeatMissed
<1>9. CASE Stop
  <2>1. stage' = "down" /\ nodeKey' = NoKey /\ UNCHANGED <<cache, last, newest>>
    BY <1>9 DEF Stop
  <2>2. ~unsaved' => ~unsaved /\ stage \notin {"saving", "renewing"}
    BY <1>9 DEF Stop
  <2>3. QED
    BY <2>1, <2>2, LicenseAssumption
<1>10. CASE Tick
  BY <1>10 DEF Tick
<1>11. CASE (\E k \in Key : Import(k)) \/ UNCHANGED vars
  BY <1>11 DEF Import, vars
<1>12. QED
  BY <1>1, <1>2, <1>3, <1>4, <1>5, <1>6, <1>7, <1>8, <1>9, <1>10, <1>11 DEF Next

LEMMA TimeStep ==
  ASSUME LInv, [Next]_vars
  PROVE  TimeInv'
<1> USE DEF LInv, TimeInv
<1>0. /\ now \in Nat /\ due \in Nat /\ misses \in Nat /\ TTL \in Nat /\ TTL > 0
      /\ Interval \in Nat
      /\ op \in Token => op.exp \in Nat
  BY LicenseAssumption, IntervalFits DEF TypeOK, Token
<1>00. Interval' = Interval
  BY DEF Interval
<1>1. CASE LoadRefused \/ StartRefused \/ GateRefused
  BY <1>1, RefuseFacts
<1>2. CASE StartAnswered \/ HeartbeatAnswered
  <2>1. op'.key = nodeKey' /\ op'.exp = now' + TTL /\ misses' = 0 /\ now' = now
    BY <1>2, AnswerFacts
  <2>2. stage' \in {"renewing", "running"} =>
          now' <= due' /\ due' + TTL = op'.exp + Interval
    <3>1. stage' \in {"renewing", "running"} => now = due /\ due' = due + Interval
      BY <1>2, AnswerFacts
    <3>2. QED
      BY <1>0, <2>1, <3>1
  <2>3. now' < op'.exp
    BY <1>0, <2>1
  <2>4. QED
    BY <1>00, <2>1, <2>2, <2>3
<1>3. CASE SaveToken
  BY <1>00, <1>3, SaveFacts
<1>4. CASE Load \/ Stop
  BY <1>4 DEF Load, Stop
<1>5. CASE LoadFree
  BY <1>5 DEF LoadFree, StageInv
<1>6. CASE StartOffline
  BY <1>6 DEF StartOffline, StageInv
<1>7. CASE Admit
  <2>1. stage = "gate" /\ stage' = "running" /\ due' = now + Interval
        /\ UNCHANGED <<now, nodeKey, op, fresh, misses>>
    BY <1>7 DEF Admit
  <2>2. fresh => misses' = 0 /\ now' <= due' /\ due' + TTL = op'.exp + Interval
    BY <1>0, <2>1
  <2>3. QED
    BY <1>00, <2>1, <2>2
<1>8. CASE HeartbeatMissed
  <2>1. /\ stage = "running" /\ now = due /\ due' = due + Interval /\ misses' = misses + 1
        /\ UNCHANGED <<now, stage, nodeKey, op, fresh>>
    BY <1>8 DEF HeartbeatMissed, Beat
  <2>2. fresh => op.exp \in Nat
    BY <1>0 DEF StageInv
  <2>3. now' <= due' /\ misses' # 0
    BY <1>0, <2>1
  <2>4. fresh /\ misses' = 1 => due' + TTL = op'.exp + Interval + Interval
    BY <1>0, <2>1, <2>2
  <2>5. QED
    BY <1>00, <2>1, <2>3, <2>4
<1>9. CASE Tick
  <2>1. /\ now' = now + 1 /\ UNCHANGED <<stage, nodeKey, op, due, fresh, misses>>
        /\ stage \in {"down", "loaded", "running"}
        /\ stage = "running" => nodeKey = NoKey \/ now < due
    BY <1>9 DEF Tick
  <2>2. fresh /\ stage = "running" => now < due
    BY <2>1, LicenseAssumption DEF StageInv, TypeOK, Token
  <2>3. fresh => stage = "running"
    BY <2>1 DEF StageInv
  <2>4. QED
    BY <1>0, <1>00, <2>1, <2>2, <2>3
<1>10. CASE (\E k \in Key : Import(k)) \/ UNCHANGED vars
  BY <1>00, <1>10 DEF Import, vars
<1>11. QED
  BY <1>1, <1>2, <1>3, <1>4, <1>5, <1>6, <1>7, <1>8, <1>9, <1>10 DEF Next

LEMMA RefusedStep ==
  ASSUME LInv, [Next]_vars
  PROVE  RefusedInv'
<1> USE DEF LInv, RefusedInv
<1>1. CASE LoadRefused \/ StartRefused \/ GateRefused
  BY <1>1, RefuseFacts
<1>2. CASE StartAnswered \/ HeartbeatAnswered
  BY <1>2, AnswerFacts
<1>3. CASE SaveToken
  BY <1>3, SaveFacts
<1>4. QED
  BY <1>1, <1>2, <1>3 DEF Next, Import, Load, LoadFree, StartOffline, Admit,
     HeartbeatMissed, Beat, Stop, Tick, NotRefused, vars

\* A step without a new token moves tokens between the cache and the client.
LEMMA DeniedKept ==
  ASSUME LInv, UNCHANGED now, denied' = denied \/ (denied = 0 /\ denied' = now),
         op' = op \/ op' \notin Token \/ op' = cache,
         cache' = cache \/ cache' \notin Token \/ cache' = op
  PROVE  DeniedInv'
BY DEF LInv, TypeOK, DeniedInv, IssuedBy

LEMMA DeniedStep ==
  ASSUME LInv, [Next]_vars
  PROVE  DeniedInv'
<1>1. CASE LoadRefused \/ GateRefused \/ StartRefused
  BY <1>1, RefuseFacts, DeniedKept, LicenseAssumption
     DEF LoadRefused, GateRefused, StartRefused, NoNewToken
<1>2. CASE StartAnswered \/ HeartbeatAnswered
  <2>1. PICK ok \in BOOLEAN, opened \in BOOLEAN, saving \in Stage, done \in Stage :
          Answered(ok, opened, saving, done)
    BY <1>2 DEF StartAnswered, HeartbeatAnswered, Stage
  <2>2. op'.exp = now + TTL /\ now' = now /\ denied' = 0
    BY <2>1 DEF Answered
  <2>3. cache' = cache \/ cache' \notin Token
    BY <2>1, LicenseAssumption DEF Answered
  <2>4. now \in Nat /\ TTL \in Nat
    BY LicenseAssumption DEF LInv, TypeOK
  <2>5. IssuedBy(now)'
    BY <2>2, <2>3, <2>4 DEF LInv, DeniedInv, IssuedBy
  <2>6. QED
    BY <2>2, <2>4, <2>5 DEF DeniedInv
<1>3. CASE SaveToken
  <2>1. PICK whole \in BOOLEAN : Saved("saving", "gate", whole)
                                 \/ Saved("renewing", "running", whole)
    BY <1>3 DEF SaveToken
  <2>2. QED
    BY <2>1, DeniedKept, LicenseAssumption DEF Saved
<1>4. CASE Load
  <2>1. op' = cache \/ op' \notin Token
    BY <1>4, LicenseAssumption DEF Load, CachedToken
  <2>2. QED
    BY <1>4, <2>1, DeniedKept DEF Load
<1>5. CASE StartOffline \/ HeartbeatMissed
  BY <1>5, DeniedKept DEF StartOffline, HeartbeatMissed, Beat, NoNewToken
<1>6. CASE Stop
  BY <1>6, DeniedKept, LicenseAssumption DEF Stop
<1>7. CASE Tick
  <2>1. now \in Nat /\ now' = now + 1 /\ denied \in Nat /\ TTL \in Nat
        /\ UNCHANGED <<denied, op, cache>>
    BY <1>7, LicenseAssumption DEF Tick, LInv, TypeOK
  <2>2. (op \in Token => op.exp \in Nat) /\ (cache \in Token => cache.exp \in Nat)
    BY DEF Token
  <2>3. QED
    BY <2>1, <2>2 DEF LInv, DeniedInv, IssuedBy
<1>8. QED
  BY <1>1, <1>2, <1>3, <1>4, <1>5, <1>6, <1>7, DeniedKept
     DEF Next, Import, LoadFree, Admit, vars

\* Why a start may be refused, from what the cache or the client holds.
LEMMA RefusalsJustified ==
  ASSUME LInv, LoadRefused \/ StartRefused \/ GateRefused
  PROVE  RefusalJustified'
<1> DEFINE k == refused'.key
<1>1. ASSUME ~unsaved, k \in Key, last[k] # NoToken
      PROVE  /\ newest # NoKey /\ Newest = last[newest] /\ last[newest] \in Token
             /\ last[k].exp <= last[newest].exp
             /\ last[k].exp \in Nat /\ last[newest].exp \in Nat /\ now \in Nat
  BY <1>1 DEF LInv, TypeOK, IssueInv, Newest, Token
<1>2. /\ k \in Key /\ UNCHANGED <<now, last, newest, unsaved>>
      /\ stage \notin {"saving", "renewing"}
  BY RefuseFacts
<1>3. ~unsaved => cache = Newest /\ (nodeKey \in Key => op = Newest)
  BY <1>2 DEF LInv, CacheInv
<1>4. CASE LoadRefused
  <2>1. refused'.why \in {"window", "key"}
        /\ (refused'.why = "window" => CachedToken = NoToken)
    BY <1>4 DEF LoadRefused, Refuse, Barred
  <2>2. ~unsaved /\ last[k] # NoToken => CachedToken \in Token
    BY <1>1, <1>2, <1>3 DEF CachedToken
  <2>3. QED
    BY <1>2, <2>1, <2>2, LicenseAssumption DEF RefusalJustified
<1>5. CASE StartRefused
  <2>1. /\ nodeKey \in Key
        /\ \/ refused'.why = "offline" /\ op = NoToken
           \/ refused'.why = "stale" /\ now >= op.exp
    BY <1>5 DEF StartRefused, Refuse, LInv, StageInv
  <2>2. ~unsaved /\ last[k] # NoToken =>
          refused'.why = "stale" /\ now >= last[k].exp
    BY <1>1, <1>2, <1>3, <2>1, LicenseAssumption
  <2>3. QED
    BY <1>2, <2>2 DEF RefusalJustified
<1>6. CASE GateRefused
  <2>1. /\ nodeKey \in Key /\ nodeKey = k /\ refused'.why = "inactive"
        /\ now < op.exp
        /\ \/ ~(Expiry[nodeKey] = 0 \/ now < Expiry[nodeKey])
           \/ ~(op = NoToken \/ (op.ok /\ now < op.exp))
    BY <1>6 DEF GateRefused, Refuse, IsActive, LInv, StageInv, TimeInv
  <2>2. Expiry[k] \in Nat /\ now \in Nat
    BY <1>2, LicenseAssumption DEF LInv, TypeOK
  <2>3. (Expiry[k] > 0 /\ now >= Expiry[k]) \/ ~op.ok
    BY <2>1, <2>2
  <2>4. ~unsaved /\ last[k] # NoToken =>
          ~last[newest].ok \/ (Expiry[k] > 0 /\ now >= Expiry[k])
    BY <1>1, <1>2, <1>3, <2>1, <2>3
  <2>5. QED
    BY <1>2, <2>1, <2>4 DEF RefusalJustified
<1>7. QED
  BY <1>4, <1>5, <1>6

LEMMA JustifiedStep ==
  ASSUME LInv, [Next]_vars
  PROVE  RefusalJustified'
<1> USE DEF LInv, RefusedInv
<1>1. CASE LoadRefused \/ StartRefused \/ GateRefused
  BY <1>1, RefusalsJustified
<1>2. CASE StartAnswered \/ HeartbeatAnswered
  BY <1>2, AnswerFacts DEF RefusalJustified
<1>3. CASE SaveToken
  BY <1>3, SaveFacts DEF RefusalJustified
<1>4. CASE Tick
  <2>1. now \in Nat /\ now' = now + 1 /\ UNCHANGED <<refused, last, newest, unsaved>>
    BY <1>4 DEF Tick, TypeOK
  <2>2. refused # NotRefused /\ last[refused.key] # NoToken =>
          last[refused.key].exp \in Nat /\ Expiry[refused.key] \in Nat
    BY LicenseAssumption DEF TypeOK, Token
  <2>3. QED
    BY <2>1, <2>2 DEF RefusalJustified
<1>5. CASE Load \/ LoadFree
  BY <1>5 DEF Load, LoadFree, RefusalJustified
<1>6. CASE StartOffline \/ Admit \/ HeartbeatMissed \/ Stop
  BY <1>6 DEF StartOffline, Admit, HeartbeatMissed, Beat, Stop, RefusalJustified
<1>7. CASE (\E k \in Key : Import(k)) \/ UNCHANGED vars
  BY <1>7 DEF Import, vars, RefusalJustified
<1>8. QED
  BY <1>1, <1>2, <1>3, <1>4, <1>5, <1>6, <1>7 DEF Next

LEMMA LInvHolds == Spec => []LInv
<1>1. LInv /\ [Next]_vars => LInv'
  BY TypeStep, StageStep, IssueStep, CacheStep, TimeStep, RefusedStep, DeniedStep,
     JustifiedStep
     DEF LInv
<1>2. QED
  BY InitLInv, <1>1, PTL DEF Spec

-----------------------------------------------------------------------------
\* Every variable keeps its type: what is in the client is a token that could
\* be decoded, whatever the cache file holds.
THEOREM TypeCorrect == Spec => []TypeOK
<1>1. LInv => TypeOK
  BY DEF LInv
<1>2. QED
  BY LInvHolds, <1>1, PTL

\* RefusalJustified holds: a key that has a token is not refused for its
\* registration window or for the server's silence before the token expires,
\* over any number of stops, crashes and imports.
THEOREM RefusalJustifiedHolds == Spec => []RefusalJustified
<1>1. LInv => RefusalJustified
  BY DEF LInv
<1>2. QED
  BY LInvHolds, <1>1, PTL

\* RenewedInTime holds: while heartbeats get tokens none expires, and after one
\* that did not the token lasts to the very time of the next.
THEOREM RenewedInTimeHolds == Spec => []RenewedInTime
<1>1. ASSUME LInv PROVE RenewedInTime
  <2> SUFFICES ASSUME fresh, TTL >= 2 * MinInterval
               PROVE  /\ op.key = nodeKey
                      /\ misses = 0 => now < op.exp
                      /\ misses = 1 => (now < op.exp <=> now < due)
    BY DEF RenewedInTime
  <2>1. /\ now \in Nat /\ due \in Nat /\ TTL \in Nat \ {0} /\ misses \in Nat
        /\ op.exp \in Nat /\ Interval \in Nat \ {0} /\ Interval + Interval = TTL
    BY <1>1, LicenseAssumption, IntervalFits DEF LInv, TypeOK, StageInv, Token
  <2>2. stage \in {"saving", "gate"} \/ stage \in {"running", "renewing"}
    BY <1>1 DEF LInv, TypeOK, Stage, StageInv
  <2>3. op.key = nodeKey
    BY <1>1 DEF LInv, TimeInv
  <2>4. CASE stage \in {"saving", "gate"}
    <3>1. misses = 0 /\ op.exp = now + TTL
      BY <1>1, <2>4 DEF LInv, TimeInv
    <3>2. QED
      BY <2>1, <2>3, <3>1
  <2>5. CASE stage \in {"running", "renewing"}
    <3>1. /\ now <= due
          /\ misses = 0 => due + TTL = op.exp + Interval
          /\ misses = 1 => due + TTL = op.exp + Interval + Interval
      BY <1>1, <2>5 DEF LInv, TimeInv
    <3>2. QED
      BY <2>1, <2>3, <3>1
  <2>6. QED
    BY <2>2, <2>4, <2>5
<1>2. QED
  BY LInvHolds, <1>1, PTL

\* AdmittedOnNewestToken holds: the gate lets an agent pass on the newest token
\* of all, which the cache has kept over whatever came in between, and which is
\* older than the refusals that came after it.
THEOREM AdmittedOnNewestTokenHolds == Spec => AdmittedOnNewestToken
<1> DEFINE Entered == stage = "gate" /\ stage' = "running" =>
       /\ Expiry[nodeKey] > 0 => now < Expiry[nodeKey]
       /\ ~unsaved => newest # NoKey /\ last[newest].ok /\ now < last[newest].exp
       /\ denied # 0 => now < denied + TTL
<1>1. LInv /\ [Next]_vars => [Entered]_vars
  <2> SUFFICES ASSUME LInv, [Next]_vars, stage = "gate", stage' = "running"
               PROVE  Entered
    OBVIOUS
  <2>1. Admit
    BY RefuseFacts, AnswerFacts, SaveFacts
       DEF Next, vars, Import, Load, LoadFree, StartOffline, HeartbeatMissed, Beat, Stop, Tick
  <2>2. IsActive /\ nodeKey \in Key /\ op \in Token
    BY <2>1 DEF Admit, LInv, StageInv
  <2>3. Expiry[nodeKey] \in Nat /\ now \in Nat /\ denied \in Nat /\ TTL \in Nat
        /\ op.exp \in Nat
    BY <2>2, LicenseAssumption DEF LInv, TypeOK, Token
  <2>4. op.ok /\ now < op.exp
    BY <2>2, LicenseAssumption DEF IsActive
  <2>5. ~unsaved => newest # NoKey /\ op = last[newest]
    BY <2>2, LicenseAssumption DEF LInv, CacheInv, Newest
  <2>6. denied # 0 => now < denied + TTL
    BY <2>2, <2>3, <2>4 DEF LInv, DeniedInv, IssuedBy
  <2>7. QED
    BY <2>2, <2>3, <2>4, <2>5, <2>6 DEF IsActive
<1>2. QED
  BY LInvHolds, <1>1, PTL DEF AdmittedOnNewestToken, Spec
=============================================================================
