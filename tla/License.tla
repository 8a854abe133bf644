------------------------------ MODULE License ------------------------------
(***************************************************************************)
(* The licence client of internal/license/client.go with the gate of       *)
(* cmdStart (cmd/torsync/main.go:182-202): the key file that import-key    *)
(* stores, the operational token that the control server (SSC) issues, and *)
(* its copy in the cache file, over starts, crashes and imports.           *)
(*                                                                         *)
(* The server is external: it answers a request with a new token or        *)
(* refuses it with a 403 ("subscription expired or revoked"), or it gives  *)
(* no answer.  refresh tells the last two apart only in the log.  Time     *)
(* passes while nothing but a request is under way; its unit is half a     *)
(* second, or more, so that half of a token's lifetime is a number of      *)
(* units, and what Start does after its request takes less.                *)
(***************************************************************************)
EXTENDS Naturals

CONSTANTS
  Key,          \* node keys that can be imported
  NoKey,        \* no key: the free tier
  NoToken,      \* no cache file, or no operational token
  Torn,         \* a cache file that cannot be decoded
  Window,       \* Window[k]: registration_until, 0 if there is none
  Expiry,       \* Expiry[k]: exp, 0 if there is none
  TTL,          \* exp - iat of the tokens that the server issues, even
  MinInterval,  \* the least heartbeat interval
  MaxTime,      \* bound: the time at which the clock stops, from 1 on
  MaxStops,     \* bound: times the agent is stopped
  MaxImports    \* bound: imports

Token == [key : Key, exp : Nat, ok : BOOLEAN]

ASSUME LicenseAssumption ==
  /\ NoKey \notin Key
  /\ NoToken \notin Token /\ Torn \notin Token /\ NoToken # Torn
  /\ Window \in [Key -> Nat] /\ Expiry \in [Key -> Nat]
  /\ TTL \in Nat \ {0} /\ MinInterval \in Nat \ {0}
  /\ TTL % 2 = 0
  /\ MaxTime \in Nat \ {0} /\ MaxStops \in Nat /\ MaxImports \in Nat

VARIABLES
  now,      \* the time
  key,      \* what license.key holds
  cache,    \* what license.key.cache holds
  stage,    \* where the agent is
  nodeKey,  \* c.nodeKey
  op,       \* c.operational
  due,      \* the ticker's next tick
  fresh,    \* op is from this run of the agent
  misses,   \* heartbeats without a token since op
  refused,  \* why the last start was refused, and for which key
  last,     \* history: last[k], the newest token issued for k, NoToken if none
  newest,   \* history: the key of the newest token of all
  denied,   \* history: the first refusal since that token, 0 if none
  unsaved,  \* history: a token did not get into the cache whole
  stops,    \* stops so far
  imports   \* imports so far

vars == <<now, key, cache, stage, nodeKey, op, due, fresh, misses, refused,
          last, newest, denied, unsaved, stops, imports>>

\* Not running; key and cache loaded, the request of Start is under way; that
\* request's token is being saved; before IsActive; started; a heartbeat's
\* token is being saved.
Stage  == {"down", "loaded", "saving", "gate", "running", "renewing"}
Reason == {"none", "window", "key", "offline", "stale", "inactive"}
NotRefused == [why |-> "none", key |-> NoKey]

TypeOK ==
  /\ now \in 1..MaxTime /\ due \in Nat /\ denied \in 0..MaxTime
  /\ key \in Key \cup {NoKey} /\ nodeKey \in Key \cup {NoKey}
  /\ newest \in Key \cup {NoKey}
  /\ cache \in Token \cup {NoToken, Torn} /\ op \in Token \cup {NoToken}
  /\ stage \in Stage
  /\ refused \in [why : Reason, key : Key \cup {NoKey}]
  /\ fresh \in BOOLEAN /\ unsaved \in BOOLEAN
  /\ last \in [Key -> Token \cup {NoToken}]
  /\ misses \in Nat /\ stops \in 0..MaxStops /\ imports \in 0..MaxImports

Init ==
  /\ now = 1 /\ key = NoKey /\ cache = NoToken
  /\ stage = "down" /\ nodeKey = NoKey /\ op = NoToken
  /\ due = 0 /\ fresh = FALSE /\ misses = 0 /\ refused = NotRefused
  /\ last = [k \in Key |-> NoToken] /\ newest = NoKey /\ denied = 0
  /\ unsaved = FALSE /\ stops = 0 /\ imports = 0

-----------------------------------------------------------------------------
(* The rules.                                                              *)

\* Registration is over, as NewFromKeyFile looks at it.
Closed(k)  == Window[k] > 0 /\ now > Window[k]
Expired(k) == Expiry[k] > 0 /\ now > Expiry[k]

\* Slip: what was read is taken for a token although it cannot be decoded.
CachedAny == cache

\* loadCachedToken.
CachedToken == IF cache \in Token THEN cache ELSE NoToken

\* Slip: the cache is not looked at.
BarredAlways(k) == Closed(k)

\* Only a first activation is held to the registration window: a cached token,
\* whichever key it was issued for, lets the key pass.
Barred(k) == Closed(k) /\ CachedToken = NoToken

\* Slip: the token's status and expiry are not looked at.
ActiveByKey == Expiry[nodeKey] = 0 \/ now < Expiry[nodeKey]

\* IsActive, of a client with a key.
IsActive ==
  /\ Expiry[nodeKey] = 0 \/ now < Expiry[nodeKey]
  /\ op = NoToken \/ (op.ok /\ now < op.exp)

\* Slip: the ticker waits for the whole lifetime of the token.
IntervalWhole == IF TTL < MinInterval THEN MinInterval ELSE TTL

\* The heartbeat interval of a client that has a token.
Interval == IF TTL \div 2 < MinInterval THEN MinInterval ELSE TTL \div 2

-----------------------------------------------------------------------------
(* import-key, on a node whose agent may be running.                       *)

\* NewFromKeyFile without a cache path, then the copy to license.key.  The
\* cache of an earlier key stays.
Import(k) ==
  /\ imports < MaxImports /\ imports' = imports + 1
  /\ ~Closed(k) /\ ~Expired(k)
  /\ key' = k
  /\ UNCHANGED <<now, cache, stage, nodeKey, op, due, fresh, misses, refused,
                 last, newest, denied, unsaved, stops>>

-----------------------------------------------------------------------------
(* cmdStart and the heartbeat loop.                                        *)

\* log.Fatalf: the agent ends, for this reason.
Refuse(k, reason) ==
  /\ stage' = "down" /\ nodeKey' = NoKey /\ op' = NoToken
  /\ fresh' = FALSE
  /\ refused' = [why |-> reason, key |-> k]
  /\ UNCHANGED <<now, key, cache, due, misses, last, newest, unsaved, stops, imports>>

\* NewFromKeyFile.
LoadRefused ==
  /\ stage = "down" /\ key # NoKey
  /\ UNCHANGED denied
  /\ \/ Barred(key) /\ Refuse(key, "window")
     \/ ~Barred(key) /\ Expired(key) /\ Refuse(key, "key")

Load ==
  /\ stage = "down" /\ key # NoKey
  /\ ~Barred(key) /\ ~Expired(key)
  /\ stage' = "loaded" /\ nodeKey' = key
  /\ op' = CachedToken
  /\ fresh' = FALSE /\ misses' = 0 /\ refused' = NotRefused
  /\ UNCHANGED <<now, key, cache, due, last, newest, denied, unsaved, stops, imports>>

\* NewFree: no gate, no heartbeats.
LoadFree ==
  /\ stage = "down" /\ key = NoKey
  /\ stage' = "running"
  /\ refused' = NotRefused
  /\ UNCHANGED <<now, key, cache, nodeKey, op, due, fresh, misses, last, newest, denied,
                 unsaved, stops, imports>>

\* refresh gets a token.  saveCachedToken truncates the file, or cannot open it.
Answered(ok, opened, saving, done) ==
  LET t == [key |-> nodeKey, exp |-> now + TTL, ok |-> ok] IN
  /\ op' = t
  /\ last' = [last EXCEPT ![nodeKey] = t]
  /\ newest' = nodeKey /\ denied' = 0
  /\ cache' = IF opened THEN Torn ELSE cache
  /\ stage' = IF opened THEN saving ELSE done
  /\ unsaved' = (unsaved \/ ~opened)
  /\ fresh' = TRUE /\ misses' = 0
  /\ UNCHANGED <<now, key, nodeKey, refused, stops, imports>>

StartAnswered == \E ok, opened \in BOOLEAN :
  /\ stage = "loaded"
  /\ Answered(ok, opened, "saving", "gate")
  /\ UNCHANGED due

\* The data is written whole, or not at all; the error is passed over.
Saved(from, to, whole) ==
  /\ stage = from
  /\ stage' = to
  /\ cache' = IF whole THEN op ELSE Torn
  /\ unsaved' = (unsaved \/ ~whole)
  /\ UNCHANGED <<now, key, nodeKey, op, due, fresh, misses, refused, last,
                 newest, denied, stops, imports>>

SaveToken == \E whole \in BOOLEAN :
  Saved("saving", "gate", whole) \/ Saved("renewing", "running", whole)

\* refresh returns an error: a refusal, or no answer.  Nothing is done of a
\* refusal but to log it.
NoNewToken == denied' \in {denied, IF denied = 0 THEN now ELSE denied}

\* Start falls back to the token that was loaded.
StartOffline ==
  /\ stage = "loaded" /\ op # NoToken /\ now < op.exp
  /\ NoNewToken
  /\ stage' = "gate"
  /\ UNCHANGED <<now, key, cache, nodeKey, op, due, fresh, misses, refused, last,
                 newest, unsaved, stops, imports>>

StartRefused ==
  /\ stage = "loaded"
  /\ NoNewToken
  /\ \/ op = NoToken /\ Refuse(nodeKey, "offline")
     \/ op # NoToken /\ now >= op.exp /\ Refuse(nodeKey, "stale")

\* The heartbeat loop starts with Start and outlives the gate.
Admit ==
  /\ stage = "gate" /\ IsActive
  /\ stage' = "running"
  /\ due' = now + Interval
  /\ UNCHANGED <<now, key, cache, nodeKey, op, fresh, misses, refused, last,
                 newest, denied, unsaved, stops, imports>>

GateRefused ==
  stage = "gate" /\ ~IsActive /\ Refuse(nodeKey, "inactive") /\ UNCHANGED denied

Beat ==
  /\ stage = "running" /\ nodeKey # NoKey /\ now = due
  /\ due' = due + Interval

HeartbeatAnswered == \E ok, opened \in BOOLEAN :
  /\ Beat
  /\ Answered(ok, opened, "renewing", "running")

\* The error is logged: whatever op is, the agent goes on with it.
HeartbeatMissed ==
  /\ Beat /\ NoNewToken
  /\ misses' = misses + 1
  /\ UNCHANGED <<now, key, cache, stage, nodeKey, op, fresh, refused, last,
                 newest, unsaved, stops, imports>>

\* The process ends, at any point: on a signal or in a crash.
Stop ==
  /\ stage # "down"
  /\ stops < MaxStops /\ stops' = stops + 1
  /\ stage' = "down" /\ nodeKey' = NoKey /\ op' = NoToken
  /\ fresh' = FALSE
  /\ unsaved' = (unsaved \/ stage \in {"saving", "renewing"})
  /\ UNCHANGED <<now, key, cache, due, misses, refused, last, newest, denied, imports>>

\* A request may take its time; a tick of the ticker is taken at once.
Tick ==
  /\ now < MaxTime /\ now' = now + 1
  /\ \/ stage \in {"down", "loaded"}
     \/ stage = "running" /\ (nodeKey = NoKey \/ now < due)
  /\ UNCHANGED <<key, cache, stage, nodeKey, op, due, fresh, misses, refused,
                 last, newest, denied, unsaved, stops, imports>>

Next == \/ \E k \in Key : Import(k)
        \/ LoadRefused \/ Load \/ LoadFree
        \/ StartAnswered \/ StartOffline \/ StartRefused
        \/ SaveToken \/ Admit \/ GateRefused
        \/ HeartbeatAnswered \/ HeartbeatMissed
        \/ Stop \/ Tick

Spec == Init /\ [][Next]_vars

-----------------------------------------------------------------------------
\* "Only block if there is no cached operational token" (client.go:124): once
\* the server has issued a token for a key, neither a closed registration window
\* nor a request without an answer keeps its node from starting before the
\* token expires, over stops and crashes, unless a token was not saved whole.
RefusalJustified ==
  LET k == refused.key IN
  ~unsaved /\ refused # NotRefused /\ last[k] # NoToken =>
    /\ refused.why \notin {"window", "offline"}
    /\ refused.why = "stale" => now >= last[k].exp
    /\ refused.why = "inactive" =>
         ~last[newest].ok \/ (Expiry[k] > 0 /\ now >= Expiry[k])

\* The agent gets past the gate with a key that has not expired, on the newest
\* token that the server has issued to this node, in this run or an earlier one,
\* for an active licence and not expired either.  (It may have been issued for
\* the key that was there before.)  A refusal since then, which the code takes
\* for silence, does not bar the node at once, as the package comment would have
\* it ("if SSC is unreachable the cached operational token is used"), but after
\* the lifetime of a token at the latest, even if tokens were not saved.
AdmittedOnNewestToken ==
  [][stage = "gate" /\ stage' = "running" =>
       /\ Expiry[nodeKey] > 0 => now < Expiry[nodeKey]
       /\ ~unsaved => newest # NoKey /\ last[newest].ok /\ now < last[newest].exp
       /\ denied # 0 => now < denied + TTL]_vars

\* "A heartbeat loop refreshes a short-lived operational token at token_ttl/2"
\* (client.go:12): the token that the agent got in this run is its own key's and
\* does not expire as long as heartbeats get a token.  After one that got none
\* there is no time to spare: the token lasts until the next is due, and by then
\* it has expired.
RenewedInTime ==
  fresh /\ TTL >= 2 * MinInterval =>
    /\ op.key = nodeKey
    /\ misses = 0 => now < op.exp
    /\ misses = 1 => (now < op.exp <=> now < due)
=============================================================================
