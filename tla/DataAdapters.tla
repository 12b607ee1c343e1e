----------------------------- MODULE DataAdapters -----------------------------
(***************************************************************************)
(* The MongoDB, Redis, Neo4j Aura and Neon adapters.                       *)
(***************************************************************************)
EXTENDS AdapterSteps

AtlasKinds   == {"atlas"}
MongoKinds   == {"mongo"}                    \* self-hosted
(* A self-hosted Redis refuses writes when its memory is full ("redis"), or *)
(* has a policy that evicts already; a cache cluster is part of a          *)
(* replication group ("elasticache") or stands alone.                      *)
SelfHosted   == {"redis", "redis-evicting"}
CacheKinds   == {"elasticache", "elasticache-alone"}
RedisKinds   == {"redis-cloud"} \cup CacheKinds \cup SelfHosted
Neo4jKinds   == {"aura", "aura-summary"}
NeonKinds    == {"neon", "neon-billing"}
DataKinds    == AtlasKinds \cup MongoKinds \cup RedisKinds \cup Neo4jKinds \cup NeonKinds

Whole == {"run", "size", "a", "b", "memory", "endpoints", "data", "self"}

(******************************* MongoDB ***********************************)
MongoConnect == Must(MongoKinds, {})
(* killAllSessions, or when that is refused killOp on what runs. *)
KillMongoConnections ==
    <<MongoConnect, Last(Try(MongoKinds, {"a", "b"})),
      Listing({"a", "b"}, "throw", "throw"), Each({"a", "b"}, "next", "next")>>
AtlasRequest(removes) == <<Must(AtlasKinds, removes)>>
IsolateAtlas   == <<Listing({"a", "b"}, "throw", "throw"), Each({"a", "b"}, "next", "next")>>
PauseAtlas     == AtlasRequest({"run"})
ScaleDownAtlas == AtlasRequest({"size"})
(* An exception that mentions the connection counts as shut down. *)
ShutdownSelfHosted ==
    <<Step(MongoKinds, {}, "throw", "true"), Step(MongoKinds, {"run", "a", "b"}, "throw", "true")>>
DropDatabase   == <<MongoConnect, Must(MongoKinds, {"data"})>>

MongodbKill(kind, action) ==
    CASE action = "kill-connections" /\ kind = "mongo" -> Runs(KillMongoConnections)
      [] action = "isolate"       /\ kind = "atlas" -> Runs(IsolateAtlas)
      [] action = "scale-down"    /\ kind = "atlas" -> Runs(ScaleDownAtlas)
      [] action = "pause-cluster" /\ kind = "atlas" -> Runs(PauseAtlas)
      [] action = "pause-cluster" /\ kind = "mongo" -> Runs(ShutdownSelfHosted)
      [] action = "delete"        /\ kind = "atlas" -> Runs(AtlasRequest(Whole))
      [] action = "delete"        /\ kind = "mongo" -> Runs(DropDatabase)
      [] OTHER -> Unsupported

(* The cluster must answer; its measurements and the invoice are best      *)
(* effort.                                                                 *)
CheckAtlas == <<Query({}, "throw", "throw", "throw"), Query(AtlasKinds, "next", "next", "next"),
                Query({}, "next", "next", "next")>>
CheckSelfHostedMongo == <<Query({}, "throw", "throw", "throw"),
                          Query(MongoKinds, "throw", "throw", "throw")>>
MongodbUsage(kind) == IF kind = "atlas" THEN CheckAtlas ELSE CheckSelfHostedMongo
MongodbValidate == Fail(AtlasKinds \cup MongoKinds, {})

(******************************** Redis ************************************)
RedisConnect == Must(SelfHosted, {})
KillRedisConnections ==
    <<RedisConnect, Listing({"a", "b"}, "throw", "throw"), Must(SelfHosted, {}),
      Each({"a", "b"}, "next", "next")>>
FlushSelfHosted == <<RedisConnect, Must(SelfHosted, {"data"})>>
(* Mutants: the policy that evicts comes first; the snapshot is best effort. *)
ScaleDownPolicyFirst(kind) ==
    <<RedisConnect, Must(SelfHosted, {"data"}), Must(SelfHosted, {"memory"})>>
SnapshotIfPossible   == Try(CacheKinds, {"unsaved"})
(* maxmemory is set to 1 MB, and a Redis that evicts begins to do so; then *)
(* the policy, which makes any other evict the keys that are over it.      *)
SetMaxmemory(kind) ==
    Must(SelfHosted, IF kind = "redis-evicting" THEN {"memory", "data"} ELSE {"memory"})
ScaleDownSelfHosted(kind) == <<RedisConnect, SetMaxmemory(kind), Must(SelfHosted, {"data"})>>
RedisCloudRequest(removes) == <<Must({"redis-cloud"}, removes)>>
(* Without a replication group there is nothing to reduce: success FALSE. *)
ScaleDownElastiCache(kind) ==
    IF kind = "elasticache" THEN Runs(<<Must(CacheKinds, {}), Must(CacheKinds, {"size"})>>)
    ELSE Program(<<Must(CacheKinds, {})>>, "never")
CreateSnapshot == Must(CacheKinds, {"unsaved"})
DeleteElastiCache == <<CreateSnapshot, Must(CacheKinds, Whole)>>

RedisKill(kind, action) ==
    CASE action = "kill-connections" /\ kind \in SelfHosted -> Runs(KillRedisConnections)
      [] action = "flush-redis" /\ kind \in SelfHosted -> Runs(FlushSelfHosted)
      [] action \in {"scale-down", "isolate"} /\ kind \in SelfHosted ->
            Runs(ScaleDownSelfHosted(kind))
      [] action = "scale-down" /\ kind = "redis-cloud" -> Runs(RedisCloudRequest({"size"}))
      [] action = "scale-down" /\ kind \in CacheKinds -> ScaleDownElastiCache(kind)
      [] action = "pause-cluster" /\ kind = "redis-cloud" -> Runs(RedisCloudRequest(Whole))
      [] action = "pause-cluster" /\ kind \in CacheKinds -> Runs(DeleteElastiCache)
      [] OTHER -> Unsupported

CheckRedisCloud      == <<Query({}, "throw", "throw", "throw"),
                          Query({"redis-cloud"}, "throw", "throw", "throw")>>
CheckElastiCache     == <<Query({}, "throw", "throw", "throw"),
                          Query(CacheKinds, "next", "next", "next"),
                          Query({}, "next", "next", "next")>>
CheckSelfHostedRedis == <<Query({}, "throw", "throw", "throw"),
                          Query(SelfHosted, "throw", "throw", "throw")>>
RedisUsage(kind) ==
    CASE kind = "redis-cloud" -> CheckRedisCloud
      [] kind \in CacheKinds  -> CheckElastiCache
      [] OTHER                -> CheckSelfHostedRedis
RedisValidate == Fail(RedisKinds, {})

(**************************** Neo4j and Neon *******************************)
AuraToken == Must(Neo4jKinds, {})
Neo4jKill(kind, action) ==
    IF kind = "aura-summary" THEN Program(<<AuraToken>>, "never")
    ELSE CASE action = "pause-cluster" -> Runs(<<AuraToken, Fail({"aura"}, {"run"})>>)
           [] action = "scale-down"    -> Runs(<<AuraToken, Fail({"aura"}, {"size"})>>)
           [] action = "delete"        -> Runs(<<AuraToken, Fail({"aura"}, Whole)>>)
           [] OTHER                    -> Program(<<AuraToken>>, "never")
Neo4jUsage    == <<AuraToken, Query(Neo4jKinds, "throw", "throw", "throw")>>
Neo4jValidate == Fail(Neo4jKinds, {})

NeonKill(kind, action) ==
    CASE action = "scale-down" ->
            Runs(<<Fail({"neon"}, {}), Listing({"a", "b"}, "false", "false"),
                   Each({"a", "b"}, "false", "false")>>)
      [] action = "delete" -> Runs(<<Fail({"neon"}, Whole)>>)
      [] OTHER -> Unsupported
(* Without the consumption history the project's own fields are used. *)
NeonUsage    == <<Query(NeonKinds, "throw", "throw", "throw"), Query({}, "next", "next", "next")>>
NeonValidate == Fail(NeonKinds, {})
===============================================================================
