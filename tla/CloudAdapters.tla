----------------------------- MODULE CloudAdapters -----------------------------
(***************************************************************************)
(* The Cloudflare, GCP and AWS adapters: what each kill action and each    *)
(* usage query asks of the provider, in the order of the code, and how     *)
(* executeKillSwitch routes an action by the prefix of the service's name. *)
(***************************************************************************)
EXTENDS AdapterSteps

Workers == {"worker"}
(* A database is listed by its name, or by its id when the first page of   *)
(* databases does not have it ("d1-id"); "videos" is the entry for all the *)
(* stored ones, and "gke-afar" a cluster outside the account's region.     *)
CfKinds == Workers \cup {"r2", "d1", "d1-id", "queue", "stream", "videos", "zone", "ai", "aigw"}
GcpKinds == {"cloud-run", "compute", "compute-all", "gke", "gke-afar", "bq", "gcf", "all-services"}
(* The entries that AWS usage has for all the resources of a service. *)
AwsTotals == {"ec2-all", "lambda-all", "rds-all", "ecs-all", "eks-all", "sagemaker-all"}
AwsKinds == AwsTotals \cup
    {"ec2", "lambda", "rds", "ecs", "eks", "sagemaker", "s3", "aws-cost"}

Everything == {"subdomain", "route", "a", "b", "run", "data", "self"}
Endpoint   == {"run", "self"}     \* a resource that keeps no data of its own

(***************************** Cloudflare **********************************)
(* The workers.dev address and the custom domains; not the zone's routes. *)
DisconnectWorker ==
    Runs(<<Try(Workers, {"subdomain"}), Listing({"a", "b"}, "true", "true"),
           Each({"a", "b"}, "next", "true")>>)
DeleteWorker     == Runs(<<Asks(Workers, Everything)>>)
DeleteR2Bucket   == Runs(<<Asks({"r2"}, Everything)>>)
DeleteD1Database == Runs(<<Asks({"d1-id"}, Everything)>>)   \* the path takes an id
DeleteQueue      == Runs(<<Asks({}, Everything)>>)          \* likewise, and is given a name
DisableLiveInput == Runs(<<Asks({"stream"}, {"run"})>>)
PauseZone        == Runs(<<Asks({"zone"}, {"run"})>>)
DisableArgo      == Runs(<<Asks({"zone"}, {"a"})>>)

CloudflareKill(kind, action) ==
    IF action = "pause-zone" THEN PauseZone
    ELSE CASE kind \in {"ai", "aigw"} -> Unsupported
           [] kind = "r2"             -> DeleteR2Bucket
           [] kind \in {"d1", "d1-id"} -> DeleteD1Database
           [] kind = "queue"          -> DeleteQueue
           [] kind \in {"stream", "videos"} -> DisableLiveInput
           [] kind = "zone"  -> IF action = "disconnect" THEN DisableArgo ELSE PauseZone
           [] OTHER          -> IF action = "delete" THEN DeleteWorker ELSE DisconnectWorker

(* Mutant: a query that fails returns no rows, whatever the error is. *)
GraphQLForgiving(carries, otherwise) ==
    [Query(carries, "next", "next", "next") EXCEPT !.does = "graphql"]

(* cfGraphQL classifies its errors; only an "auth" error gets past the     *)
(* catch of the queries that have one.                                     *)
GraphQL(carries, otherwise) ==
    [Query(carries, "throw", otherwise, otherwise) EXCEPT !.does = "graphql"]
QueryDOUsage        == <<GraphQL(Workers, "throw")>>
QueryWorkerUsage    == <<GraphQL(Workers, "throw")>>
QueryAIUsage        == <<GraphQL({"ai"}, "next")>>
QueryAIGatewayUsage == <<GraphQL({"aigw"}, "next")>>
QueryR2Usage        == <<Query({}, "skip", "skip", "throw"), GraphQL({"r2"}, "next")>>
QueryD1Usage        == <<Query({}, "skip", "skip", "throw"), GraphQL({"d1", "d1-id"}, "next")>>
QueryQueuesUsage    == <<Query({"queue"}, "next", "next", "throw")>>
QueryStreamUsage    == <<Query({"stream"}, "next", "next", "throw"),
                         Query({"videos"}, "next", "next", "throw")>>
CloudflareUsage ==
    QueryDOUsage \o QueryWorkerUsage \o QueryR2Usage \o QueryD1Usage \o QueryQueuesUsage
        \o QueryStreamUsage \o QueryAIUsage \o QueryAIGatewayUsage
CloudflareValidate == Fail(CfKinds, {})
CloudflareHealth   == Fail(CfKinds, {})

(******************************** GCP **************************************)
AccessToken         == Must(GcpKinds, {})
(* Mutant: the answer to the PATCH is not looked at. *)
ScaleDownBestEffort == <<Fail({"cloud-run"}, {}), Try({"cloud-run"}, {"run"})>>
ScaleDownService    == <<Fail({"cloud-run"}, {}), Fail({"cloud-run"}, {"run"})>>
(* Mutant: the zone is left out of the name, and the request finds nothing. *)
StopWithoutZone     == <<Asks({}, {"run"})>>
StopComputeInstance == <<Asks({"compute"}, {"run"})>>
(* The usage names the cluster; the request is about its default pool, in  *)
(* the account's region: "run".  The cluster's other pools stay.           *)
ScaleGKENodePool    == <<Asks({"gke"}, {"run"})>>
SetBigQueryQuota    == <<Asks(GcpKinds, {"queries"})>>
DisableGCPService   == <<Asks({}, {})>>      \* no API has the name of a service
DisableProjectBilling == <<Asks(GcpKinds, {"run", "b", "queries"})>>
ScaleCloudFunction  == <<Asks({"gcf"}, {}), Asks({"gcf"}, {"run"})>>

GcpAction(kind, action) ==
    CASE action = "disable-billing" -> DisableProjectBilling
      [] action = "disable-service" -> DisableGCPService
      [] action = "set-quota"       -> SetBigQueryQuota
      [] action = "stop-instances"  -> StopComputeInstance
      [] OTHER ->
            CASE kind \in {"compute", "compute-all"} -> StopComputeInstance
              [] kind \in {"gke", "gke-afar"} -> ScaleGKENodePool
              [] kind = "bq"  -> SetBigQueryQuota
              [] kind = "gcf" -> ScaleCloudFunction
              [] OTHER        -> ScaleDownService

(* An account-wide violation has no service to act on: success, no request. *)
GcpKill(kind, action) ==
    IF kind = "all-services" /\ action \notin {"disable-billing", "set-quota"}
    THEN Runs(<<>>)
    ELSE Runs(<<AccessToken>> \o GcpAction(kind, action))

(* "all-services" is the sum of the estimates; the runaway cost in it is   *)
(* taken to be that of the compute instances.                              *)
ListCloudRunServices  == Query({"cloud-run"}, "throw", "throw", "throw")
ListComputeInstances  == Query({"compute", "compute-all", "all-services"}, "next", "next", "throw")
ListGKEClusters       == Query({"gke", "gke-afar"}, "next", "next", "throw")
QueryBigQueryUsage    == Query({"bq"}, "next", "next", "throw")
ListCloudFunctions    == Query({"gcf"}, "next", "next", "throw")
ListGCSBuckets        == Query({}, "next", "next", "throw")
QueryBillingCosts     == Query({}, "next", "next", "next")
CheckSecurityMetrics  == Query({}, "next", "next", "next")
GcpUsage ==
    <<AccessToken, ListCloudRunServices, ListComputeInstances, ListGKEClusters,
      QueryBigQueryUsage, ListCloudFunctions, ListGCSBuckets, QueryBillingCosts,
      CheckSecurityMetrics>>
GcpValidate == Fail(GcpKinds, {})
(* Only an answer of 500 or above, or none, makes Cloud Run unwell. *)
GcpHealth   == Fail(GcpKinds, {})

(******************************** AWS **************************************)
AwsCredentials(role) == IF role THEN <<Must(AwsKinds, {})>> ELSE <<>>   \* AssumeRole
TagInstances     == Try({"ec2"}, {})
StopEC2Instances == <<Fail({"ec2"}, {"run"}), TagInstances>>
TerminateEC2Instances   == <<TagInstances, Fail({"ec2"}, Everything)>>
ThrottleLambda          == <<Fail({"lambda"}, {"run"})>>
StopRDSInstance         == <<Fail({"rds"}, {"run"})>>
ScaleECSService         == <<Fail({"ecs"}, {"run"})>>
ScaleEKSNodeGroup       == <<Fail({"eks"}, {"run"})>>
DenyS3BucketPolicy      == <<Fail({"s3"}, {"run"})>>
DeleteSageMakerEndpoint == <<Fail({"sagemaker"}, Endpoint)>>
Refuses                 == Unsupported.steps

(* The action by which "disconnect", and any action not named before it,   *)
(* is carried out.                                                         *)
AwsByType == [ec2 |-> StopEC2Instances, lambda |-> ThrottleLambda, ecs |-> ScaleECSService,
              eks |-> ScaleEKSNodeGroup, rds |-> StopRDSInstance,
              sagemaker |-> DeleteSageMakerEndpoint]
AwsServiceType(kind) ==     \* the part of the name before the colon
    CASE kind = "ec2-all"       -> "ec2"
      [] kind = "lambda-all"    -> "lambda"
      [] kind = "rds-all"       -> "rds"
      [] kind = "ecs-all"       -> "ecs"
      [] kind = "eks-all"       -> "eks"
      [] kind = "sagemaker-all" -> "sagemaker"
      [] OTHER                  -> kind

AwsAction(kind, action) ==
    CASE action = "stop-instances" ->
            IF AwsServiceType(kind) = "rds" THEN StopRDSInstance ELSE StopEC2Instances
      [] action = "terminate-instances" -> TerminateEC2Instances
      [] action = "throttle-lambda"     -> ThrottleLambda
      [] action = "deny-bucket-policy"  -> DenyS3BucketPolicy
      [] action = "delete" -> IF AwsServiceType(kind) = "sagemaker" THEN DeleteSageMakerEndpoint ELSE Refuses
      [] action = "scale-down" ->
            CASE AwsServiceType(kind) = "ecs" -> ScaleECSService
              [] AwsServiceType(kind) = "eks" -> ScaleEKSNodeGroup
              [] OTHER        -> StopEC2Instances
      [] OTHER -> IF AwsServiceType(kind) \in DOMAIN AwsByType
                  THEN AwsByType[AwsServiceType(kind)] ELSE Refuses

AwsKill(kind, action, role) ==
    Program(AwsCredentials(role) \o AwsAction(kind, action),
            IF AwsAction(kind, action) = Refuses THEN "never" ELSE "always")

(* Every listing is followed by .catch(() => []). *)
Swallowed(carries) == Query(carries, "next", "next", "next")
ListEC2Instances       == Swallowed({"ec2", "ec2-all"})
ListLambdaFunctions    == Swallowed({"lambda", "lambda-all"})
ListRDSInstances       == Swallowed({"rds", "rds-all"})
ListECSServices        == Swallowed({"ecs", "ecs-all"})
ListEKSNodeGroups      == Swallowed({"eks", "eks-all"})
ListSageMakerEndpoints == Swallowed({"sagemaker", "sagemaker-all"})
QueryCostExplorer      == Swallowed({"aws-cost"})
AwsUsage(role) == AwsCredentials(role) \o
    <<ListEC2Instances, ListLambdaFunctions, ListRDSInstances, ListECSServices,
      ListEKSNodeGroups, ListSageMakerEndpoints, QueryCostExplorer>>
AwsValidate == Fail(AwsKinds, {})
AwsHealth   == Fail(AwsKinds, {})
================================================================================
