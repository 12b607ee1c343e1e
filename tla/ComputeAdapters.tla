---------------------------- MODULE ComputeAdapters ----------------------------
(***************************************************************************)
(* The RunPod, Vercel, Replicate, Snowflake, OpenAI, Anthropic, xAI and    *)
(* Datadog adapters, and the two functions that run beside a cloud account *)
(* instead of the API: kill-switch-gcp and kill-switch-aws.                *)
(***************************************************************************)
EXTENDS AdapterSteps

RunpodKinds == {"pod", "pods-all", "serverless", "serverless-all", "volume", "runpod-cost"}
LlmKinds    == {"openai", "anthropic", "xai", "datadog"}
JobKinds    == {"vercel", "replicate"}
EdgeKinds   == {"edge-gcp", "edge-nuclear", "edge-aws"}
ComputeKinds == RunpodKinds \cup LlmKinds \cup JobKinds \cup {"snowflake"} \cup EdgeKinds

(****************************** RunPod *************************************)
StopPod           == Runs(<<Fail({"pod"}, {"run"})>>)
TerminatePod      == Runs(<<Fail({"pod"}, {"run", "data", "self"})>>)
ScaleDownEndpoint == Runs(<<Fail({"serverless"}, {"run"})>>)

RunpodByType(kind) ==
    CASE kind \in {"pod", "pods-all"} -> StopPod
      [] kind \in {"serverless", "serverless-all"} -> ScaleDownEndpoint
      [] OTHER                        -> Unsupported
(* The default action, stop-pod, does not look at the type. *)
RunpodKill(kind, action) ==
    CASE action = "stop-pod" -> StopPod
      [] action \in {"terminate-pod", "delete"} ->
            IF kind \in {"pod", "pods-all"} THEN TerminatePod ELSE Unsupported
      [] action = "stop-instances" ->
            IF kind \in {"pod", "pods-all"} THEN StopPod ELSE Unsupported
      [] OTHER -> RunpodByType(kind)

ListGPUPods             == Query({"pod", "pods-all", "runpod-cost"}, "next", "next", "next")
ListServerlessEndpoints == Query({"serverless", "serverless-all"}, "next", "next", "next")
ListNetworkVolumes      == Query({"volume"}, "next", "next", "next")
RunpodUsage    == <<ListGPUPods, ListServerlessEndpoints, ListNetworkVolumes>>
RunpodValidate == Fail(RunpodKinds, {})

(********************** jobs, warehouses, models ***************************)
(* What is listed is cancelled in parallel; one that is cancelled will do. *)
CancelJobs == Counts(<<Listing({"a", "b"}, "false", "false"), Each({"a", "b"}, "next", "next")>>)
VercelKill(action) ==
    IF action \in {"scale-down", "disconnect"} THEN CancelJobs ELSE Unsupported
ReplicateKill(action) ==
    IF action \in {"scale-down", "disconnect", "stop-pod"} THEN CancelJobs ELSE Unsupported
SnowflakeKill(action) ==
    CASE action = "scale-down"     -> Runs(<<Fail({"snowflake"}, {"size"})>>)
      [] action = "stop-instances" -> Runs(<<Fail({"snowflake"}, {"run"})>>)
      [] OTHER                     -> Unsupported
OpenaiKill(action)    == Unsupported
AnthropicKill(action) == Unsupported
XaiKill(action)       == Unsupported
DatadogKill(action)   == Unsupported

(* When the usage is refused a probe tells whether the key works at all;   *)
(* when it does, the usage counts as zero.                                 *)
UsageOrProbe(kind) ==
    <<Or(Query({kind}, "next", "next", "next")), Query({}, "throw", "throw", "throw")>>
VercelUsage    == UsageOrProbe("vercel")
ReplicateUsage == UsageOrProbe("replicate")
SnowflakeUsage == UsageOrProbe("snowflake")
OpenaiUsage    == UsageOrProbe("openai")
AnthropicUsage == UsageOrProbe("anthropic")
XaiUsage       == UsageOrProbe("xai")
DatadogUsage   == UsageOrProbe("datadog")

VercelValidate    == Fail({"vercel"}, {})
ReplicateValidate == Fail({"replicate"}, {})
SnowflakeValidate == Fail({"snowflake"}, {})
OpenaiValidate    == Fail({"openai"}, {})
XaiValidate       == Fail({"xai"}, {})
DatadogValidate   == Fail({"datadog"}, {})
(* Only a 401 or 403 makes an Anthropic key invalid. *)
AnthropicValidate == [Fail({"anthropic"}, {}) EXCEPT !.refused = "true", !.lost = "true"]

(************************** the edge functions *****************************)
(* A list that fails, or an item that fails, is noted and passed over.     *)
Sweep(parts) == <<Listing(parts, "next", "next"), Each(parts, "next", "next")>>
ScaleDownCloudRunServices == Sweep({"svc", "svcP"})
StopComputeInstances      == Sweep({"vm", "vmP"})
ScaleDownCloudFunctions   == Sweep({"fn", "fnP"})
DisableBilling == <<Listing({"billing"}, "next", "next"), Batch({"billing"}, "next", "next")>>
AlertPagerDuty == <<Try(EdgeKinds, {})>>
KillSwitchGcp(kind) ==
    Runs((IF kind = "edge-nuclear" THEN DisableBilling
          ELSE ScaleDownCloudRunServices \o StopComputeInstances \o ScaleDownCloudFunctions)
         \o AlertPagerDuty)

(* The instances that are not protected are stopped in one request. *)
EdgeStopEC2Instances         == <<Listing({"vm", "vmP"}, "next", "next"),
                                  Batch({"vm", "vmP"}, "next", "next")>>
EdgeThrottleLambdaFunctions  == Sweep({"fn", "fnP"})
EdgeScaleDownECSServices     == Sweep({"svc", "svcP"})
EdgeDeleteSageMakerEndpoints == Sweep({"endpoint"})
KillSwitchAws ==
    Runs(EdgeStopEC2Instances \o EdgeThrottleLambdaFunctions \o EdgeScaleDownECSServices
         \o EdgeDeleteSageMakerEndpoints \o AlertPagerDuty)

(* daily-rate.js: a query or a publish that fails is thrown again, and     *)
(* Cloud Scheduler retries.  Nothing like it watches for AWS.              *)
DailyRateWatcher == <<Query({"edge-gcp", "edge-nuclear"}, "throw", "throw", "throw")>>
================================================================================
