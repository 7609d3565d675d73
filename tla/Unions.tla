------------------------------- MODULE Unions -------------------------------
(***************************************************************************)
(* The unions of protocol/generated_types.go, each with its variants in the*)
(* order of the generated code: the literal a variant is switched on, the  *)
(* keys its check requires beside the discriminator, and the optional      *)
(* fields of its struct.  The unions of requests and notifications are cut *)
(* into runs of cases; the second half of each of those UnmarshalJSON, for *)
(* a payload without a method, lists the same variants again in the same   *)
(* order.                                                                  *)
(***************************************************************************)
EXTENDS Decoder

Named(by, tag, req, opt) == Variant("object", by, tag, {}, req, opt, {}, FALSE)

Typed(tag, req, opt) == Named("type", tag, req \cup {"type"}, opt)

Request(method) == Named("method", method, {"id", "method", "params"}, {})

\* A request whose params may be left out.
Bare(method) == Named("method", method, {"id", "method"}, {"params"})

Notification(method) == Named("method", method, {"method", "params"}, {})

Object(req, opt) == Named("", "", req, opt)

Enum(texts) == Variant("string", "", "", texts, {}, {}, {}, FALSE)

AnyString == Variant("string", "", "", {}, {}, {}, {}, FALSE)

AnyArray == Variant("array", "", "", {}, {}, {}, {}, FALSE)

AnyInteger == Variant("integer", "", "", {}, {}, {}, {}, FALSE)

Ref == Variant("ref", "", "", {}, {}, {}, {}, FALSE)

Each(Make(_), names) == [i \in DOMAIN names |-> Make(names[i])]

(***************************************************************************)
(* Structs with an UnmarshalJSON of their own.                             *)
(***************************************************************************)
ChatgptAccount ==
    Variant("object", "type", "chatgpt", {}, {"email", "planType", "type"}, {},
            {"email"}, FALSE)

ThreadSectionMoveParams ==
    Variant("object", "", "", {}, {"sectionId", "threadId"},
          {"beforeThreadId"},
            {"sectionId"}, FALSE)

AnalyticsConfig ==
    Variant("object", "", "", {}, {}, {"enabled"}, {}, TRUE)

Config ==
    Variant("object", "", "", {}, {},
            {"analytics", "approval_policy", "approvals_reviewer",
             "compact_prompt", "desktop", "developer_instructions",
             "forced_chatgpt_workspace_id", "forced_login_method",
             "instructions", "model", "model_auto_compact_token_limit",
             "model_auto_compact_token_limit_scope", "model_context_window",
             "model_provider", "model_reasoning_effort",
             "model_reasoning_summary", "model_verbosity", "review_model",
             "sandbox_mode", "sandbox_workspace_write", "service_tier",
             "tools", "web_search"},
            {}, TRUE)

(***************************************************************************)
(* The unions.                                                             *)
(***************************************************************************)
Passthrough == "internal_chat_message_metadata_passthrough"
Account ==
    <<Typed("apiKey", {}, {}), ChatgptAccount,
      Typed("amazonBedrock", {}, {"usesCodexManagedCredentials"})>>

AuthMode ==
    <<Enum({"apikey"}), Enum({"chatgpt"}), Enum({"chatgptAuthTokens"}),
      Enum({"headers"}), Enum({"agentIdentity"}),
      Enum({"personalAccessToken"}), Enum({"bedrockApiKey"})>>

FileSystemPath ==
    <<Typed("path", {"path"}, {}), Typed("glob_pattern", {"pattern"}, {}),
      Typed("special", {"value"}, {})>>

FileSystemSpecialPath ==
    <<Named("kind", "root", {"kind"}, {}),
      Named("kind", "minimal", {"kind"}, {}),
      Named("kind", "project_roots", {"kind"}, {"subpath"}),
      Named("kind", "tmpdir", {"kind"}, {}),
      Named("kind", "slash_tmp", {"kind"}, {}),
      Named("kind", "unknown", {"kind", "path"}, {"subpath"})>>

AgentMessageInputContent ==
    <<Typed("input_text", {"text"}, {}),
      Typed("encrypted_content", {"encrypted_content"}, {})>>

FileChange ==
    <<Typed("add", {"content"}, {}), Typed("delete", {"content"}, {}),
      Typed("update", {"unified_diff"}, {"move_path"})>>

ReviewDecision ==
    <<Enum({"approved"}), Object({"approved_execpolicy_amendment"}, {}),
      Enum({"approved_for_session"}),
      Object({"network_policy_amendment"}, {}), Object({"denied"}, {}),
      Enum({"timed_out"}), Enum({"abort"})>>

AskForApproval ==
    <<Enum({"untrusted", "on-request", "never"}), Object({"granular"}, {})>>

AutoCompactTokenLimitScope == <<Enum({"total"}), Enum({"body_after_prefix"})>>

CapabilityRootLocation ==
    <<Typed("environment", {"environmentId", "path"}, {})>>

ChatgptAuthTokensRefreshReason == <<Enum({"unauthorized"})>>

ClientNotification == <<Named("method", "initialized", {"method"}, {})>>

ClientRequest1 ==
    Each(Request, <<"initialize", "thread/start", "thread/resume",
                    "thread/fork", "thread/archive", "thread/delete",
                    "thread/unsubscribe", "thread/name/set",
                    "thread/goal/set", "thread/goal/get", "thread/goal/clear",
                    "thread/metadata/update", "thread/section/move",
                    "thread/unarchive", "thread/compact/start">>)

ClientRequest2 ==
    Each(Request, <<"thread/shellCommand",
                    "thread/approveGuardianDeniedAction", "thread/rollback",
                    "thread/list", "threadSection/list",
                    "threadSection/create", "threadSection/update",
                    "threadSection/delete", "thread/loaded/list",
                    "thread/read", "thread/inject_items", "skills/list",
                    "skills/extraRoots/set", "hooks/list", "marketplace/add">>)

ClientRequest3 ==
    Each(Request, <<"marketplace/remove", "marketplace/upgrade",
                    "plugin/list", "plugin/installed", "plugin/read",
                    "plugin/skill/read", "plugin/share/save",
                    "plugin/share/updateTargets", "plugin/share/list",
                    "plugin/share/checkout", "plugin/share/delete",
                    "app/read", "app/list", "app/installed", "fs/readFile">>)

ClientRequest4 ==
    Each(Request, <<"fs/writeFile", "fs/createDirectory", "fs/getMetadata",
                    "fs/readDirectory", "fs/remove", "fs/copy", "fs/watch",
                    "fs/unwatch", "skills/config/write", "plugin/install",
                    "plugin/uninstall", "turn/start", "turn/steer",
                    "turn/interrupt", "review/start">>)

ClientRequest5 ==
    Each(Request, <<"model/list", "modelProvider/capabilities/read",
                    "experimentalFeature/list", "permissionProfile/list",
                    "experimentalFeature/enablement/set",
                    "mcpServer/oauth/login">>)
    \o Each(Bare, <<"config/mcpServer/reload">>)
    \o Each(Request, <<"mcpServerStatus/list", "mcpServer/resource/read",
                       "mcpServer/tool/call", "windowsSandbox/setupStart">>)
    \o Each(Bare, <<"windowsSandbox/readiness">>)
    \o Each(Request, <<"account/login/start", "account/login/cancel">>)
    \o Each(Bare, <<"account/logout">>)

ClientRequest6 ==
    Each(Bare, <<"account/rateLimits/read">>)
    \o Each(Request, <<"account/rateLimitResetCredit/consume">>)
    \o Each(Bare, <<"account/usage/read", "account/workspaceMessages/read">>)
    \o Each(Request, <<"account/sendAddCreditsNudgeEmail", "feedback/upload",
                       "command/exec", "command/exec/write",
                       "command/exec/terminate", "command/exec/resize",
                       "config/read", "externalAgentConfig/detect",
                       "externalAgentConfig/import",
                       "externalAgentConfig/import/recordHistory">>)
    \o Each(Bare, <<"externalAgentConfig/import/readHistories">>)

ClientRequest7 ==
    Each(Request, <<"config/value/write", "config/batchWrite">>)
    \o Each(Bare, <<"configRequirements/read">>)
    \o Each(Request, <<"account/read", "fuzzyFileSearch">>)

ClientRequest == ClientRequest1 \o ClientRequest2 \o ClientRequest3
      \o ClientRequest4 \o ClientRequest5 \o ClientRequest6 \o ClientRequest7

RequestId == <<AnyString, AnyInteger>>

ThreadListCwdFilter == <<AnyString, AnyArray>>

UserInput ==
    <<Typed("text", {"text"}, {"text_elements"}),
      Typed("image", {"url"}, {"detail"}),
      Typed("localImage", {"path"}, {"detail"}), Typed("audio", {"url"}, {}),
      Typed("localAudio", {"path"}, {}), Typed("skill", {"name", "path"}, {}),
      Typed("mention", {"name", "path"}, {})>>

SandboxPolicy ==
    <<Typed("dangerFullAccess", {}, {}),
      Typed("readOnly", {}, {"networkAccess"}),
      Typed("externalSandbox", {}, {"networkAccess"}),
      Typed("workspaceWrite", {}, {"excludeSlashTmp", "excludeTmpdirEnvVar",
            "networkAccess", "writableRoots"})>>

ReasoningSummary == <<Enum({"auto", "concise", "detailed"}), Enum({"none"})>>

ReviewTarget ==
    <<Typed("uncommittedChanges", {}, {}),
      Typed("baseBranch", {"branch"}, {}),
      Typed("commit", {"sha"}, {"title"}),
      Typed("custom", {"instructions"}, {})>>

LoginAccountParams ==
    <<Typed("apiKey", {"apiKey"}, {}),
      Typed("chatgpt", {}, {"appBrand", "codexStreamlinedLogin",
            "useHostedLoginSuccessPage"}),
      Typed("chatgptDeviceCode", {}, {}),
      Typed("chatgptAuthTokens", {"accessToken", "chatgptAccountId"},
            {"chatgptPlanType"}),
      Typed("amazonBedrock", {"apiKey", "region"}, {})>>

CodexErrorInfo ==
    <<Enum({"contextWindowExceeded", "sessionBudgetExceeded",
          "usageLimitExceeded", "serverOverloaded", "cyberPolicy",
          "internalServerError", "unauthorized", "badRequest",
          "threadRollbackFailed", "sandboxError", "other"}),
      Object({"httpConnectionFailed"}, {}),
      Object({"responseStreamConnectionFailed"}, {}),
      Object({"responseStreamDisconnected"}, {}),
      Object({"responseTooManyFailedAttempts"}, {}),
      Object({"activeTurnNotSteerable"}, {})>>

CommandAction ==
    <<Typed("read", {"command", "name", "path"}, {}),
      Typed("listFiles", {"command"}, {"path"}),
      Typed("search", {"command"}, {"path", "query"}),
      Typed("unknown", {"command"}, {})>>

CommandExecOutputStream == <<Enum({"stdout"}), Enum({"stderr"})>>

CommandExecutionApprovalDecision ==
    <<Enum({"accept"}), Enum({"acceptForSession"}),
      Object({"acceptWithExecpolicyAmendment"}, {}),
      Object({"applyNetworkPolicyAmendment"}, {}), Enum({"decline"}),
      Enum({"cancel"})>>

ForcedChatgptWorkspaceIds == <<AnyString, AnyArray>>

ConfigLayerSource ==
    <<Typed("mdm", {"domain", "key"}, {}), Typed("system", {"file"}, {}),
      Typed("enterpriseManaged", {"id", "name"}, {}),
      Typed("user", {"file"}, {"profile"}),
      Typed("project", {"dotCodexFolder"}, {}), Typed("sessionFlags", {}, {}),
      Typed("legacyManagedConfigTomlFromFile", {"file"}, {}),
      Typed("legacyManagedConfigTomlFromMdm", {}, {})>>

ConfiguredHookHandler ==
    <<Typed("command", {"async", "command"},
          {"additionalContextLimit", "commandWindows", "statusMessage",
          "timeoutSec"}),
      Typed("prompt", {}, {}), Typed("agent", {}, {})>>

ConsumeAccountRateLimitResetCreditOutcome ==
    <<Enum({"reset"}), Enum({"nothingToReset"}), Enum({"noCredit"}),
      Enum({"alreadyRedeemed"})>>

ContentItem ==
    <<Typed("input_text", {"text"}, {}),
      Typed("input_image", {"image_url"}, {"detail"}),
      Typed("input_audio", {"audio_url"}, {}),
      Typed("output_text", {"text"}, {})>>

DynamicToolCallOutputContentItem ==
    <<Typed("inputText", {"text"}, {}), Typed("inputImage", {"imageUrl"}, {}),
      Typed("inputAudio", {"audioUrl"}, {})>>

DynamicToolNamespaceTool ==
    <<Typed("function", {"description", "inputSchema", "name"},
          {"deferLoading"})>>

DynamicToolSpec ==
    <<Typed("function", {"description", "inputSchema", "name"},
          {"deferLoading"}),
      Typed("namespace", {"description", "name", "tools"}, {})>>

ParsedCommand ==
    <<Typed("read", {"cmd", "name", "path"}, {}),
      Typed("list_files", {"cmd"}, {"path"}),
      Typed("search", {"cmd"}, {"path", "query"}),
      Typed("unknown", {"cmd"}, {})>>

ExperimentalFeatureStage ==
    <<Enum({"beta"}), Enum({"underDevelopment"}), Enum({"stable"}),
      Enum({"deprecated"}), Enum({"removed"})>>

FileChangeApprovalDecision ==
    <<Enum({"accept"}), Enum({"acceptForSession"}), Enum({"decline"}),
      Enum({"cancel"})>>

PatchChangeKind ==
    <<Typed("add", {}, {}), Typed("delete", {}, {}),
      Typed("update", {}, {"move_path"})>>

FunctionCallOutputBody == <<AnyString, AnyArray>>

FunctionCallOutputContentItem ==
    <<Typed("input_text", {"text"}, {}),
      Typed("input_image", {"image_url"}, {"detail"}),
      Typed("input_audio", {"audio_url"}, {}),
      Typed("encrypted_content", {"encrypted_content"}, {})>>

GuardianApprovalReviewAction ==
    <<Typed("command", {"command", "cwd", "source"}, {}),
      Typed("execve", {"argv", "cwd", "program", "source"}, {}),
      Typed("applyPatch", {"cwd", "files"}, {}),
      Typed("networkAccess", {"host", "port", "protocol", "target"}, {}),
      Typed("mcpToolCall", {"server", "toolName"},
            {"connectorId", "connectorName", "toolTitle"}),
      Typed("requestPermissions", {"permissions"}, {"reason"})>>

InputModality == <<Enum({"text"}), Enum({"image"}), Enum({"audio"})>>

ThreadItem1 ==
    <<Typed("userMessage", {"content", "id"}, {"clientId"}),
      Typed("hookPrompt", {"fragments", "id"}, {}),
      Typed("agentMessage", {"id", "text"}, {"memoryCitation", "phase"}),
      Typed("plan", {"id", "text"}, {}),
      Typed("reasoning", {"id"}, {"content", "summary"}),
      Typed("commandExecution", {"command", "commandActions", "cwd", "id",
            "status"}, {"aggregatedOutput", "durationMs", "exitCode",
            "pluginId", "processId", "scriptPath", "source"}),
      Typed("fileChange", {"changes", "id", "status"}, {}),
      Typed("mcpToolCall", {"arguments", "id", "server", "status", "tool"},
            {"appContext", "durationMs", "error", "mcpAppResourceUri",
            "pluginId", "readOnlyHint", "result"}),
      Typed("dynamicToolCall", {"arguments", "id", "status", "tool"},
            {"contentItems", "durationMs", "namespace", "success"})>>

ThreadItem2 ==
    <<Typed("collabAgentToolCall", {"agentsStates", "id",
          "receiverThreadIds", "senderThreadId", "status", "tool"},
          {"model", "prompt", "reasoningEffort"}),
      Typed("subAgentActivity", {"agentPath", "agentThreadId", "id",
            "kind"}, {}),
      Typed("webSearch", {"id", "query"}, {"action", "results"}),
      Typed("imageView", {"id", "path"}, {}),
      Typed("sleep", {"durationMs", "id"}, {}),
      Typed("imageGeneration", {"id", "result", "status"},
            {"revisedPrompt", "savedPath"}),
      Typed("enteredReviewMode", {"id", "review"}, {}),
      Typed("exitedReviewMode", {"id", "review"}, {}),
      Typed("contextCompaction", {"id"}, {})>>

ThreadItem == ThreadItem1 \o ThreadItem2

MessagePhase == <<Enum({"commentary"}), Enum({"final_answer"})>>

WebSearchAction ==
    <<Typed("search", {}, {"queries", "query"}),
      Typed("openPage", {}, {"url"}),
      Typed("findInPage", {}, {"pattern", "url"}), Typed("other", {}, {})>>

JSONRPCMessage == <<Ref, Ref, Ref, Ref>>

LocalShellAction ==
    <<Typed("exec", {"command"}, {"env", "timeout_ms", "user",
          "working_directory"})>>

LoginAccountResponse ==
    <<Typed("apiKey", {}, {}), Typed("chatgpt", {"authUrl", "loginId"}, {}),
      Typed("chatgptDeviceCode", {"loginId", "userCode", "verificationUrl"},
            {}),
      Typed("chatgptAuthTokens", {}, {}), Typed("amazonBedrock", {}, {})>>

McpElicitationEnumSchema == <<Ref, Ref, Ref>>

McpElicitationMultiSelectEnumSchema == <<Ref, Ref>>

McpElicitationPrimitiveSchema == <<Ref, Ref, Ref, Ref>>

McpElicitationSingleSelectEnumSchema == <<Ref, Ref>>

ResourceContent ==
    <<Object({"text", "uri"}, {"_meta", "mimeType"}),
      Object({"blob", "uri"}, {"_meta", "mimeType"})>>

McpServerElicitationRequestParams ==
    <<Named("mode", "form", {"message", "mode", "requestedSchema"}, {"_meta"}),
      Named("mode", "openai/form", {"message", "mode", "requestedSchema"},
            {"_meta"}),
      Named("mode", "url", {"elicitationId", "message", "mode", "url"},
            {"_meta"})>>

MultiAgentMode ==
    <<Enum({"explicitRequestOnly", "proactive"}), Object({"custom"}, {})>>

PluginAvailability == <<Enum({"DISABLED_BY_ADMIN"}), Enum({"AVAILABLE"})>>

ScheduledTaskSchedule ==
    <<Typed("hourly", {"intervalHours"}, {"days"}),
      Typed("daily", {"time"}, {}), Typed("weekdays", {"time"}, {}),
      Typed("weekly", {"days", "time"}, {})>>

PluginSource ==
    <<Typed("local", {"path"}, {}),
      Typed("git", {"url"}, {"path", "refName", "sha"}),
      Typed("npm", {"package"}, {"registry", "version"}),
      Typed("remote", {}, {})>>

ProcessOutputStream == <<Enum({"stdout"}), Enum({"stderr"})>>

ResponseItem ==
    <<Typed("message", {"content", "role"}, {"id", Passthrough, "phase"}),
      Typed("agent_message", {"author", "content", "recipient"},
            {"id", Passthrough}),
      Typed("reasoning", {"summary"}, {"content", "encrypted_content", "id",
            Passthrough}),
      Typed("local_shell_call", {"action", "status"},
            {"call_id", "id", Passthrough}),
      Typed("function_call", {"arguments", "call_id", "name"},
            {"encrypted_function_args", "id", Passthrough, "namespace"}),
      Typed("tool_search_call", {"arguments", "execution"},
            {"call_id", "id", Passthrough, "status"}),
      Typed("function_call_output", {"call_id", "output"},
            {"id", Passthrough}),
      Typed("custom_tool_call", {"call_id", "input", "name"},
            {"id", Passthrough, "namespace", "status"}),
      Typed("custom_tool_call_output", {"call_id", "output"},
            {"id", Passthrough, "name"}),
      Typed("tool_search_output", {"execution", "status", "tools"},
            {"call_id", "id", Passthrough}),
      Typed("web_search_call", {}, {"action", "id", Passthrough, "status"}),
      Typed("image_generation_call", {"result", "status"},
            {"id", Passthrough, "revised_prompt"}),
      Typed("compaction", {"encrypted_content"}, {"id", Passthrough}),
      Typed("compaction_trigger", {}, {}),
      Typed("context_compaction", {}, {"encrypted_content", "id",
            Passthrough}),
      Typed("other", {}, {})>>

ReasoningItemContent ==
    <<Typed("reasoning_text", {"text"}, {}), Typed("text", {"text"}, {})>>

ReasoningItemReasoningSummary == <<Typed("summary_text", {"text"}, {})>>

ResponsesApiWebSearchAction ==
    <<Typed("search", {}, {"queries", "query"}),
      Typed("open_page", {}, {"url"}),
      Typed("find_in_page", {}, {"pattern", "url"}), Typed("other", {}, {})>>

TurnItemsView == <<Enum({"notLoaded"}), Enum({"summary"}), Enum({"full"})>>

ServerNotification1 ==
    Each(Notification, <<"error", "thread/started", "thread/status/changed",
                         "thread/archived", "thread/deleted",
                         "thread/unarchived", "thread/closed",
                         "skills/changed", "thread/name/updated",
                         "thread/goal/updated", "thread/goal/cleared",
                         "thread/environment/connected",
                         "thread/environment/disconnected",
                         "thread/settings/updated",
                         "thread/tokenUsage/updated">>)

ServerNotification2 ==
    Each(Notification, <<"turn/started", "hook/started", "turn/completed",
                         "hook/completed", "turn/diff/updated",
                         "turn/plan/updated", "item/started",
                         "item/autoApprovalReview/started",
                         "item/autoApprovalReview/completed",
                         "item/completed", "item/agentMessage/delta",
                         "item/plan/delta", "command/exec/outputDelta",
                         "process/outputDelta", "process/exited">>)

ServerNotification3 ==
    Each(Notification, <<"item/commandExecution/outputDelta",
                         "item/commandExecution/terminalInteraction",
                         "item/fileChange/outputDelta",
                         "item/fileChange/patchUpdated",
                         "serverRequest/resolved",
                         "item/mcpToolCall/progress",
                         "mcpServer/oauthLogin/completed",
                         "mcpServer/startupStatus/updated", "account/updated",
                         "account/rateLimits/updated", "app/list/updated",
                         "remoteControl/status/changed",
                         "externalAgentConfig/import/progress",
                         "externalAgentConfig/import/completed",
                         "fs/changed">>)

ServerNotification4 ==
    Each(Notification, <<"item/reasoning/summaryTextDelta",
                         "item/reasoning/summaryPartAdded",
                         "item/reasoning/textDelta", "thread/compacted",
                         "model/rerouted", "model/verification",
                         "turn/moderationMetadata",
                         "model/safetyBuffering/updated", "warning",
                         "guardianWarning", "deprecationNotice",
                         "configWarning", "fuzzyFileSearch/sessionUpdated",
                         "fuzzyFileSearch/sessionCompleted",
                         "thread/realtime/started">>)

ServerNotification5 ==
    Each(Notification, <<"thread/realtime/itemAdded",
                         "thread/realtime/transcript/delta",
                         "thread/realtime/transcript/done",
                         "thread/realtime/outputAudio/delta",
                         "thread/realtime/sdp", "thread/realtime/error",
                         "thread/realtime/closed",
                         "windows/worldWritableWarning",
                         "windowsSandbox/setupCompleted",
                         "account/login/completed">>)

ServerNotification == ServerNotification1 \o ServerNotification2
      \o ServerNotification3 \o ServerNotification4 \o ServerNotification5

SessionSource ==
    <<Enum({"cli", "vscode", "exec", "appServer", "unknown"}),
      Object({"custom"}, {}), Object({"subAgent"}, {})>>

SubAgentSource ==
    <<Enum({"review", "compact", "memory_consolidation"}),
      Object({"thread_spawn"}, {}), Object({"other"}, {})>>

ThreadStatus ==
    <<Typed("notLoaded", {}, {}), Typed("idle", {}, {}),
      Typed("systemError", {}, {}), Typed("active", {"activeFlags"}, {})>>

ServerRequest ==
    Each(Request, <<"item/commandExecution/requestApproval",
                    "item/fileChange/requestApproval",
                    "item/tool/requestUserInput",
                    "mcpServer/elicitation/request",
                    "item/permissions/requestApproval", "item/tool/call",
                    "account/chatgptAuthTokens/refresh",
                    "attestation/generate", "applyPatchApproval",
                    "execCommandApproval">>)

ThreadRealtimeStartTransport ==
    <<Typed("websocket", {}, {}), Typed("webrtc", {"sdp"}, {})>>

(***************************************************************************)
(* The types by name.                                                      *)
(***************************************************************************)
UnionTable ==
    [Account |-> Account, AuthMode |-> AuthMode,
     FileSystemPath |-> FileSystemPath,
     FileSystemSpecialPath |-> FileSystemSpecialPath,
     AgentMessageInputContent |-> AgentMessageInputContent,
     FileChange |-> FileChange, ReviewDecision |-> ReviewDecision,
     AskForApproval |-> AskForApproval,
     AutoCompactTokenLimitScope |-> AutoCompactTokenLimitScope,
     CapabilityRootLocation |-> CapabilityRootLocation,
     ChatgptAuthTokensRefreshReason |-> ChatgptAuthTokensRefreshReason,
     ClientNotification |-> ClientNotification,
     ClientRequest |-> ClientRequest, RequestId |-> RequestId,
     ThreadListCwdFilter |-> ThreadListCwdFilter, UserInput |-> UserInput,
     SandboxPolicy |-> SandboxPolicy, ReasoningSummary |-> ReasoningSummary,
     ReviewTarget |-> ReviewTarget, LoginAccountParams |-> LoginAccountParams,
     CodexErrorInfo |-> CodexErrorInfo, CommandAction |-> CommandAction,
     CommandExecOutputStream |-> CommandExecOutputStream,
     CommandExecutionApprovalDecision |-> CommandExecutionApprovalDecision,
     ForcedChatgptWorkspaceIds |-> ForcedChatgptWorkspaceIds,
     ConfigLayerSource |-> ConfigLayerSource,
     ConfiguredHookHandler |-> ConfiguredHookHandler,
     ConsumeAccountRateLimitResetCreditOutcome |-> ConsumeAccountRateLimitResetCreditOutcome,
     ContentItem |-> ContentItem,
     DynamicToolCallOutputContentItem |-> DynamicToolCallOutputContentItem,
     DynamicToolNamespaceTool |-> DynamicToolNamespaceTool,
     DynamicToolSpec |-> DynamicToolSpec, ParsedCommand |-> ParsedCommand,
     ExperimentalFeatureStage |-> ExperimentalFeatureStage,
     FileChangeApprovalDecision |-> FileChangeApprovalDecision,
     PatchChangeKind |-> PatchChangeKind,
     FunctionCallOutputBody |-> FunctionCallOutputBody,
     FunctionCallOutputContentItem |-> FunctionCallOutputContentItem,
     GuardianApprovalReviewAction |-> GuardianApprovalReviewAction,
     InputModality |-> InputModality, ThreadItem |-> ThreadItem,
     MessagePhase |-> MessagePhase, WebSearchAction |-> WebSearchAction,
     JSONRPCMessage |-> JSONRPCMessage, LocalShellAction |-> LocalShellAction,
     LoginAccountResponse |-> LoginAccountResponse,
     McpElicitationEnumSchema |-> McpElicitationEnumSchema,
     McpElicitationMultiSelectEnumSchema |-> McpElicitationMultiSelectEnumSchema,
     McpElicitationPrimitiveSchema |-> McpElicitationPrimitiveSchema,
     McpElicitationSingleSelectEnumSchema |-> McpElicitationSingleSelectEnumSchema,
     ResourceContent |-> ResourceContent,
     McpServerElicitationRequestParams |-> McpServerElicitationRequestParams,
     MultiAgentMode |-> MultiAgentMode,
     PluginAvailability |-> PluginAvailability,
     ScheduledTaskSchedule |-> ScheduledTaskSchedule,
     PluginSource |-> PluginSource,
     ProcessOutputStream |-> ProcessOutputStream,
     ResponseItem |-> ResponseItem,
     ReasoningItemContent |-> ReasoningItemContent,
     ReasoningItemReasoningSummary |-> ReasoningItemReasoningSummary,
     ResponsesApiWebSearchAction |-> ResponsesApiWebSearchAction,
     TurnItemsView |-> TurnItemsView,
     ServerNotification |-> ServerNotification,
     SessionSource |-> SessionSource, SubAgentSource |-> SubAgentSource,
     ThreadStatus |-> ThreadStatus, ServerRequest |-> ServerRequest,
     ThreadRealtimeStartTransport |-> ThreadRealtimeStartTransport]

StructTable ==
    [ChatgptAccount |-> ChatgptAccount, AnalyticsConfig |-> AnalyticsConfig,
     ThreadSectionMoveParams |-> ThreadSectionMoveParams, Config |-> Config]
=============================================================================
