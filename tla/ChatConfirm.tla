------------------------------- MODULE ChatConfirm -------------------------------
(***************************************************************************)
(* A write tool the assistant proposed waits in its chat message for the   *)
(* user's answer (internal/api/handler/chat_confirm.go).  Agent.Run ends a *)
(* turn at its first such call, so a message has one.  Clicks in several   *)
(* windows, and repeated ones, are requests that run side by side.         *)
(***************************************************************************)
EXTENDS Naturals

CONSTANTS
    Requests  \* confirm requests at one time

VARIABLES
    stored_call, \* the call's status in chat_messages.tool_calls
    request,     \* what each request is doing
    toolRuns     \* history: how many times the tool was run

chatVars == <<stored_call, request, toolRuns>>

CallStatus == {"pending", "running", "done", "error", "cancelled"}
NoRequest_C == [at |-> "idle"]
Request == {NoRequest_C} \cup [at: {"swap"}, approve: BOOLEAN]
               \cup {[at |-> "execute"]} \cup [at: {"record"}, outcome: {"done", "error"}]

ForgetRequest(r) == request' = [request EXCEPT ![r] = NoRequest_C]

\* Confirm loads the message; a call that is no longer pending answers 409.
LoadCall(r, approve) ==
    /\ request[r] = NoRequest_C
    /\ stored_call = "pending"
    /\ request' = [request EXCEPT ![r] = [at |-> "swap", approve |-> approve]]
    /\ UNCHANGED <<stored_call, toolRuns>>

\* A plausible bug: the list is written whatever it is by now.
BugUnchanged(old) == TRUE

\* SwapChatMessageToolCalls writes only over the list the handler read.
Unchanged(old) == stored_call = old

\* The first swap decides.  A statement that fails may have been committed.
DecideCall(r) ==
    LET next == IF request[r].approve THEN "running" ELSE "cancelled" IN
    /\ request[r].at = "swap"
    /\ \/ /\ Unchanged("pending")
          /\ stored_call' = next
          /\ IF request[r].approve
             THEN request' = [request EXCEPT ![r] = [at |-> "execute"]]
             ELSE ForgetRequest(r)
       \/ /\ stored_call' \in {stored_call} \cup {s \in {next} : Unchanged("pending")}
          /\ ForgetRequest(r)
    /\ UNCHANGED toolRuns

\* The tool runs in a context that outlives the request, for at most a minute; an
\* error may come before it did anything or after.
ExecuteCall(r) ==
    /\ request[r].at = "execute"
    /\ \/ /\ request' = [request EXCEPT ![r] = [at |-> "record", outcome |-> "done"]]
          /\ toolRuns' = toolRuns + 1
       \/ /\ request' = [request EXCEPT ![r] = [at |-> "record", outcome |-> "error"]]
          /\ toolRuns' \in {toolRuns, toolRuns + 1}
    /\ UNCHANGED stored_call

\* The second swap; when it fails the call stays 'running' for good.
RecordCall(r) ==
    /\ request[r].at = "record"
    /\ \/ Unchanged("running") /\ stored_call' = request[r].outcome
       \/ UNCHANGED stored_call
    /\ ForgetRequest(r)
    /\ UNCHANGED toolRuns

\* The process stops.
ChatCrash ==
    /\ request' = [r \in Requests |-> NoRequest_C]
    /\ UNCHANGED <<stored_call, toolRuns>>

----------------------------------------------------------------------------
ChatInit ==
    /\ stored_call = "pending"
    /\ request = [r \in Requests |-> NoRequest_C]
    /\ toolRuns = 0

RequestStep(r) ==
    \/ \E approve \in BOOLEAN : LoadCall(r, approve)
    \/ DecideCall(r)
    \/ ExecuteCall(r)
    \/ RecordCall(r)

ChatNext == (\E r \in Requests : RequestStep(r)) \/ ChatCrash

ChatSpec == ChatInit /\ [][ChatNext]_chatVars

----------------------------------------------------------------------------
(* Properties.                                                             *)

ChatTypeOK ==
    /\ stored_call \in CallStatus
    /\ request \in [Requests -> Request]
    /\ toolRuns \in Nat

\* "a compare-and-swap makes it run at most once": whatever requests, failures and
\* crashes there are; and what the message says of the call is true: a pending or
\* cancelled one was never run, one that is done was.
ToolRunsAtMostOnce ==
    /\ toolRuns <= 1
    /\ stored_call \in {"pending", "cancelled"} => toolRuns = 0
    /\ stored_call = "done" => toolRuns = 1

================================================================================
