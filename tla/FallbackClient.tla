--------------------------- MODULE FallbackClient ---------------------------
(***************************************************************************)
(* The client that asks for room information (pkg/fallback): requests go   *)
(* to an anonymous client, and to one with the account's cookies when the  *)
(* live API answers with risk control.  After degradeThreshold of these    *)
(* answers the account is preferred, and the anonymous client probed now   *)
(* and then until it has answered probeSuccessThreshold times in a row.    *)
(*                                                                         *)
(* Requests run concurrently: each looks at the preference once, at its    *)
(* beginning, and tells the client of its result at its end.               *)
(***************************************************************************)
EXTENDS Naturals

CONSTANTS
    Callers,                \* concurrent requests
    DegradeThreshold,       \* 3
    ProbeSuccessThreshold,  \* 2
    MaxChanges              \* bound: times the risk control of the API changes

ASSUME FallbackAssumption ==
    DegradeThreshold \in Nat \ {0} /\ ProbeSuccessThreshold \in Nat \ {0} /\ MaxChanges \in Nat

VARIABLES
    call,           \* caller -> "idle", "begin", "primary", "probe", "fallback" or "account"
    answer,         \* caller -> what the request at hand was answered, "none" before
    preferFallback,
    failStreak,     \* fallbackFailStreak, no higher than the threshold
    probeStreak,    \* probeSuccessStreak
    probeDue,       \* probeInterval has passed since lastProbeAt, or there was none
    riskControl,    \* the API refuses, or fails, anonymous requests
    changes         \* times that has changed

fbVars == <<call, answer, preferFallback, failStreak, probeStreak, probeDue, riskControl, changes>>

FbInit ==
    /\ call = [c \in Callers |-> "idle"] /\ answer = [c \in Callers |-> "none"]
    /\ preferFallback = FALSE /\ failStreak = 0 /\ probeStreak = 0 /\ probeDue = TRUE
    /\ riskControl \in BOOLEAN /\ changes = 0

\* Risk control is imposed or lifted.
RiskControlChanges ==
    /\ changes < MaxChanges /\ changes' = changes + 1 /\ riskControl' = ~riskControl
    /\ UNCHANGED <<call, answer, preferFallback, failStreak, probeStreak, probeDue>>

\* liveInterpret: an error of the transport or another code aborts.
Decisions == IF riskControl THEN {"fallback", "abort"} ELSE {"ok"}

Do(c) ==
    /\ call[c] = "idle"
    /\ call' = [call EXCEPT ![c] = IF preferFallback THEN "begin" ELSE "primary"]
    /\ UNCHANGED <<answer, preferFallback, failStreak, probeStreak, probeDue, riskControl, changes>>

\* Mutant: only the first probe is ever due.
ProbeOnce == UNCHANGED probeDue

ProbeInterval == probeDue' = TRUE

TimePasses ==
    /\ ~probeDue /\ ProbeInterval
    /\ UNCHANGED <<call, answer, preferFallback, failStreak, probeStreak, riskControl, changes>>

\* shouldProbeLocked: one request takes the probe that is due; the preference may be gone again.
ShouldProbe(c) ==
    /\ call[c] = "begin"
    /\ IF preferFallback /\ probeDue
       THEN call' = [call EXCEPT ![c] = "probe"] /\ probeDue' = FALSE
       ELSE call' = [call EXCEPT ![c] = "account"] /\ UNCHANGED probeDue
    /\ UNCHANGED <<answer, preferFallback, failStreak, probeStreak, riskControl, changes>>

\* The API answers an anonymous request.
Answer(c) ==
    /\ call[c] \in {"primary", "probe"} /\ answer[c] = "none"
    /\ \E d \in Decisions : answer' = [answer EXCEPT ![c] = d]
    /\ UNCHANGED <<call, preferFallback, failStreak, probeStreak, probeDue, riskControl, changes>>

\* A probe that answers counts; enough of them in a row end the preference.
OnProbe(c) ==
    /\ call[c] = "probe" /\ answer[c] # "none"
    /\ answer' = [answer EXCEPT ![c] = "none"]
    /\ IF answer[c] = "ok"
       THEN LET enough == probeStreak + 1 >= ProbeSuccessThreshold
            IN  /\ probeStreak' = IF enough THEN 0 ELSE probeStreak + 1
                /\ preferFallback' = (preferFallback /\ ~enough)
                /\ failStreak' = IF enough THEN 0 ELSE failStreak
                /\ call' = [call EXCEPT ![c] = "idle"]
       ELSE /\ probeStreak' = 0 /\ call' = [call EXCEPT ![c] = "account"]
            /\ UNCHANGED <<preferFallback, failStreak>>
    /\ UNCHANGED <<probeDue, riskControl, changes>>

\* The first answers of risk control are followed by the account at once; the count of them is
\* never set back by an answer in between.
OnPrimary(c) ==
    /\ call[c] = "primary" /\ answer[c] # "none"
    /\ answer' = [answer EXCEPT ![c] = "none"]
    /\ IF answer[c] = "fallback"
       THEN LET n == IF failStreak < DegradeThreshold THEN failStreak + 1 ELSE failStreak
                degrade == n >= DegradeThreshold /\ ~preferFallback
            IN  /\ failStreak' = n
                /\ preferFallback' = (preferFallback \/ degrade)
                /\ probeStreak' = IF degrade THEN 0 ELSE probeStreak
                /\ call' = [call EXCEPT ![c] = "fallback"]
       ELSE /\ call' = [call EXCEPT ![c] = "idle"]
            /\ UNCHANGED <<failStreak, preferFallback, probeStreak>>
    /\ UNCHANGED <<probeDue, riskControl, changes>>

\* The account's client answers, well or not; nothing is counted.
OnAccount(c) ==
    /\ call[c] \in {"fallback", "account"} /\ call' = [call EXCEPT ![c] = "idle"]
    /\ UNCHANGED <<answer, preferFallback, failStreak, probeStreak, probeDue, riskControl, changes>>

FbNext ==
    \/ RiskControlChanges \/ TimePasses
    \/ \E c \in Callers : Do(c) \/ ShouldProbe(c) \/ Answer(c) \/ OnProbe(c) \/ OnPrimary(c) \/ OnAccount(c)

\* Requests end, time passes, and rooms are asked for again and again.
FbFairness ==
    /\ WF_fbVars(TimePasses)
    /\ \A c \in Callers : /\ WF_fbVars(Do(c)) /\ WF_fbVars(ShouldProbe(c)) /\ WF_fbVars(Answer(c))
                          /\ WF_fbVars(OnProbe(c)) /\ WF_fbVars(OnPrimary(c)) /\ WF_fbVars(OnAccount(c))

(***************************************************************************)
(* Properties.                                                             *)
(***************************************************************************)

\* Once the API has lifted its risk control for good, the anonymous client is used again, however
\* late the answers of requests from before come in and whichever of them restores the
\* preference (shouldProbeLocked, onProbeSuccess).
AnonymousAgain == <>[]~riskControl => <>[]~preferFallback
=============================================================================
